----------------------------- MODULE FmOpProofs -----------------------------
(***************************************************************************)
(* Proofs about FmOp, for every tree, operation and choice of failing      *)
(* system calls: its types, and what a move or a rename may lose: if no    *)
(* flush fails, every node that left the source is whole at the target,    *)
(* unless a recursive remove of a directory above it took it.              *)
(*                                                                         *)
(* The invariant for that says that a remove waits for the copy it is      *)
(* linked to, and for this that every node is scanned, copied and removed  *)
(* by one task each, however the two idlers, the answers and the failures  *)
(* interleave.                                                             *)
(***************************************************************************)
EXTENDS FmOp, SequenceTheorems, TLAPS

-----------------------------------------------------------------------------
(* Sequences.                                                              *)

\* Without takes one element out and moves the ones behind it up by one place
\* (eina_list_remove_list).
LEMMA WithoutIndex ==
  ASSUME NEW S, NEW q \in Seq(S), NEW t, \E i \in 1..Len(q) : q[i] = t
  PROVE  /\ Without(q, t) \in Seq(S)
         /\ Len(Without(q, t)) = Len(q) - 1
         /\ \E i \in 1..Len(q) :
              /\ q[i] = t
              /\ \A k \in 1..Len(Without(q, t)) :
                   Without(q, t)[k] = IF k < i THEN q[k] ELSE q[k + 1]
<1> DEFINE i == CHOOSE j \in 1..Len(q) : q[j] = t
           p == SubSeq(q, 1, i - 1)
           r == SubSeq(q, i + 1, Len(q))
<1>1. i \in 1..Len(q) /\ q[i] = t
  OBVIOUS
<1>2. Len(q) \in Nat /\ \A k \in 1..Len(q) : q[k] \in S
  BY LenProperties, ElementOfSeq
<1>3. Without(q, t) = p \o r
  BY DEF Without
<1> HIDE DEF i
<1>4. /\ p \in Seq(S) /\ Len(p) = i - 1
      /\ \A k \in 1..(i - 1) : p[k] = q[k]
  <2>1. 1 \in Int /\ i - 1 \in Int /\ \A k \in 1..(i - 1) : q[k] \in S
    BY <1>1, <1>2
  <2>2. /\ p \in Seq(S) /\ Len(p) = IF 1 <= i - 1 THEN (i - 1) - 1 + 1 ELSE 0
        /\ \A k \in 1..((i - 1) - 1 + 1) : p[k] = q[1 + k - 1]
    BY <2>1, SubSeqProperties
  <2> QED BY <2>2, <1>1, <1>2
<1>5. /\ r \in Seq(S) /\ Len(r) = Len(q) - i
      /\ \A k \in 1..(Len(q) - i) : r[k] = q[k + i]
  <2>1. /\ i + 1 \in Int /\ Len(q) \in Int
        /\ \A k \in (i + 1)..Len(q) : q[k] \in S
    BY <1>1, <1>2
  <2>2. /\ r \in Seq(S)
        /\ Len(r) = IF i + 1 <= Len(q) THEN Len(q) - (i + 1) + 1 ELSE 0
        /\ \A k \in 1..(Len(q) - (i + 1) + 1) : r[k] = q[(i + 1) + k - 1]
    BY <2>1, SubSeqProperties
  <2> QED BY <2>2, <1>1, <1>2
<1> HIDE DEF p, r
<1>6. /\ p \o r \in Seq(S) /\ Len(p \o r) = Len(q) - 1
      /\ \A k \in 1..(Len(q) - 1) :
           (p \o r)[k] = IF k < i THEN q[k] ELSE q[k + 1]
  <2>1. /\ p \o r \in Seq(S) /\ Len(p \o r) = Len(p) + Len(r)
        /\ \A k \in 1..(Len(p) + Len(r)) :
             (p \o r)[k] = IF k <= Len(p) THEN p[k] ELSE r[k - Len(p)]
    BY <1>4, <1>5, ConcatProperties
  <2> QED BY <2>1, <1>1, <1>2, <1>4, <1>5
<1> QED BY <1>1, <1>3, <1>6

\* What is left is a queue of the same kind.
LEMMA WithoutType ==
  ASSUME NEW S, NEW q \in Seq(S), NEW t
  PROVE  Without(q, t) \in Seq(S)
<1>1. CASE \E i \in 1..Len(q) : q[i] = t
  BY <1>1, WithoutIndex
<1>2. CASE ~\E i \in 1..Len(q) : q[i] = t
  BY <1>2 DEF Without
<1> QED BY <1>1, <1>2

-----------------------------------------------------------------------------
(* The types of the operators the actions are built from.                  *)

\* What is left of a pass is a list of idlers.
LEMMA TurnType ==
  ASSUME PassOK, NEW i, Turn(i)
  PROVE  left' \in Seq(Idler)
BY DEF PassOK, Turn, Due

\* The task an idler looks at is one of its queue, or none.
LEMMA ScanCurrentType ==
  ASSUME ScanOK
  PROVE  ScanCurrent \in ScanTask \cup {NoTask}
BY DEF ScanOK, ScanCurrent

LEMMA WorkCurrentType ==
  ASSUME WorkOK
  PROVE  WorkCurrent \in WorkTask \cup {NoTask}
<1>1. WorkHead \in WorkTask \cup {NoTask}
  BY DEF WorkOK, WorkHead
<1> QED BY <1>1 DEF WorkOK, WorkCurrent

\* What a proceeding idler does to the marks and the error response.
LEMMA ClearedType ==
  ASSUME CtlOK, NEW e \in Idler
  PROVE  /\ Marks(e) \in [Idler -> BOOLEAN]
         /\ Response(e) \in ErrorAnswer \cup {"none"}
BY DEF CtlOK, Marks, Response

LEMMA SendsErrorType ==
  ASSUME CtlOK, NEW e \in Idler, NEW k \in {"error", "overwrite"},
         SendsError(e, k)
  PROVE  /\ err' \in [Idler -> BOOLEAN]
         /\ errResp' \in ErrorAnswer \cup {"none"}
         /\ asked' \in [{"error", "overwrite"} -> Nat]
BY ClearedType DEF CtlOK, SendsError

\* A task that leaves the work queue leaves queues of tasks behind.
LEMMA DequeuesType ==
  ASSUME WorkOK, NEW t, NEW q \in Seq(WorkTask \cup {NoTask}), Dequeues(t, q)
  PROVE  WorkOK'
<1>1. /\ Without(front, t) \in Seq(WorkTask)
      /\ Without(q, t) \in Seq(WorkTask \cup {NoTask})
  BY WithoutType DEF WorkOK
<1> QED BY <1>1 DEF WorkOK, Dequeues, Fresh, Links

LEMMA UnlinkedType ==
  ASSUME WorkOK, NEW t
  PROVE  /\ Unlinked(t) \in Seq(WorkTask \cup {NoTask})
         /\ Links(t) \subseteq Node
BY WithoutType DEF WorkOK, Unlinked, Links

LEMMA WithIdlersType ==
  ASSUME NEW q \in Seq(Idler)
  PROVE  WithIdlers(q) \in Seq(Idler)
BY DEF WithIdlers, Idler

\* A rename moves nodes and nothing else.
LEMMA RenamedType ==
  ASSUME DiskOK, NEW n, Renamed(n), UNCHANGED <<progVars, histVars>>
  PROVE  DiskOK'
BY DEF DiskOK, Renamed, progVars, histVars

-----------------------------------------------------------------------------
(* Type correctness.                                                       *)

LEMMA InitType == Init => TypeOK
<1> SUFFICES ASSUME Init PROVE TypeOK
  OBVIOUS
<1>1. MainOK
  BY ArgsAssumption DEF Init, MainOK
<1>2. ScanOK
  BY EmptySeq DEF Init, ScanOK
<1>3. WorkOK
  BY EmptySeq DEF Init, WorkOK, Fresh
<1>4. PassOK
  BY EmptySeq DEF Init, PassOK
<1>5. CtlOK
  <2>1. [error |-> 0, overwrite |-> 0] \in [{"error", "overwrite"} -> Nat]
    OBVIOUS
  <2> QED BY <2>1 DEF Init, CtlOK
<1>6. DiskOK
  BY DEF Init, DiskOK
<1> QED BY <1>1, <1>2, <1>3, <1>4, <1>5, <1>6 DEF TypeOK

\* A part of the state that a step leaves alone keeps its type.
LEMMA SameType ==
  ASSUME TypeOK
  PROVE  /\ UNCHANGED mainVars => MainOK'
         /\ UNCHANGED scanVars => ScanOK'
         /\ UNCHANGED workVars => WorkOK'
         /\ UNCHANGED passVars => PassOK'
         /\ UNCHANGED <<ctlVars, askVars>> => CtlOK'
         /\ UNCHANGED <<progVars, diskVars, histVars>> => DiskOK'
<1>1. UNCHANGED mainVars => MainOK'
  BY DEF TypeOK, MainOK, mainVars, argVars
<1>2. UNCHANGED scanVars => ScanOK'
  BY DEF TypeOK, ScanOK, scanVars
<1>3. UNCHANGED workVars => WorkOK'
  BY DEF TypeOK, WorkOK, workVars
<1>4. UNCHANGED passVars => PassOK'
  BY DEF TypeOK, PassOK, passVars
<1>5. UNCHANGED <<ctlVars, askVars>> => CtlOK'
  BY DEF TypeOK, CtlOK, ctlVars, askVars
<1>6. UNCHANGED <<progVars, diskVars, histVars>> => DiskOK'
  BY DEF TypeOK, DiskOK, progVars, diskVars, histVars
<1> QED BY <1>1, <1>2, <1>3, <1>4, <1>5, <1>6

LEMMA MainType == TypeOK /\ Main => TypeOK'
<1> SUFFICES ASSUME TypeOK, Main PROVE TypeOK'
  OBVIOUS
<1>1. CASE MainLinks
  <2>1. MainOK'
    BY <1>1 DEF MainLinks, TypeOK, MainOK, argVars
  <2>2. PassOK' /\ DiskOK'
    BY <1>1 DEF MainLinks, TypeOK, PassOK, DiskOK, progVars, histVars
  <2> QED BY <1>1, <2>1, <2>2, SameType DEF MainLinks, TypeOK
<1>2. CASE MainRenames
  <2>1. DiskOK'
    BY <1>2, RenamedType DEF MainRenames, TypeOK
  <2>2. MainOK'
    <3>1. todo' \in Seq(Node)
      BY <1>2 DEF MainRenames, TypeOK, MainOK
    <3> QED BY <1>2, <3>1 DEF MainRenames, TypeOK, MainOK, argVars
  <2> QED BY <1>2, <2>1, <2>2, SameType DEF MainRenames, TypeOK
<1>3. CASE MainGivesUp
  <2>1. MainOK' /\ PassOK'
    BY <1>3 DEF MainGivesUp, TypeOK, MainOK, PassOK, argVars
  <2>2. CtlOK'
    <3>1. err' \in [Idler -> BOOLEAN]
      BY <1>3 DEF MainGivesUp, TypeOK, CtlOK
    <3>2. /\ asked' \in [{"error", "overwrite"} -> Nat]
          /\ faults' \in Nat
      BY <1>3 DEF MainGivesUp, TypeOK, CtlOK
    <3> QED BY <1>3, <3>1, <3>2 DEF MainGivesUp, TypeOK, CtlOK
  <2> QED BY <1>3, <2>1, <2>2, SameType DEF MainGivesUp, TypeOK
<1>4. CASE MainQueues
  <2> DEFINE n == Head(todo)
             t == ArgType(n)
  <2>1. n \in Node /\ t \in OpType
    BY <1>4 DEF MainQueues, TypeOK, MainOK, ArgType, OpType
  <2>2. [act |-> t, node |-> n] \in ScanTask
    BY <2>1 DEF ScanTask
  <2>3. MainOK'
    BY <1>4, <2>1 DEF MainQueues, TypeOK, MainOK, argVars
  <2>4. ScanOK'
    BY <1>4, <2>2 DEF MainQueues, TypeOK, ScanOK
  <2>5. WorkOK'
    <3>1. /\ sep' \in {"none", "live", "freed"}
          /\ back' \in {back, Append(back, NoTask)}
      BY <1>4 DEF MainQueues, TypeOK, WorkOK
    <3>2. back' \in Seq(WorkTask \cup {NoTask})
      BY <3>1 DEF TypeOK, WorkOK
    <3> QED BY <1>4, <3>1, <3>2 DEF MainQueues, TypeOK, WorkOK
  <2>6. CtlOK'
    BY <1>4, UserAssumption DEF MainQueues, TypeOK, CtlOK, ctlVars
  <2> QED BY <1>4, <2>3, <2>4, <2>5, <2>6, SameType DEF MainQueues, TypeOK
<1>5. CASE MainLoops
  <2>1. PassOK'
    BY <1>5 DEF MainLoops, TypeOK, PassOK, Idler
  <2>2. MainOK'
    BY <1>5 DEF MainLoops, TypeOK, MainOK, argVars
  <2> QED BY <1>5, <2>1, <2>2, SameType DEF MainLoops, TypeOK
<1> QED BY <1>1, <1>2, <1>3, <1>4, <1>5 DEF Main

\* A turn changes no more of the pass than the list of idlers.
LEMMA PassKept ==
  ASSUME PassOK, NEW i, Turn(i), idlers' \in {idlers, Without(idlers, i)},
         quit' \in BOOLEAN, crashed' \in BOOLEAN
  PROVE  PassOK'
<1>1. left' \in Seq(Idler)
  BY TurnType
<1>2. idlers' \in Seq(Idler)
  BY WithoutType DEF PassOK
<1> QED BY <1>1, <1>2 DEF PassOK

\* A turn that only clears its mark and its response.
LEMMA ClearedKept ==
  ASSUME CtlOK, NEW e \in Idler, Cleared(e),
         UNCHANGED <<abort, overwrite, owResp, askVars>>
  PROVE  CtlOK'
<1>1. err' \in [Idler -> BOOLEAN] /\ errResp' \in ErrorAnswer \cup {"none"}
  BY ClearedType DEF Cleared
<1> QED BY <1>1 DEF CtlOK, askVars

\* The tasks a scan task turns into are tasks of the work idler.
LEMMA PushesType ==
  ASSUME WorkOK, PassOK, DiskOK, NEW t \in ScanTask, Pushes(t)
  PROVE  /\ front' \in Seq(WorkTask)
         /\ back' \in Seq(WorkTask \cup {NoTask})
         /\ link' \subseteq Node
         /\ crashed' \in BOOLEAN
         /\ total' \in Int
<1>1. /\ t.node \in Node /\ t.act \in OpType \cup {"stat"}
      /\ Size[t.node] \in Nat
  BY TreeAssumption DEF ScanTask
<1>2. \A k \in {"copy", "stat", "remove", "destroy", "symlink", "rename"} :
        [act |-> k, node |-> t.node] \in WorkTask
  BY <1>1 DEF WorkTask
<1>3. total' \in Int
  BY <1>1 DEF Pushes, DiskOK, ChunkCost
<1>4. CASE t.act \in {"copy", "stat"}
  <2>1. /\ UNCHANGED <<front, link, crashed>>
        /\ back' = Append(back, [act |-> t.act, node |-> t.node])
    BY <1>4 DEF Pushes
  <2> QED BY <1>2, <1>3, <1>4, <2>1 DEF WorkOK, PassOK
<1>5. CASE t.act \in {"remove", "symlink", "rename"}
  <2>1. /\ UNCHANGED <<back, link, crashed>>
        /\ front' = <<[act |-> t.act, node |-> t.node]>> \o front
    BY <1>5 DEF Pushes
  <2> QED BY <1>2, <1>3, <1>5, <2>1 DEF WorkOK, PassOK
<1>6. CASE t.act \in {"move", "srm"}
  <2>1. /\ LinksRemove(t.node)
        /\ \E k \in {"copy", "destroy"} :
             front' = <<[act |-> k, node |-> t.node]>> \o front
    BY <1>6 DEF Pushes
  <2>2. front' \in Seq(WorkTask)
    BY <1>2, <2>1 DEF WorkOK
  <2>3. /\ back' \in Seq(WorkTask \cup {NoTask})
        /\ link' \subseteq Node /\ crashed' \in BOOLEAN
    <3>1. CASE sep = "live"
      <4>1. back' = <<[act |-> "remove", node |-> t.node]>> \o back
        BY <2>1, <3>1 DEF LinksRemove
      <4>2. back' \in Seq(WorkTask \cup {NoTask})
        BY <1>2, <4>1 DEF WorkOK
      <4>3. link' \subseteq Node
        BY <1>1, <2>1, <3>1 DEF LinksRemove, WorkOK
      <4> QED BY <2>1, <3>1, <4>2, <4>3 DEF LinksRemove, PassOK
    <3>2. CASE sep # "live"
      BY <2>1, <3>2 DEF LinksRemove, WorkOK
    <3> QED BY <3>1, <3>2
  <2> QED BY <1>3, <2>2, <2>3
<1> QED BY <1>1, <1>4, <1>5, <1>6 DEF OpType

LEMMA ScanType == TypeOK /\ Scan => TypeOK'
<1> SUFFICES ASSUME TypeOK, Scan PROVE TypeOK'
  OBVIOUS
<1>t. /\ MainOK /\ ScanOK /\ WorkOK /\ PassOK /\ CtlOK /\ DiskOK
      /\ "scan" \in Idler
  BY DEF TypeOK, Idler
<1>c. ScanCurrent \in ScanTask \cup {NoTask}
  BY <1>t, ScanCurrentType
<1>1. CASE ScanEmpty
  <2>1. PassOK'
    BY <1>1, <1>t, PassKept DEF ScanEmpty, PassOK
  <2> QED BY <1>1, <2>1, SameType DEF ScanEmpty, TypeOK
<1>2. CASE ScanSleeps
  <2>1. PassOK'
    BY <1>2, <1>t, PassKept DEF ScanSleeps, PassOK
  <2>2. ScanOK'
    BY <1>2, <1>t, <1>c DEF ScanSleeps, ScanOK
  <2> QED BY <1>2, <2>1, <2>2, SameType DEF ScanSleeps, TypeOK
<1>3. CASE ScanHeld
  <2>1. PassOK'
    BY <1>3, <1>t, PassKept DEF ScanHeld, PassOK
  <2>2. ScanOK'
    BY <1>3, <1>t, <1>c DEF ScanHeld, ScanOK
  <2> QED BY <1>3, <2>1, <2>2, SameType DEF ScanHeld, TypeOK
<1>4. CASE ScanGivesUp
  <2>1. PassOK'
    BY <1>4, <1>t, PassKept DEF ScanGivesUp, PassOK
  <2>2. ScanOK'
    BY <1>4, <1>t, WithoutType DEF ScanGivesUp, ScanOK
  <2>3. CtlOK'
    <3>1. /\ err' \in [Idler -> BOOLEAN]
          /\ errResp' \in ErrorAnswer \cup {"none"}
      BY <1>4, <1>t DEF ScanGivesUp, CtlOK
    <3> QED BY <1>4, <1>t, <3>1 DEF ScanGivesUp, CtlOK, askVars
  <2>4. DiskOK'
    <3>1. skipped' \subseteq Node
      BY <1>4, <1>t DEF ScanGivesUp, DiskOK, Below
    <3>2. done' \in Int /\ total' \in Int
      BY <1>4, <1>t DEF ScanGivesUp, ScanRollback, ScanOK, DiskOK, ChunkCost
    <3> QED BY <1>4, <1>t, <3>1, <3>2 DEF ScanGivesUp, DiskOK, diskVars
  <2> QED BY <1>4, <2>1, <2>2, <2>3, <2>4, SameType DEF ScanGivesUp, TypeOK
<1>5. CASE ScanAborts
  <2>1. PassOK'
    BY <1>5, <1>t, PassKept DEF ScanAborts, PassOK
  <2>2. ScanOK'
    BY <1>5, <1>t, <1>c DEF ScanAborts, ScanOK
  <2>3. CtlOK'
    <3>1. /\ err' \in [Idler -> BOOLEAN]
          /\ errResp' \in ErrorAnswer \cup {"none"}
      BY <1>5, <1>t DEF ScanAborts, CtlOK
    <3> QED BY <1>5, <1>t, <3>1 DEF ScanAborts, CtlOK, askVars
  <2>4. DiskOK'
    <3>1. done' \in Int /\ total' \in Int
      BY <1>5, <1>t
         DEF ScanAborts, ScanRollback, ScanOK, DiskOK, ChunkCost, progVars
    <3> QED BY <1>5, <1>t, <3>1 DEF ScanAborts, DiskOK, diskVars, histVars
  <2> QED BY <1>5, <2>1, <2>2, <2>3, <2>4, SameType DEF ScanAborts, TypeOK
<1>6. CASE ScanFails
  <2> PICK t \in ScanTask : ScanFails!(t)
    BY <1>6 DEF ScanFails
  <2>1. PassOK'
    BY <1>t, PassKept DEF Scans, PassOK
  <2>2. slen' \in Nat /\ faults' \in Nat
    BY <1>t, TreeAssumption DEF ScanOK, CtlOK, ScanTask
  <2>3. ScanOK'
    BY <1>t, <2>2 DEF ScanOK
  <2>4. CtlOK'
    BY <1>t, <2>2, SendsErrorType DEF CtlOK
  <2> QED BY <2>1, <2>3, <2>4, SameType DEF TypeOK
<1>7. CASE ScanOpens
  <2> PICK t \in ScanTask : ScanOpens!(t)
    BY <1>7 DEF ScanOpens
  <2>1. PassOK'
    BY <1>t, PassKept DEF Scans, PassOK
  <2>2. ScanOK'
    <3>1. slen' \in Nat /\ ents' \subseteq Node
      BY <1>t, TreeAssumption DEF ScanOK, ScanTask, Children
    <3> QED BY <1>t, <3>1 DEF ScanOK
  <2>3. CtlOK'
    BY <1>t, ClearedKept
  <2> QED BY <2>1, <2>2, <2>3, SameType DEF TypeOK
<1>8. CASE ScanChild
  <2> PICK t \in ScanTask, c \in ents : ScanChild!(t, c)
    BY <1>8 DEF ScanChild
  <2>1. PassOK'
    BY <1>t, PassKept DEF Scans, PassOK
  <2>2. ScanOK'
    <3>1. [act |-> t.act, node |-> c] \in ScanTask
      BY <1>t DEF ScanOK, ScanTask
    <3>2. scanq' \in Seq(ScanTask)
      BY <1>t, <3>1 DEF ScanOK, Queued
    <3> QED BY <1>t, <3>2 DEF ScanOK
  <2>3. CtlOK'
    BY <1>t, ClearedKept
  <2> QED BY <2>1, <2>2, <2>3, SameType DEF TypeOK
<1>9. CASE ScanDirRead
  <2> PICK t \in ScanTask : ScanDirRead!(t)
    BY <1>9 DEF ScanDirRead
  <2>1. PassOK'
    BY <1>t, PassKept DEF Scans, PassOK
  <2>2. ScanOK'
    <3>1. t.node \in Node /\ [act |-> "stat", node |-> t.node] \in ScanTask
      BY DEF ScanTask
    <3>2. scanq' \in Seq(ScanTask)
      BY <1>t, <3>1 DEF ScanOK, Queued
    <3> QED BY <1>t, <3>1, <3>2 DEF ScanOK
  <2>3. CtlOK'
    BY <1>t, ClearedKept
  <2> QED BY <2>1, <2>2, <2>3, SameType DEF TypeOK
<1>10. CASE ScanPushes
  <2> PICK t \in ScanTask : ScanPushes!(t)
    BY <1>10 DEF ScanPushes
  <2>1. /\ t.node \in Node /\ t.act \in OpType \cup {"stat"}
        /\ Size[t.node] \in Nat
    BY TreeAssumption DEF ScanTask
  <2>2. /\ front' \in Seq(WorkTask)
        /\ back' \in Seq(WorkTask \cup {NoTask})
        /\ link' \subseteq Node
        /\ crashed' \in BOOLEAN
        /\ total' \in Int
    BY <1>t, <2>1, PushesType
  <2>3. PassOK'
    BY <1>t, <2>2, PassKept DEF Scans, PassOK
  <2>4. ScanOK'
    BY <1>t, WithoutType DEF ScanOK
  <2>5. CtlOK'
    BY <1>t, ClearedKept
  <2>6. WorkOK'
    BY <1>t, <2>2 DEF WorkOK
  <2>7. DiskOK'
    BY <1>t, <2>2 DEF DiskOK, diskVars, histVars
  <2> QED BY <2>3, <2>4, <2>5, <2>6, <2>7, SameType DEF TypeOK
<1> QED BY <1>1, <1>2, <1>3, <1>4, <1>5, <1>6, <1>7, <1>8, <1>9, <1>10 DEF Scan

CurType == [ovr: OverwriteAnswer \cup {"none"}, open: BOOLEAN, rd: Nat, pos: Nat]

\* The parts of the state that no atom touches.
LEMMA WorksType ==
  ASSUME TypeOK, NEW t \in WorkTask, NEW k, Works(t, k)
  PROVE  /\ MainOK' /\ ScanOK' /\ PassOK'
         /\ abort' \in BOOLEAN
         /\ t.node \in Node /\ Size[t.node] \in Nat
<1>1. PassOK'
  BY PassKept DEF Works, TypeOK, PassOK
<1>2. abort' \in BOOLEAN
  BY DEF Works, TypeOK, CtlOK
<1>3. t.node \in Node /\ Size[t.node] \in Nat
  BY TreeAssumption DEF WorkTask
<1> QED BY <1>1, <1>2, <1>3, SameType DEF Works

\* The answers after an atom that used one up, or did not look.
LEMMA AtomCtl ==
  ASSUME CtlOK, abort' \in BOOLEAN, Cleared("work"), faults' \in Nat,
         UNCHANGED asked,
         (\E t \in WorkTask : Consumed(t)) \/ UNCHANGED <<overwrite, owResp>>
  PROVE  CtlOK'
<1>1. err' \in [Idler -> BOOLEAN] /\ errResp' \in ErrorAnswer \cup {"none"}
  BY ClearedType DEF Cleared, Idler
<1>2. overwrite' \in BOOLEAN /\ owResp' \in OverwriteAnswer \cup {"none"}
  BY DEF Consumed, CtlOK
<1> QED BY <1>1, <1>2 DEF CtlOK

LEMMA TaskOverwriteType ==
  ASSUME WorkOK, CtlOK
  PROVE  TaskOverwrite \in OverwriteAnswer \cup {"none"}
BY DEF WorkOK, CtlOK, TaskOverwrite

\* A task that stays where it is.
LEMMA StaysType ==
  ASSUME WorkOK, NEW t \in WorkTask, Stays(t), cur' \in CurType
  PROVE  WorkOK'
BY DEF WorkOK, Stays, CurType

LEMMA WorkRollbackType ==
  ASSUME WorkOK, DiskOK, NEW t \in WorkTask, WorkRollback(t)
  PROVE  done' \in Int /\ total' \in Int
<1>1. Size[t.node] \in Nat /\ cur.pos \in Nat
  BY TreeAssumption DEF WorkTask, WorkOK
<1> QED BY <1>1 DEF WorkRollback, DiskOK, ChunkCost

LEMMA WorkType == TypeOK /\ Work => TypeOK'
<1> SUFFICES ASSUME TypeOK, Work PROVE TypeOK'
  OBVIOUS
<1>t. /\ MainOK /\ ScanOK /\ WorkOK /\ PassOK /\ CtlOK /\ DiskOK
      /\ "work" \in Idler /\ "scan" \in Idler
      /\ back \in Seq(WorkTask \cup {NoTask})
      /\ cur \in CurType
  BY DEF TypeOK, Idler, WorkOK, CurType
<1>c. WorkCurrent \in WorkTask \cup {NoTask}
  BY <1>t, WorkCurrentType
<1>o. TaskOverwrite \in OverwriteAnswer \cup {"none"}
  BY <1>t, TaskOverwriteType
<1>1. CASE WorkDropsSeparator
  <2>1. PassOK'
    BY <1>1, <1>t, PassKept DEF WorkDropsSeparator, PassOK
  <2>2. WorkOK'
    BY <1>1, <1>t DEF WorkDropsSeparator, WorkOK
  <2> QED BY <1>1, <2>1, <2>2, SameType DEF WorkDropsSeparator, TypeOK
<1>2. CASE WorkFindsNothing
  <2>1. PassOK'
    BY <1>2, <1>t, PassKept DEF WorkFindsNothing, PassOK
  <2> QED BY <1>2, <2>1, SameType DEF WorkFindsNothing, TypeOK
<1>3. CASE WorkSleeps
  <2>1. PassOK'
    BY <1>3, <1>t, PassKept DEF WorkSleeps, PassOK
  <2>2. WorkOK'
    BY <1>3, <1>t, <1>c DEF WorkSleeps, WorkOK
  <2> QED BY <1>3, <2>1, <2>2, SameType DEF WorkSleeps, TypeOK
<1>4. CASE WorkHeld
  <2>1. PassOK'
    BY <1>4, <1>t, PassKept DEF WorkHeld, PassOK
  <2>2. WorkOK'
    BY <1>4, <1>t, <1>c DEF WorkHeld, WorkOK
  <2> QED BY <1>4, <2>1, <2>2, SameType DEF WorkHeld, TypeOK
<1>5. CASE WorkGivesUp
  <2>1. PassOK'
    BY <1>5, <1>t, PassKept DEF WorkGivesUp, PassOK
  <2>2. WorkOK'
    BY <1>5, <1>t, DequeuesType, UnlinkedType DEF WorkGivesUp
  <2>3. CtlOK'
    <3>1. /\ err' \in [Idler -> BOOLEAN]
          /\ errResp' \in ErrorAnswer \cup {"none"}
      BY <1>5, <1>t DEF WorkGivesUp, CtlOK
    <3> QED BY <1>5, <1>t, <3>1 DEF WorkGivesUp, CtlOK, askVars
  <2>4. DiskOK'
    <3>1. done' \in Int /\ total' \in Int
      BY <1>5, <1>t, <1>c, WorkRollbackType DEF WorkGivesUp
    <3>2. skipped' \subseteq Node
      BY <1>5, <1>t, <1>c DEF WorkGivesUp, DiskOK, WorkTask
    <3> QED BY <1>5, <1>t, <3>1, <3>2 DEF WorkGivesUp, DiskOK, diskVars
  <2> QED BY <1>5, <2>1, <2>2, <2>3, <2>4, SameType DEF WorkGivesUp, TypeOK
<1>6. CASE WorkAborts
  <2>1. PassOK'
    BY <1>6, <1>t, PassKept DEF WorkAborts, PassOK
  <2>2. WorkOK'
    BY <1>6, <1>t, <1>c, DequeuesType, StaysType DEF WorkAborts, Finishes
  <2>3. CtlOK'
    <3>1. /\ err' \in [Idler -> BOOLEAN]
          /\ errResp' \in ErrorAnswer \cup {"none"}
      BY <1>6, <1>t DEF WorkAborts, CtlOK
    <3> QED BY <1>6, <1>t, <3>1 DEF WorkAborts, CtlOK, askVars
  <2>4. DiskOK'
    <3>1. done' \in Int /\ total' \in Int
      BY <1>6, <1>t, <1>c, WorkRollbackType DEF WorkAborts, DiskOK, ChunkCost
    <3> QED BY <1>6, <1>t, <3>1 DEF WorkAborts, DiskOK, diskVars, histVars
  <2> QED BY <1>6, <2>1, <2>2, <2>3, <2>4, SameType DEF WorkAborts, TypeOK
<1>7. CASE WorkAsks
  <2> PICK t \in WorkTask : WorkAsks!(t)
    BY <1>7 DEF WorkAsks
  <2>1. MainOK' /\ ScanOK' /\ PassOK' /\ abort' \in BOOLEAN
    BY WorksType
  <2>2. WorkOK'
    BY <1>t, <1>o, StaysType DEF CurType
  <2>3. CtlOK'
    BY <1>t, <2>1, SendsErrorType DEF CtlOK
  <2> QED BY <2>1, <2>2, <2>3, SameType DEF TypeOK
<1>8. CASE WorkDeclines
  <2> PICK t \in WorkTask : WorkDeclines!(t)
    BY <1>8 DEF WorkDeclines
  <2>1. /\ MainOK' /\ ScanOK' /\ PassOK' /\ abort' \in BOOLEAN
        /\ t.node \in Node
    BY WorksType
  <2>2. WorkOK'
    BY <1>t, DequeuesType, UnlinkedType
  <2>3. CtlOK'
    BY <1>t, <2>1, AtomCtl DEF CtlOK, askVars
  <2>4. DiskOK'
    <3>1. done' \in Int /\ total' \in Int
      BY <1>t, WorkRollbackType
    <3> QED BY <1>t, <2>1, <3>1 DEF DiskOK, diskVars
  <2> QED BY <2>1, <2>2, <2>3, <2>4 DEF TypeOK
<1>9. CASE WorkCopiesAtOnce
  <2> PICK t \in WorkTask : WorkCopiesAtOnce!(t)
    BY <1>9 DEF WorkCopiesAtOnce
  <2>1. /\ MainOK' /\ ScanOK' /\ PassOK' /\ abort' \in BOOLEAN
        /\ t.node \in Node /\ Size[t.node] \in Nat
    BY WorksType
  <2>2. WorkOK'
    BY <1>t, DequeuesType DEF Finishes
  <2>3. CtlOK'
    BY <1>t, <2>1, AtomCtl DEF CtlOK, askVars, MayWrite
  <2>4. DiskOK'
    BY <1>t, <2>1 DEF DiskOK, Advances, histVars
  <2> QED BY <2>1, <2>2, <2>3, <2>4 DEF TypeOK
<1>10. CASE WorkOpens
  <2> PICK t \in WorkTask : WorkOpens!(t)
    BY <1>10 DEF WorkOpens
  <2>1. /\ MainOK' /\ ScanOK' /\ PassOK' /\ abort' \in BOOLEAN
        /\ t.node \in Node
    BY WorksType
  <2>2. WorkOK'
    BY <1>t, <1>o, StaysType DEF CurType
  <2>3. CtlOK'
    BY <1>t, <2>1, AtomCtl DEF CtlOK, askVars, MayWrite
  <2>4. DiskOK'
    BY <1>t, <2>1 DEF DiskOK, progVars, histVars
  <2> QED BY <2>1, <2>2, <2>3, <2>4 DEF TypeOK
<1>11. CASE WorkCopiesNothing
  <2> PICK t \in WorkTask : WorkCopiesNothing!(t)
    BY <1>11 DEF WorkCopiesNothing
  <2>1. /\ MainOK' /\ ScanOK' /\ PassOK' /\ abort' \in BOOLEAN
        /\ t.node \in Node /\ Size[t.node] \in Nat
    BY WorksType
  <2>2. WorkOK'
    BY <1>t, <1>o, StaysType DEF CurType
  <2>3. CtlOK'
    BY <1>t, <2>1, AtomCtl DEF CtlOK, askVars, MayWrite
  <2> QED BY <2>1, <2>2, <2>3, SameType DEF TypeOK
<1>12. CASE WorkCopiesChunk
  <2> PICK t \in WorkTask : WorkCopiesChunk!(t)
    BY <1>12 DEF WorkCopiesChunk
  <2>1. /\ MainOK' /\ ScanOK' /\ PassOK' /\ abort' \in BOOLEAN
        /\ t.node \in Node /\ Size[t.node] \in Nat
    BY WorksType
  <2>2. WorkOK'
    <3>1. cur.rd + 1 \in Nat /\ cur.pos + 1 \in Nat
      BY <1>t DEF CurType
    <3>2. cur' \in CurType
      BY <1>t, <1>o, <3>1 DEF CurType
    <3> QED BY <1>t, <3>2, StaysType
  <2>3. CtlOK'
    BY <1>t, <2>1, AtomCtl DEF CtlOK, askVars
  <2>4. DiskOK'
    BY <1>t, <2>1 DEF DiskOK, Advances, progVars, diskVars, histVars
  <2> QED BY <2>1, <2>2, <2>3, <2>4 DEF TypeOK
<1>13. CASE WorkReachesEof
  <2> PICK t \in WorkTask, flushed \in BOOLEAN : WorkReachesEof!(t, flushed)
    BY <1>13 DEF WorkReachesEof
  <2>1. /\ MainOK' /\ ScanOK' /\ PassOK' /\ abort' \in BOOLEAN
        /\ t.node \in Node /\ Size[t.node] \in Nat
    BY WorksType
  <2>2. WorkOK'
    BY <1>t, DequeuesType DEF Finishes
  <2>3. CtlOK'
    BY <1>t, <2>1, AtomCtl DEF CtlOK, askVars
  <2>4. DiskOK'
    BY <1>t, <2>1 DEF DiskOK, Advances, progVars, diskVars, histVars
  <2> QED BY <2>1, <2>2, <2>3, <2>4 DEF TypeOK
<1>14. CASE WorkFails
  <2> PICK t \in WorkTask : WorkFails!(t)
    BY <1>14 DEF WorkFails
  <2>1. MainOK' /\ ScanOK' /\ PassOK' /\ abort' \in BOOLEAN
    BY WorksType
  <2>2. /\ cur' \in CurType /\ faults' \in Nat
        /\ overwrite' \in BOOLEAN
        /\ owResp' \in OverwriteAnswer \cup {"none"}
    <3>1. CASE t.act = "copy"
      <4>1. CopyError(t)
        BY <3>1
      <4>2. cur' \in CurType
        BY <1>t, <1>o, <4>1 DEF CopyError, CurType
      <4>3. faults' \in Nat
        BY <1>t, <4>1 DEF CopyError, CtlOK
      <4>4. Consumed(t) \/ UNCHANGED <<overwrite, owResp>>
        BY <4>1 DEF CopyError, MayWrite
      <4> QED BY <1>t, <4>2, <4>3, <4>4 DEF Consumed, CtlOK
    <3>2. CASE t.act = "remove"
      BY <1>t, <3>2 DEF RemoveError, CtlOK
    <3>3. CASE t.act \in {"symlink", "rename"}
      <4>1. RelinkError(t)
        BY <3>3
      <4>2. cur' \in CurType
        BY <1>t, <1>o, <4>1 DEF RelinkError, CurType
      <4>3. faults' \in Nat
        BY <1>t, <4>1 DEF RelinkError, CtlOK
      <4> QED BY <1>t, <4>1, <4>2, <4>3 DEF RelinkError, MayWrite, Consumed,
                                            CtlOK
    <3> QED BY <3>1, <3>2, <3>3
  <2>3. WorkOK'
    BY <1>t, <2>2, UnlinkedType DEF WorkOK, CurType
  <2>4. CtlOK'
    BY <1>t, <2>1, <2>2, SendsErrorType DEF CtlOK
  <2> QED BY <2>1, <2>3, <2>4, SameType DEF TypeOK
<1>15. CASE WorkStats
  <2> PICK t \in WorkTask : WorkStats!(t)
    BY <1>15 DEF WorkStats
  <2>1. /\ MainOK' /\ ScanOK' /\ PassOK' /\ abort' \in BOOLEAN
        /\ t.node \in Node /\ Size[t.node] \in Nat
    BY WorksType
  <2>2. WorkOK'
    BY <1>t, DequeuesType DEF Finishes
  <2>3. CtlOK'
    BY <1>t, <2>1, AtomCtl DEF CtlOK, askVars
  <2>4. DiskOK'
    BY <1>t, <2>1 DEF DiskOK, Advances, progVars, diskVars, histVars, ChunkCost
  <2> QED BY <2>1, <2>2, <2>3, <2>4 DEF TypeOK
<1>16. CASE WorkRemoves
  <2> PICK t \in WorkTask : WorkRemoves!(t)
    BY <1>16 DEF WorkRemoves
  <2>1. /\ MainOK' /\ ScanOK' /\ PassOK' /\ abort' \in BOOLEAN
        /\ t.node \in Node /\ Size[t.node] \in Nat
    BY WorksType
  <2>2. WorkOK'
    BY <1>t, DequeuesType DEF Finishes
  <2>3. CtlOK'
    BY <1>t, <2>1, AtomCtl DEF CtlOK, askVars
  <2>4. DiskOK'
    BY <1>t, <2>1 DEF DiskOK, Advances, progVars, diskVars, histVars, ChunkCost
  <2> QED BY <2>1, <2>2, <2>3, <2>4 DEF TypeOK
<1>17. CASE WorkSymlinks
  <2> PICK t \in WorkTask : WorkSymlinks!(t)
    BY <1>17 DEF WorkSymlinks
  <2>1. /\ MainOK' /\ ScanOK' /\ PassOK' /\ abort' \in BOOLEAN
        /\ t.node \in Node /\ Size[t.node] \in Nat
    BY WorksType
  <2>2. WorkOK'
    BY <1>t, DequeuesType DEF Finishes
  <2>3. CtlOK'
    BY <1>t, <2>1, AtomCtl DEF CtlOK, askVars, MayWrite
  <2>4. DiskOK'
    BY <1>t, <2>1 DEF DiskOK, Advances, progVars, diskVars, histVars, ChunkCost
  <2> QED BY <2>1, <2>2, <2>3, <2>4 DEF TypeOK
<1>18. CASE WorkRenames
  <2> PICK t \in WorkTask : WorkRenames!(t)
    BY <1>18 DEF WorkRenames
  <2>1. MainOK' /\ ScanOK' /\ PassOK' /\ abort' \in BOOLEAN
    BY WorksType
  <2>2. WorkOK'
    BY <1>t, DequeuesType DEF Finishes
  <2>3. CtlOK'
    BY <1>t, <2>1, AtomCtl DEF CtlOK, askVars, MayWrite
  <2>4. DiskOK'
    BY <1>t DEF DiskOK, Renamed, Advances, ChunkCost, histVars
  <2> QED BY <2>1, <2>2, <2>3, <2>4 DEF TypeOK
<1>19. CASE WorkWipes
  <2> PICK t \in WorkTask : WorkWipes!(t)
    BY <1>19 DEF WorkWipes
  <2>1. /\ MainOK' /\ ScanOK' /\ PassOK' /\ abort' \in BOOLEAN
        /\ t.node \in Node /\ Size[t.node] \in Nat
    BY WorksType
  <2>2. WorkOK'
    <3>1. CASE cur.pos + 1 < WipeWrites(t.node)
      BY <1>t, <3>1, StaysType DEF CurType
    <3>2. CASE ~(cur.pos + 1 < WipeWrites(t.node))
      BY <1>t, <3>2, DequeuesType DEF Finishes
    <3> QED BY <3>1, <3>2
  <2>3. CtlOK'
    BY <1>t, <2>1, AtomCtl DEF CtlOK, askVars
  <2>4. DiskOK'
    BY <1>t, <2>1 DEF DiskOK, Advances, progVars, diskVars, histVars
  <2> QED BY <2>1, <2>2, <2>3, <2>4 DEF TypeOK
<1>20. CASE WorkWipesNothing
  <2> PICK t \in WorkTask : WorkWipesNothing!(t)
    BY <1>20 DEF WorkWipesNothing
  <2>1. /\ MainOK' /\ ScanOK' /\ PassOK' /\ abort' \in BOOLEAN
        /\ t.node \in Node /\ Size[t.node] \in Nat
    BY WorksType
  <2>2. WorkOK'
    BY <1>t, DequeuesType DEF Finishes
  <2>3. CtlOK'
    BY <1>t, <2>1, AtomCtl DEF CtlOK, askVars
  <2> QED BY <2>1, <2>2, <2>3, SameType DEF TypeOK
<1> QED BY <1>1, <1>2, <1>3, <1>4, <1>5, <1>6, <1>7, <1>8, <1>9, <1>10,
           <1>11, <1>12, <1>13, <1>14, <1>15, <1>16, <1>17, <1>18, <1>19,
           <1>20 DEF Work

LEMMA UserType == TypeOK /\ User => TypeOK'
<1> SUFFICES ASSUME TypeOK, User PROVE TypeOK'
  OBVIOUS
<1>t. /\ MainOK /\ ScanOK /\ WorkOK /\ PassOK /\ CtlOK /\ DiskOK
  BY DEF TypeOK
<1>1. CASE AnswerError
  <2>1. PassOK'
    BY <1>1, <1>t, WithIdlersType DEF AnswerError, PassOK
  <2>2. CtlOK'
    <3>1. errResp' \in ErrorAnswer
      BY <1>1, UserAssumption DEF AnswerError
    <3>2. asked' \in [{"error", "overwrite"} -> Nat]
      BY <1>1, <1>t DEF AnswerError, CtlOK
    <3> QED BY <1>1, <1>t, <3>1, <3>2 DEF AnswerError, CtlOK
  <2> QED BY <1>1, <2>1, <2>2, SameType DEF AnswerError, TypeOK
<1>2. CASE AnswerOverwrite
  <2>1. PassOK'
    BY <1>2, <1>t, WithIdlersType DEF AnswerOverwrite, PassOK
  <2>2. CtlOK'
    <3>1. owResp' \in OverwriteAnswer
      BY <1>2, UserAssumption DEF AnswerOverwrite
    <3>2. asked' \in [{"error", "overwrite"} -> Nat]
      BY <1>2, <1>t DEF AnswerOverwrite, CtlOK
    <3> QED BY <1>2, <1>t, <3>1, <3>2 DEF AnswerOverwrite, CtlOK
  <2> QED BY <1>2, <2>1, <2>2, SameType DEF AnswerOverwrite, TypeOK
<1>3. CASE AbortArrives
  <2>1. CtlOK'
    BY <1>3, <1>t DEF AbortArrives, CtlOK, askVars
  <2> QED BY <1>3, <2>1, SameType DEF AbortArrives, TypeOK
<1> QED BY <1>1, <1>2, <1>3 DEF User

\* Every state of an operation is well typed, whatever the tree, the arguments,
\* the failing system calls and the answers are: the queues of e_fm_op.c hold
\* tasks of the types its idlers handle, and no counter of open questions goes
\* below zero.
THEOREM TypeCorrect == Spec => []TypeOK
<1>1. TypeOK /\ [Next]_vars => TypeOK'
  <2> SUFFICES ASSUME TypeOK, [Next]_vars PROVE TypeOK'
    OBVIOUS
  <2>1. CASE Exited \/ UNCHANGED vars
    BY <2>1, SameType DEF Exited, vars, TypeOK
  <2> QED BY <2>1, MainType, ScanType, WorkType, UserType DEF Next
<1> QED BY <1>1, InitType, PTL DEF Spec

-----------------------------------------------------------------------------
Cp(n) == [act |-> "copy", node |-> n]
Rm(n) == [act |-> "remove", node |-> n]

\* The tasks of a move or a rename in the scan queue, in the two halves of the
\* work queue, and at the work idler.
MoveScan  == [act: {"move", "rename", "stat"}, node: Node]
MoveFront == [act: {"copy", "rename"}, node: Node]
MoveBack  == [act: {"remove", "stat"}, node: Node] \cup {NoTask}
MoveWork  == [act: {"copy", "rename", "remove", "stat"}, node: Node]

\* The scan tasks for n itself, not for its attributes.
ScansOf(n) == {t \in ScanTask : t.node = n /\ t.act # "stat"}

Has(q, X)  == \E i \in 1..Len(q) : q[i] \in X
Once(q, X) == \A i, j \in 1..Len(q) : q[i] \in X /\ q[j] \in X => i = j

\* The tasks for n: to be scanned, to be copied, to be removed.
Scanning(n) == Has(scanq, ScansOf(n))
Copying(n)  == Has(front, {Cp(n)})
Removing(n) == Has(back, {Rm(n)})
Touched(n)  == Scanning(n) \/ Copying(n) \/ Removing(n)

\* Only the tasks of a move or a rename are around.
ActsOK ==
  /\ type \in {"move", "rename"}
  /\ scanq \in Seq(MoveScan) /\ scur \in MoveScan \cup {NoTask}
  /\ front \in Seq(MoveFront) /\ back \in Seq(MoveBack)
  /\ wcur \in MoveWork \cup {NoTask}

\* While main() looks at the arguments nothing is scanned, and an argument has
\* no task before its turn.
TodoOK ==
  ~looping => /\ ~dir
              /\ \A i, j \in 1..Len(todo) : todo[i] = todo[j] => i = j
              /\ \A i \in 1..Len(todo) :
                   ~Touched(todo[i]) /\ Parent[todo[i]] = NoNode

\* The open directory is that of the pinned scan task, which has no error.
DirOK ==
  /\ scur # NoTask => Has(scanq, {scur})
  /\ dir => /\ scur # NoTask /\ err["scan"] = FALSE
            /\ \A n \in ents : ~Touched(n) /\ Parent[n] = scur.node

\* A node gets its task when its directory is read.
TouchedOK ==
  \A n \in Node :
    Touched(n) => \/ Parent[n] = NoNode
                  \/ Parent[n] \in listed
                  \/ dir /\ Parent[n] = scur.node

\* It gets one scan task, from that one copy, and with that one remove.
OnceOK ==
  \A n \in Node :
    /\ Once(scanq, ScansOf(n))
    /\ Scanning(n) => ~Copying(n) /\ ~Removing(n)
    /\ Once(front, {Cp(n)}) /\ Once(back, {Rm(n)})

QueuesOK == TodoOK /\ DirOK /\ TouchedOK /\ OnceOK

\* A copy that still has its link has written all that it has read.
CopyOK ==
  /\ wcur = NoTask => cur = Fresh
  /\ cur.open => ~overwrite
  /\ \A n \in Node : wcur = Cp(n) =>
       /\ Copying(n)
       /\ cur.rd <= Size[n]
       /\ n \in link => cur.rd = cur.pos

\* A remove waits for the copy it is linked to, or its target is whole.
LinkOK ==
  ~abort => \A n \in Node :
    /\ Removing(n) /\ Copying(n)  => n \in link
    /\ Removing(n) /\ ~Copying(n) => dst[n] = "new"
    /\ wcur = Rm(n)               => dst[n] = "new"

LossOK ==
  \A n \in Node \ src : dst[n] = "new" \/ \E m \in recursed : n \in Below(m)

MoveInv ==
  op \in {"move", "rename"} =>
    ActsOK /\ QueuesOK /\ CopyOK /\ LinkOK /\ LossOK

-----------------------------------------------------------------------------
(* What a queue holds after an element came or went.                       *)

LEMMA HasAppend ==
  ASSUME NEW S, NEW q \in Seq(S), NEW u, NEW X
  PROVE  /\ Has(Append(q, u), X) <=> Has(q, X) \/ u \in X
         /\ Once(q, X) /\ (Has(q, X) => u \notin X) => Once(Append(q, u), X)
<1>1. /\ Len(q) \in Nat /\ Len(Append(q, u)) = Len(q) + 1
      /\ \A i \in 1..Len(q) : Append(q, u)[i] = q[i]
      /\ Append(q, u)[Len(q) + 1] = u
  <2>1. q \in Seq(S \cup {u}) /\ u \in S \cup {u}
    BY SeqMonotonic
  <2> QED BY <2>1, AppendProperties, LenProperties
<1> QED BY <1>1 DEF Has, Once

LEMMA HasCons ==
  ASSUME NEW S, NEW q \in Seq(S), NEW u, NEW X
  PROVE  /\ Has(<<u>> \o q, X) <=> Has(q, X) \/ u \in X
         /\ Once(q, X) /\ (Has(q, X) => u \notin X) => Once(<<u>> \o q, X)
<1>1. /\ Len(q) \in Nat /\ Len(<<u>> \o q) = Len(q) + 1
      /\ \A i \in 1..Len(q) : (<<u>> \o q)[i + 1] = q[i]
      /\ (<<u>> \o q)[1] = u
  <2>1. q \in Seq(S \cup {u}) /\ <<u>> \in Seq(S \cup {u})
    BY SeqMonotonic
  <2>2. Len(<<u>>) = 1 /\ <<u>>[1] = u
    OBVIOUS
  <2>3. /\ Len(<<u>> \o q) = Len(<<u>>) + Len(q)
        /\ \A i \in 1..(Len(<<u>>) + Len(q)) : (<<u>> \o q)[i] =
              IF i <= Len(<<u>>) THEN <<u>>[i] ELSE q[i - Len(<<u>>)]
    BY <2>1, ConcatProperties
  <2>4. Len(q) \in Nat
    BY LenProperties
  <2> QED BY <2>2, <2>3, <2>4
<1> DEFINE w == <<u>> \o q
<1>2. \A i \in 1..Len(w) :
        (i = 1 /\ w[i] = u) \/ \E k \in 1..Len(q) : i = k + 1 /\ w[i] = q[k]
  <2> SUFFICES ASSUME NEW i \in 1..Len(w), i # 1
               PROVE  \E k \in 1..Len(q) : i = k + 1 /\ w[i] = q[k]
    BY <1>1
  <2>1. i - 1 \in 1..Len(q) /\ i = (i - 1) + 1
    BY <1>1
  <2>2. w[(i - 1) + 1] = q[i - 1]
    BY <1>1, <2>1
  <2> QED BY <2>1, <2>2
<1>3. 1 \in 1..Len(w) /\ \A k \in 1..Len(q) : k + 1 \in 1..Len(w)
  BY <1>1
<1> HIDE DEF w
<1>4. Has(w, X) => Has(q, X) \/ u \in X
  BY <1>2 DEF Has
<1>5. Has(q, X) \/ u \in X => Has(w, X)
  BY <1>1, <1>3 DEF Has, w
<1>6. Once(q, X) /\ (Has(q, X) => u \notin X) => Once(w, X)
  BY <1>2 DEF Has, Once
<1> QED BY <1>4, <1>5, <1>6 DEF w

LEMMA HasWithout ==
  ASSUME NEW S, NEW q \in Seq(S), NEW t, NEW X
  PROVE  /\ Has(Without(q, t), X) => Has(q, X)
         /\ Has(q, X) /\ t \notin X => Has(Without(q, t), X)
         /\ Once(q, X) => Once(Without(q, t), X)
         /\ Once(q, X) /\ t \in X => (Has(Without(q, t), X) => ~Has(q, {t}))
<1>1. CASE \E i \in 1..Len(q) : q[i] = t
  <2> DEFINE w == Without(q, t)
  <2>1. /\ Len(q) \in Nat /\ Len(w) = Len(q) - 1
        /\ \E i \in 1..Len(q) :
             /\ q[i] = t
             /\ \A k \in 1..Len(w) : w[k] = IF k < i THEN q[k] ELSE q[k + 1]
    BY <1>1, WithoutIndex, LenProperties
  <2> HIDE DEF w
  <2>2. PICK i \in 1..Len(q) :
          /\ q[i] = t
          /\ \A k \in 1..Len(w) : w[k] = IF k < i THEN q[k] ELSE q[k + 1]
    BY <2>1
  <2>3. Has(w, X) => Has(q, X)
    BY <2>1, <2>2 DEF Has
  <2>4. Has(q, X) /\ t \notin X => Has(w, X)
    <3> SUFFICES ASSUME NEW j \in 1..Len(q), q[j] \in X, t \notin X
                 PROVE  Has(w, X)
      BY DEF Has
    <3>1. j # i
      BY <2>2
    <3>2. CASE j < i
      BY <2>1, <2>2, <3>2 DEF Has
    <3>3. CASE j > i
      <4>1. j - 1 \in 1..Len(w) /\ w[j - 1] = q[(j - 1) + 1] /\ (j - 1) + 1 = j
        BY <2>1, <2>2, <3>3
      <4> QED BY <4>1 DEF Has
    <3> QED BY <2>1, <2>2, <3>1, <3>2, <3>3
  <2>5. Once(q, X) => Once(w, X)
    BY <2>1, <2>2 DEF Once
  <2>6. Once(q, X) /\ t \in X => ~Has(w, X)
    BY <2>1, <2>2 DEF Once, Has
  <2> QED BY <2>3, <2>4, <2>5, <2>6 DEF w
<1>2. CASE ~\E i \in 1..Len(q) : q[i] = t
  BY <1>2 DEF Without, Has
<1> QED BY <1>1, <1>2

\* The empty queue.
LEMMA HasEmpty ==
  ASSUME NEW X
  PROVE  ~Has(<<>>, X) /\ Once(<<>>, X)
BY DEF Has, Once

\* An element of a queue, and its head.
LEMMA HasOne ==
  ASSUME NEW S, NEW q \in Seq(S), NEW X, NEW t \in X
  PROVE  /\ Has(q, {t}) => Has(q, X)
         /\ q # <<>> => Has(q, {Head(q)})
<1>1. q # <<>> => 1 \in 1..Len(q) /\ q[1] = Head(q)
  BY LenProperties, EmptySeq
<1> QED BY <1>1 DEF Has

\* No task of one kind is a task of another kind.
LEMMA TaskKinds ==
  ASSUME NEW n, NEW m
  PROVE  /\ (Cp(n) = Cp(m) \/ Rm(n) = Rm(m)) <=> n = m
         /\ Cp(n) # Rm(m)
         /\ Cp(n).act = "copy" /\ Cp(n).node = n
         /\ Rm(n).act = "remove" /\ Rm(n).node = n
BY DEF Cp, Rm

-----------------------------------------------------------------------------
(* The queues.                                                             *)

\* Nothing is queued for the scan idler, and the work queue only loses tasks.
LEMMA QueuesKept ==
  ASSUME TypeOK, ActsOK, QueuesOK,
         UNCHANGED <<mainVars, scanq, dir, ents, listed>>,
         scur' = scur \/ scur' = ScanCurrent,
         dir => err'["scan"] = FALSE,
         \A n \in Node : /\ Copying(n)' => Copying(n)
                         /\ Removing(n)' => Removing(n)
                         /\ Once(front', {Cp(n)}) /\ Once(back', {Rm(n)})
  PROVE  QueuesOK'
<1>1. \A n \in Node : (Scanning(n)' <=> Scanning(n)) /\ (Touched(n)' => Touched(n))
  BY DEF Scanning, Touched
<1>2. todo \in Seq(Node) /\ ents \subseteq Node
  BY DEF TypeOK, MainOK, ScanOK
<1>3. \A i \in 1..Len(todo) : todo[i] \in Node
  BY <1>2, ElementOfSeq
<1>4. TodoOK'
  BY <1>1, <1>3 DEF QueuesOK, TodoOK, mainVars
<1>5. scur # NoTask => scur' = scur
  BY DEF ScanCurrent
<1>6. DirOK'
  <2>1. scur' # NoTask => Has(scanq, {scur'})
    <3>1. scanq # <<>> => Has(scanq, {Head(scanq)})
      BY HasOne DEF ActsOK
    <3> QED BY <3>1 DEF QueuesOK, DirOK, ScanCurrent
  <2> QED BY <1>1, <1>2, <1>5, <2>1 DEF QueuesOK, DirOK
<1>7. TouchedOK'
  BY <1>1, <1>5 DEF QueuesOK, TouchedOK, DirOK
<1>8. OnceOK'
  BY <1>1 DEF QueuesOK, OnceOK
<1> QED BY <1>4, <1>6, <1>7, <1>8 DEF QueuesOK

\* The current task leaves the work queue, alone or with its link task.
LEMMA QueuesDequeue ==
  ASSUME ActsOK, OnceOK, NEW t \in MoveWork, NEW q \in {back, Unlinked(t)},
         Dequeues(t, q)
  PROVE  /\ front' \in Seq(MoveFront) /\ back' \in Seq(MoveBack)
         /\ \A n \in Node :
              /\ Copying(n)' => Copying(n) /\ t # Cp(n)
              /\ Copying(n) /\ t # Cp(n) => Copying(n)'
              /\ Removing(n)' => Removing(n)
              /\ q = Unlinked(t) /\ t = Cp(n) /\ n \in link => ~Removing(n)'
              /\ Once(front', {Cp(n)}) /\ Once(back', {Rm(n)})
<1>1. front \in Seq(MoveFront) /\ back \in Seq(MoveBack)
  BY DEF ActsOK
<1>2. q \in Seq(MoveBack)
  BY <1>1, WithoutType DEF Unlinked
<1>3. \A n \in Node : /\ Has(q, {Rm(n)}) => Removing(n)
                      /\ Once(q, {Rm(n)})
                      /\ q = Unlinked(t) /\ t = Cp(n) /\ n \in link
                           => ~Has(q, {Rm(n)})
  <2> TAKE n \in Node
  <2>1. Once(back, {Rm(n)})
    BY DEF OnceOK
  <2>2. CASE q = back /\ q # Unlinked(t)
    BY <2>1, <2>2 DEF Removing
  <2>3. CASE q = Unlinked(t)
    <3>1. CASE HasLink(t)
      <4>1. q = Without(back, Rm(t.node))
        BY <2>3, <3>1 DEF Unlinked, Rm
      <4>2. Once(q, {Rm(n)}) /\ (Has(q, {Rm(n)}) => Removing(n))
        BY <1>1, <2>1, <4>1, HasWithout DEF Removing
      <4>3. ASSUME t = Cp(n) PROVE ~Has(q, {Rm(n)})
        <5>1. q = Without(back, Rm(n))
          BY <4>1, <4>3, TaskKinds
        <5> QED BY <1>1, <2>1, <5>1, <4>2, HasWithout DEF Removing
      <4> QED BY <4>2, <4>3
    <3>2. CASE ~HasLink(t)
      <4>1. q = back
        BY <2>3, <3>2 DEF Unlinked
      <4>2. t = Cp(n) => n \notin link
        BY <3>2, TaskKinds DEF HasLink
      <4> QED BY <2>1, <4>1, <4>2 DEF Removing
    <3> QED BY <3>1, <3>2
  <2> QED BY <2>2, <2>3
<1>4. front' = Without(front, t) /\ back' = Without(q, t)
  BY DEF Dequeues
<1>5. front' \in Seq(MoveFront) /\ back' \in Seq(MoveBack)
  BY <1>1, <1>2, <1>4, WithoutType
<1> SUFFICES ASSUME NEW n \in Node
             PROVE  /\ Copying(n)' => Copying(n) /\ t # Cp(n)
                    /\ Copying(n) /\ t # Cp(n) => Copying(n)'
                    /\ Removing(n)' => Removing(n)
                    /\ q = Unlinked(t) /\ t = Cp(n) /\ n \in link
                         => ~Removing(n)'
                    /\ Once(front', {Cp(n)}) /\ Once(back', {Rm(n)})
  BY <1>5
<1>6. Once(front, {Cp(n)})
  BY DEF OnceOK
<1>7. /\ Copying(n)' => Copying(n)
      /\ Copying(n) /\ t # Cp(n) => Copying(n)'
      /\ Once(front', {Cp(n)})
      /\ t = Cp(n) => ~Copying(n)'
  <2>1. /\ Has(front', {Cp(n)}) => Has(front, {Cp(n)})
        /\ Has(front, {Cp(n)}) /\ t \notin {Cp(n)} => Has(front', {Cp(n)})
        /\ Once(front', {Cp(n)})
        /\ t \in {Cp(n)} => (Has(front', {Cp(n)}) => ~Has(front, {t}))
    BY <1>1, <1>4, <1>6, HasWithout
  <2> QED BY <2>1 DEF Copying
<1>8. /\ Has(back', {Rm(n)}) => Has(q, {Rm(n)})
      /\ Once(back', {Rm(n)})
  BY <1>2, <1>3, <1>4, HasWithout
<1> QED BY <1>3, <1>7, <1>8 DEF Removing

-----------------------------------------------------------------------------
(* The initial state and main().                                           *)

LEMMA InitMove == Init => MoveInv
<1> SUFFICES ASSUME Init, op \in {"move", "rename"} PROVE MoveInv
  BY DEF MoveInv
<1>1. ActsOK
  BY EmptySeq DEF Init, ActsOK
<1>2. \A n \in Node : ~Scanning(n) /\ ~Copying(n) /\ ~Removing(n)
  BY HasEmpty DEF Init, Scanning, Copying, Removing
<1>3. TodoOK
  <2>1. \A i \in 1..Len(todo) : todo[i] \in Node /\ Parent[todo[i]] = NoNode
    BY ArgsAssumption, ElementOfSeq DEF Init
  <2>2. \A i, j \in 1..Len(todo) : todo[i] = todo[j] => i = j
    BY ArgsAssumption DEF Init
  <2> QED BY <1>2, <2>1, <2>2 DEF Init, TodoOK, Touched
<1>4. DirOK /\ TouchedOK
  BY <1>2 DEF Init, DirOK, TouchedOK, Touched
<1>5. OnceOK
  BY <1>2, HasEmpty DEF Init, OnceOK
<1>6. CopyOK
  BY NoTaskAssumption DEF Init, CopyOK, Fresh, Cp, WorkTask
<1>7. LinkOK
  BY <1>2, NoTaskAssumption DEF Init, LinkOK, Rm, WorkTask
<1>8. LossOK
  BY DEF Init, LossOK
<1> QED BY <1>1, <1>3, <1>4, <1>5, <1>6, <1>7, <1>8 DEF MoveInv, QueuesOK

\* rename() of a tree: what leaves the source is whole at the target.
LEMMA RenamedLoses ==
  ASSUME TypeOK, LossOK, NEW n, Renamed(n), recursed' = recursed
  PROVE  /\ LossOK'
         /\ \A m \in Node : dst[m] = "new" => dst'[m] = "new"
<1>1. \A m \in Node :
        dst'[m] = IF m \in Below(n) \cap src THEN "new" ELSE dst[m]
  BY DEF Renamed
<1>2. src' = src \ Below(n)
  BY DEF Renamed
<1> QED BY <1>1, <1>2 DEF LossOK

\* The copies and their links are as before, no target is undone.
LEMMA CopiesKept ==
  ASSUME CopyOK, LinkOK, UNCHANGED <<wcur, cur, link, overwrite>>,
         abort \in BOOLEAN, abort' \in BOOLEAN, abort => abort',
         \A n \in Node : /\ Copying(n)' <=> Copying(n)
                         /\ Removing(n)' <=> Removing(n)
                         /\ dst[n] = "new" => dst'[n] = "new"
  PROVE  CopyOK' /\ LinkOK'
<1>1. CopyOK'
  BY DEF CopyOK
<1>2. LinkOK'
  BY DEF LinkOK
<1> QED BY <1>1, <1>2

LEMMA MainMove == TypeOK /\ MoveInv /\ Main => MoveInv'
<1> SUFFICES ASSUME TypeOK, MoveInv, Main, op' \in {"move", "rename"}
             PROVE  MoveInv'
  BY DEF MoveInv
<1>1. op' = op
  BY DEF Main, MainLinks, MainRenames, MainGivesUp, MainQueues, MainLoops,
         argVars
<1>2. /\ ActsOK /\ QueuesOK /\ CopyOK /\ LinkOK /\ LossOK
      /\ TodoOK /\ DirOK /\ TouchedOK /\ OnceOK /\ ~looping
      /\ abort \in BOOLEAN /\ todo \in Seq(Node)
  BY <1>1 DEF MoveInv, QueuesOK, Main, MainLinks, MainRenames, MainGivesUp,
              MainQueues, MainLoops, TypeOK, CtlOK, MainOK
<1>3. CASE MainLinks
  BY <1>2, <1>3 DEF MainLinks, ActsOK
<1>4. CASE MainGivesUp \/ MainLoops
  <2>1. UNCHANGED <<type, scanVars, workVars, abort, overwrite, diskVars, histVars>>
        /\ looping'
    BY <1>4 DEF MainGivesUp, MainLoops, ctlVars
  <2>2. ActsOK'
    BY <1>2, <2>1 DEF ActsOK, scanVars, workVars
  <2>3. \A n \in Node : /\ Scanning(n)' <=> Scanning(n)
                        /\ Copying(n)' <=> Copying(n)
                        /\ Removing(n)' <=> Removing(n)
                        /\ dst'[n] = dst[n]
    BY <2>1 DEF scanVars, workVars, diskVars, Scanning, Copying, Removing
  <2>4. ~dir /\ TodoOK'
    BY <1>2, <2>1 DEF TodoOK
  <2>5. DirOK' /\ TouchedOK' /\ OnceOK'
    BY <1>2, <2>1, <2>3, <2>4
       DEF DirOK, TouchedOK, OnceOK, Touched, scanVars, workVars
  <2>6. CopyOK' /\ LinkOK'
    BY <1>2, <2>1, <2>3, CopiesKept DEF workVars
  <2>7. LossOK'
    BY <1>2, <2>1 DEF LossOK, diskVars, histVars
  <2> QED BY <2>2, <2>4, <2>5, <2>6, <2>7 DEF MoveInv, QueuesOK
<1>5. \A i \in 1..Len(Tail(todo)) :
        /\ todo # <<>>
             => i + 1 \in 1..Len(todo) /\ Tail(todo)[i] = todo[i + 1]
  BY <1>2, HeadTailProperties
<1>6. todo # <<>> => /\ 1 \in 1..Len(todo) /\ Head(todo) = todo[1]
                     /\ Head(todo) \in Node
  BY <1>2, HeadTailProperties, LenProperties, EmptySeq
<1>7. CASE MainRenames
  <2>1. UNCHANGED <<type, looping, scanVars, workVars, abort, overwrite, recursed>>
        /\ todo' = Tail(todo) /\ todo # <<>> /\ Renamed(Head(todo))
    BY <1>7 DEF MainRenames, ctlVars, histVars
  <2>2. ActsOK'
    BY <1>2, <2>1 DEF ActsOK, scanVars, workVars
  <2>3. LossOK' /\ \A m \in Node : dst[m] = "new" => dst'[m] = "new"
    BY <1>2, <2>1, RenamedLoses
  <2>4. \A n : /\ Scanning(n)' <=> Scanning(n)
               /\ Copying(n)' <=> Copying(n)
               /\ Removing(n)' <=> Removing(n)
    BY <2>1 DEF scanVars, workVars, Scanning, Copying, Removing
  <2>5. TodoOK'
    BY <1>2, <1>5, <2>1, <2>4 DEF TodoOK, Touched, scanVars
  <2>6. DirOK' /\ TouchedOK' /\ OnceOK'
    BY <1>2, <2>1, <2>4
       DEF TodoOK, DirOK, TouchedOK, OnceOK, Touched, scanVars, workVars
  <2>7. CopyOK' /\ LinkOK'
    BY <1>2, <2>1, <2>3, <2>4, CopiesKept DEF workVars
  <2> QED BY <2>2, <2>3, <2>5, <2>6, <2>7 DEF MoveInv, QueuesOK
<1>8. CASE MainQueues
  <2> DEFINE n == Head(todo)
             t == [act |-> ArgType(n), node |-> n]
  <2>1. /\ UNCHANGED <<looping, scur, dir, ents, listed, front, wcur, cur, link,
                       abort, overwrite, diskVars, histVars>>
        /\ todo # <<>> /\ todo' = Tail(todo) /\ n \in Node
        /\ scanq' = Append(scanq, t)
        /\ back' = back \/ back' = Append(back, NoTask)
        /\ type' = ArgType(n)
    BY <1>1, <1>6, <1>8 DEF MainQueues, ctlVars
  <2>2. t \in MoveScan /\ t \in ScansOf(n) /\ type' \in {"move", "rename"}
    <3>1. ArgType(n) \in {"move", "rename"}
      BY <1>2 DEF ActsOK, ArgType
    <3> QED BY <2>1, <3>1 DEF MoveScan, ScansOf, ScanTask, OpType
  <2> HIDE DEF t, n
  <2>n. \A m \in Node : NoTask \notin {Rm(m)}
    BY NoTaskAssumption DEF Rm, WorkTask
  <2>3. ActsOK'
    <3>1. scanq' \in Seq(MoveScan)
      BY <1>2, <2>1, <2>2, AppendProperties DEF ActsOK
    <3>2. back' \in Seq(MoveBack)
      <4>1. NoTask \in MoveBack /\ back \in Seq(MoveBack)
        BY <1>2 DEF MoveBack, ActsOK
      <4>2. Append(back, NoTask) \in Seq(MoveBack)
        BY <4>1, AppendProperties
      <4> QED BY <2>1, <4>1, <4>2
    <3> QED BY <1>2, <2>1, <2>2, <3>1, <3>2 DEF ActsOK
  <2>4. \A m \in Node : /\ Scanning(m)' <=> Scanning(m) \/ m = n
                        /\ Copying(m)' <=> Copying(m)
                        /\ Removing(m)' <=> Removing(m)
    <3> TAKE m \in Node
    <3>1. t \in ScansOf(m) <=> m = n
      BY <2>2 DEF ScansOf, t
    <3>2. Scanning(m)' <=> Scanning(m) \/ m = n
      BY <1>2, <2>1, <3>1, HasAppend DEF ActsOK, Scanning
    <3>3. Removing(m)' <=> Removing(m)
      <4>1. back \in Seq(MoveBack)
        BY <1>2 DEF ActsOK
      <4>2. Has(Append(back, NoTask), {Rm(m)}) <=> Has(back, {Rm(m)})
        BY <2>n, <4>1, HasAppend
      <4> QED BY <2>1, <4>2 DEF Removing
    <3> QED BY <2>1, <3>2, <3>3 DEF Copying
  <2>5. ~Touched(n) /\ Parent[n] = NoNode /\ ~dir
    BY <1>2, <1>6, <2>1 DEF TodoOK, n
  <2>6. TodoOK'
    <3>1. \A i \in 1..Len(todo') : todo'[i] \in Node /\ todo'[i] # n
      BY <1>2, <1>5, <1>6, <2>1, ElementOfSeq DEF TodoOK, n
    <3>2. \A i \in 1..Len(todo') :
            ~Touched(todo[i])' /\ Parent[todo'[i]] = NoNode
      <4> TAKE i \in 1..Len(todo')
      <4>1. i + 1 \in 1..Len(todo) /\ todo'[i] = todo[i + 1]
        BY <1>5, <2>1
      <4>2. ~Touched(todo[i + 1]) /\ Parent[todo[i + 1]] = NoNode
        BY <1>2, <4>1 DEF TodoOK
      <4>3. todo'[i] \in Node /\ todo'[i] # n
        BY <3>1
      <4>4. ~Scanning(todo[i])' /\ ~Copying(todo[i])' /\ ~Removing(todo[i])'
        BY <2>4, <4>1, <4>2, <4>3 DEF Touched
      <4> QED BY <4>1, <4>2, <4>4 DEF Touched
    <3>3. \A i, j \in 1..Len(todo') : todo'[i] = todo'[j] => i = j
      BY <1>2, <1>5, <2>1 DEF TodoOK
    <3>4. ~dir'
      BY <2>1, <2>5
    <3> QED BY <3>2, <3>3, <3>4 DEF TodoOK
  <2>7. DirOK'
    BY <1>2, <2>1, <2>5, HasAppend DEF DirOK, ActsOK
  <2>8. TouchedOK'
    BY <1>2, <2>1, <2>4, <2>5 DEF TouchedOK, Touched
  <2>9. OnceOK'
    <3> SUFFICES ASSUME NEW m \in Node
                 PROVE  /\ Once(scanq', ScansOf(m))
                        /\ Scanning(m)' => ~Copying(m)' /\ ~Removing(m)'
                        /\ Once(front', {Cp(m)}) /\ Once(back', {Rm(m)})
      BY DEF OnceOK
    <3>1. t \in ScansOf(m) <=> m = n
      BY <2>2 DEF ScansOf, t
    <3>2. Once(scanq', ScansOf(m))
      BY <1>2, <2>1, <2>5, <3>1, HasAppend
         DEF OnceOK, Touched, Scanning, ActsOK
    <3>3. Once(back', {Rm(m)})
      <4>1. back \in Seq(MoveBack) /\ Once(back, {Rm(m)})
        BY <1>2 DEF ActsOK, OnceOK
      <4>2. Once(Append(back, NoTask), {Rm(m)})
        BY <2>n, <4>1, HasAppend
      <4> QED BY <2>1, <4>1, <4>2
    <3> QED BY <1>2, <2>1, <2>4, <2>5, <3>2, <3>3 DEF OnceOK, Touched
  <2>10. CopyOK' /\ LinkOK'
    BY <1>2, <2>1, <2>4, CopiesKept DEF diskVars
  <2>11. LossOK'
    BY <1>2, <2>1 DEF LossOK, diskVars, histVars
  <2> QED BY <2>3, <2>6, <2>7, <2>8, <2>9, <2>10, <2>11 DEF MoveInv, QueuesOK
<1> QED BY <1>3, <1>4, <1>7, <1>8 DEF Main

-----------------------------------------------------------------------------
(* The scan idler.                                                         *)

\* No task comes or goes, and no file changes.
LEMMA QuietMove ==
  ASSUME TypeOK, MoveInv, op \in {"move", "rename"},
         UNCHANGED <<mainVars, scanq, dir, ents, listed, front, back, wcur, cur,
                     link, overwrite, diskVars, recursed>>,
         scur' = scur \/ scur' = ScanCurrent,
         dir => err'["scan"] = FALSE,
         abort' \in BOOLEAN, abort => abort'
  PROVE  MoveInv'
<1>1. ActsOK /\ QueuesOK /\ CopyOK /\ LinkOK /\ LossOK /\ abort \in BOOLEAN
  BY DEF MoveInv, TypeOK, CtlOK
<1>2. ActsOK'
  <2>1. ScanCurrent \in MoveScan \cup {NoTask}
    BY <1>1 DEF ActsOK, ScanCurrent
  <2> QED BY <1>1, <2>1 DEF ActsOK, mainVars
<1>3. \A n \in Node : /\ Copying(n)' <=> Copying(n)
                      /\ Removing(n)' <=> Removing(n)
                      /\ Once(front', {Cp(n)}) /\ Once(back', {Rm(n)})
  BY <1>1 DEF Copying, Removing, QueuesOK, OnceOK
<1>4. QueuesOK'
  BY <1>1, <1>3, QueuesKept
<1>5. CopyOK' /\ LinkOK'
  BY <1>1, <1>3, CopiesKept DEF diskVars
<1>6. LossOK'
  BY <1>1 DEF LossOK, diskVars
<1> QED BY <1>1, <1>2, <1>4, <1>5, <1>6 DEF MoveInv

\* The task of the scan idler is in its queue; with a directory open it is the
\* pinned one.
LEMMA ScanCurrentMove ==
  ASSUME ActsOK, QueuesOK, ScanCurrent # NoTask
  PROVE  /\ ScanCurrent \in MoveScan /\ Has(scanq, {ScanCurrent})
         /\ dir => scur = ScanCurrent
<1>1. CASE scur # NoTask
  BY <1>1 DEF ActsOK, QueuesOK, DirOK, ScanCurrent
<1>2. CASE scur = NoTask
  <2>1. scanq # <<>> /\ ScanCurrent = Head(scanq) /\ ~dir
    BY <1>2 DEF QueuesOK, DirOK, ScanCurrent
  <2>2. Head(scanq) \in MoveScan /\ Has(scanq, {Head(scanq)})
    BY <2>1, HasOne DEF ActsOK
  <2> QED BY <2>1, <2>2
<1> QED BY <1>1, <1>2

\* The copies and their links when the scan idler changes its queue only.
LEMMA WorkQueueKept ==
  ASSUME TypeOK, CopyOK, LinkOK, LossOK,
         UNCHANGED <<workVars, abort, overwrite, diskVars, histVars>>
  PROVE  CopyOK' /\ LinkOK' /\ LossOK'
<1>1. \A n \in Node : (Copying(n)' <=> Copying(n)) /\ (Removing(n)' <=> Removing(n))
  BY DEF workVars, Copying, Removing
<1>2. CopyOK' /\ LinkOK'
  BY <1>1, CopiesKept DEF workVars, diskVars, TypeOK, CtlOK
<1> QED BY <1>2 DEF LossOK, diskVars, histVars

LEMMA ScanPushesMove ==
  ASSUME TypeOK, MoveInv, op \in {"move", "rename"}, ScanPushes
  PROVE  MoveInv'
<1>1. /\ ActsOK /\ QueuesOK /\ CopyOK /\ LinkOK /\ LossOK
      /\ TodoOK /\ DirOK /\ TouchedOK /\ OnceOK
  BY DEF MoveInv, QueuesOK
<1> PICK t \in ScanTask : ScanPushes!(t)
  BY DEF ScanPushes
<1> DEFINE n == t.node
<1>2. /\ looping /\ ~dir /\ UNCHANGED <<type, looping, dir, ents, listed>>
      /\ ScanCurrent = t
  BY DEF Scans, Turn, Running, mainVars
<1>3. t \in MoveScan /\ Has(scanq, {t})
  BY <1>1, <1>2, ScanCurrentMove DEF Scans
<1>4. /\ n \in Node /\ t.act \in {"move", "rename", "stat"}
      /\ \A m \in Node : t \in ScansOf(m) <=> m = n /\ t.act # "stat"
  BY <1>3 DEF MoveScan, ScansOf
<1>5. \A m \in Node : /\ Scanning(m)' => Scanning(m)
                      /\ t \in ScansOf(m) => ~Scanning(m)' /\ Scanning(m)
                      /\ Once(scanq', ScansOf(m))
  <2> TAKE m \in Node
  <2>1. Once(scanq, ScansOf(m)) /\ scanq \in Seq(MoveScan)
    BY <1>1 DEF OnceOK, ActsOK
  <2>2. t \in ScansOf(m) => Has(scanq, ScansOf(m))
    BY <1>3, <2>1, HasOne
  <2> QED BY <1>3, <2>1, <2>2, HasWithout DEF Scanning
<1> DEFINE moves == t.act = "move"
<1>6. /\ front' \in Seq(MoveFront)
      /\ \A m \in Node : /\ Copying(m)' <=> Copying(m) \/ (moves /\ m = n)
                         /\ Once(front', {Cp(m)})
  <2>1. front \in Seq(MoveFront) /\ \A m \in Node : Once(front, {Cp(m)})
    BY <1>1 DEF ActsOK, OnceOK
  <2>2. CASE t.act = "stat"
    BY <2>1, <2>2 DEF Pushes, Copying
  <2>3. CASE t.act # "stat"
    <3> DEFINE u == [act |-> IF moves THEN "copy" ELSE "rename", node |-> n]
    <3>1. front' = <<u>> \o front
      BY <1>4, <2>3 DEF Pushes
    <3>2. u \in MoveFront
      BY <1>4 DEF MoveFront
    <3>3. \A m \in Node : u \in {Cp(m)} <=> moves /\ m = n
      BY DEF Cp
    <3> HIDE DEF u
    <3>4. front' \in Seq(MoveFront)
      BY <2>1, <3>1, <3>2
    <3>5. \A m \in Node : Has(front', {Cp(m)})
                            <=> Has(front, {Cp(m)}) \/ (moves /\ m = n)
      BY <2>1, <3>1, <3>3, HasCons
    <3>6. moves => ~Has(front, {Cp(n)})
      BY <1>1, <1>4, <1>5, <2>3 DEF OnceOK, Copying
    <3>7. \A m \in Node : Once(front', {Cp(m)})
      BY <2>1, <3>1, <3>3, <3>6, HasCons
    <3> QED BY <3>4, <3>5, <3>7 DEF Copying
  <2> QED BY <2>2, <2>3
<1>7. /\ back' \in Seq(MoveBack)
      /\ \A m \in Node : /\ Removing(m)' => Removing(m) \/ (moves /\ m = n)
                         /\ moves /\ m = n /\ Removing(m)' => m \in link'
                         /\ m \in link' => m \in link \/ (moves /\ m = n)
                         /\ m \in link => m \in link'
                         /\ Once(back', {Rm(m)})
  <2>1. back \in Seq(MoveBack) /\ \A m \in Node : Once(back, {Rm(m)})
    BY <1>1 DEF ActsOK, OnceOK
  <2>2. CASE t.act = "rename"
    BY <2>1, <2>2 DEF Pushes, Removing
  <2>3. CASE t.act = "stat"
    <3> DEFINE u == [act |-> "stat", node |-> n]
    <3>1. back' = Append(back, u) /\ link' = link
      BY <2>3 DEF Pushes
    <3>2. u \in MoveBack
      BY <1>4 DEF MoveBack
    <3>3. \A m \in Node : u \notin {Rm(m)}
      BY DEF Rm
    <3> HIDE DEF u
    <3>4. back' \in Seq(MoveBack)
      BY <2>1, <3>1, <3>2, AppendProperties
    <3>5. \A m \in Node : /\ Has(back', {Rm(m)}) <=> Has(back, {Rm(m)})
                          /\ Once(back', {Rm(m)})
      BY <2>1, <3>1, <3>3, HasAppend
    <3> QED BY <2>3, <3>1, <3>4, <3>5 DEF Removing
  <2>4. CASE t.act = "move"
    <3>1. ~Has(back, {Rm(n)})
      BY <1>1, <1>4, <1>5, <2>4 DEF OnceOK, Removing
    <3>2. LinksRemove(n)
      BY <2>4 DEF Pushes
    <3>3. CASE sep # "live"
      BY <2>1, <3>1, <3>2, <3>3 DEF LinksRemove, Removing
    <3>4. CASE sep = "live"
      <4>1. back' = <<Rm(n)>> \o back /\ link' = link \cup {n}
        BY <3>2, <3>4 DEF LinksRemove, Rm
      <4>2. Rm(n) \in MoveBack
        BY <1>4 DEF MoveBack, Rm
      <4>3. \A m \in Node : Rm(n) \in {Rm(m)} <=> m = n
        BY TaskKinds
      <4>4. back' \in Seq(MoveBack)
        BY <2>1, <4>1, <4>2
      <4>5. \A m \in Node : /\ Has(back', {Rm(m)})
                                 <=> Has(back, {Rm(m)}) \/ m = n
                            /\ Once(back', {Rm(m)})
        BY <2>1, <3>1, <4>1, <4>3, HasCons
      <4> QED BY <2>4, <4>1, <4>4, <4>5 DEF Removing
    <3> QED BY <3>3, <3>4
  <2> QED BY <1>4, <2>2, <2>3, <2>4
<1>8. ActsOK'
  BY <1>1, <1>2, <1>6, <1>7, WithoutType DEF ActsOK
<1>9. moves => Scanning(n) /\ ~Scanning(n)' /\ ~Copying(n) /\ ~Removing(n)
  BY <1>1, <1>4, <1>5 DEF OnceOK
<1> HIDE DEF n, moves
<1>10. \A m \in Node : Touched(m)' => Touched(m)
  BY <1>5, <1>6, <1>7, <1>9 DEF Touched
<1>11. TodoOK'
  BY <1>2 DEF TodoOK
<1>12. DirOK'
  BY <1>2 DEF DirOK
<1>13. TouchedOK'
  BY <1>1, <1>2, <1>10 DEF TouchedOK
<1>14. OnceOK'
  BY <1>1, <1>5, <1>6, <1>7, <1>9 DEF OnceOK
<1>15. CopyOK'
  <2>1. \A m \in Node : wcur = Cp(m) => ~(moves /\ m = n)
    BY <1>1, <1>9 DEF CopyOK
  <2> QED BY <1>1, <1>6, <1>7, <2>1 DEF CopyOK
<1>16. LinkOK'
  BY <1>1, <1>6, <1>7 DEF LinkOK, diskVars
<1>17. LossOK'
  BY <1>1 DEF LossOK, diskVars, histVars
<1> QED BY <1>8, <1>11, <1>12, <1>13, <1>14, <1>15, <1>16, <1>17
        DEF MoveInv, QueuesOK

LEMMA ScanMove ==
  ASSUME TypeOK, MoveInv, op \in {"move", "rename"}, Scan
  PROVE  MoveInv'
<1>1. /\ ActsOK /\ QueuesOK /\ CopyOK /\ LinkOK /\ LossOK
      /\ TodoOK /\ DirOK /\ TouchedOK /\ OnceOK /\ abort \in BOOLEAN
      /\ ents \subseteq Node /\ err \in [Idler -> BOOLEAN] /\ "scan" \in Idler
  BY DEF MoveInv, QueuesOK, TypeOK, CtlOK, ScanOK, Idler
<1>2. CASE ScanEmpty
  BY <1>1, <1>2, QuietMove DEF ScanEmpty, workVars, scanVars, ctlVars, histVars, DirOK
<1>3. CASE ScanSleeps
  BY <1>1, <1>3, QuietMove DEF ScanSleeps, workVars, ctlVars, histVars, DirOK
<1>4. CASE ScanHeld
  BY <1>1, <1>4, QuietMove DEF ScanHeld, workVars, ctlVars, histVars, DirOK
<1>5. CASE ScanAborts
  <2>1. dir => err'["scan"] = FALSE
    BY <1>1, <1>5 DEF ScanAborts, DirOK
  <2> QED BY <1>1, <1>5, <2>1, QuietMove DEF ScanAborts, workVars, histVars
<1>6. CASE ScanFails
  BY <1>1, <1>6, QuietMove DEF ScanFails, Scans, workVars, histVars
<1>7. CASE ScanGivesUp
  <2> DEFINE t == ScanCurrent
  <2>1. /\ UNCHANGED <<mainVars, workVars, dir, ents, listed, abort, overwrite,
                       diskVars, recursed>>
        /\ scanq' = Without(scanq, t) /\ scur' = NoTask
        /\ looping /\ ~dir
    BY <1>1, <1>7 DEF ScanGivesUp, GivesUp, Turn, Running, DirOK
  <2> HIDE DEF t
  <2>2. \A m \in Node : /\ Scanning(m)' => Scanning(m)
                        /\ Once(scanq', ScansOf(m))
                        /\ Copying(m)' <=> Copying(m)
                        /\ Removing(m)' <=> Removing(m)
    BY <1>1, <2>1, HasWithout
       DEF ActsOK, OnceOK, Scanning, Copying, Removing, workVars
  <2>3. ActsOK'
    BY <1>1, <2>1, WithoutType DEF ActsOK, mainVars, workVars
  <2>4. TodoOK' /\ DirOK'
    BY <2>1 DEF TodoOK, DirOK, mainVars
  <2>5. TouchedOK'
    BY <1>1, <2>1, <2>2 DEF TouchedOK, Touched
  <2>6. OnceOK'
    BY <1>1, <2>1, <2>2 DEF OnceOK, workVars
  <2>7. CopyOK' /\ LinkOK'
    BY <1>1, <2>1, <2>2, CopiesKept DEF workVars, diskVars
  <2>8. LossOK'
    BY <1>1, <2>1 DEF LossOK, diskVars
  <2> QED BY <2>3, <2>4, <2>5, <2>6, <2>7, <2>8 DEF MoveInv, QueuesOK
<1>8. CASE ScanOpens
  <2> PICK t \in ScanTask : ScanOpens!(t)
    BY <1>8 DEF ScanOpens
  <2>1. /\ looping /\ ScanCurrent = t /\ t # NoTask /\ t.node \in Node
        /\ scanq' = scanq /\ listed' = listed /\ dir' /\ ents' = Children(t.node) \cap src
        /\ scur' = t /\ ~dir /\ UNCHANGED <<looping, type, workVars>>
    BY DEF Scans, Turn, Running, ScanTask, mainVars
  <2>2. t \in MoveScan /\ Has(scanq, {t})
    BY <1>1, <2>1, ScanCurrentMove
  <2>3. err'["scan"] = FALSE
    BY <1>1 DEF Cleared, Marks
  <2>4. \A m \in Node : /\ Scanning(m)' <=> Scanning(m)
                        /\ Touched(m)' <=> Touched(m)
                        /\ Copying(m)' <=> Copying(m)
                        /\ Removing(m)' <=> Removing(m)
    BY <2>1 DEF Touched, Scanning, Copying, Removing, workVars
  <2>5. ActsOK'
    BY <1>1, <2>1, <2>2 DEF ActsOK, workVars
  <2>6. TodoOK'
    BY <2>1 DEF TodoOK
  <2>7. DirOK'
    <3>1. ASSUME NEW m \in ents' PROVE ~Touched(m)' /\ Parent[m] = scur'.node
      <4>1. m \in Node /\ Parent[m] = t.node
        BY <2>1, <3>1 DEF Children
      <4>2. Parent[m] # NoNode /\ Parent[m] \notin listed
        BY <2>1, <4>1, TreeAssumption
      <4>3. ~Touched(m)
        BY <1>1, <2>1, <4>1, <4>2 DEF TouchedOK
      <4> QED BY <2>1, <2>4, <4>1, <4>3
    <3> QED BY <2>1, <2>2, <2>3, <3>1 DEF DirOK
  <2>8. TouchedOK'
    BY <1>1, <2>1, <2>4 DEF TouchedOK
  <2>9. OnceOK'
    BY <1>1, <2>1, <2>4 DEF OnceOK, workVars
  <2>10. CopyOK' /\ LinkOK' /\ LossOK'
    BY <1>1, WorkQueueKept
  <2> QED BY <2>5, <2>6, <2>7, <2>8, <2>9, <2>10 DEF MoveInv, QueuesOK
<1>9. CASE ScanChild
  <2> PICK t \in ScanTask, c \in ents : ScanChild!(t, c)
    BY <1>9 DEF ScanChild
  <2> DEFINE u == [act |-> t.act, node |-> c]
  <2>1. /\ looping /\ ScanCurrent = t /\ t # NoTask /\ t.act # "stat"
        /\ listed' = listed /\ dir /\ dir' = dir /\ ents' = ents \ {c}
        /\ scur' = t /\ UNCHANGED <<looping, type, workVars>>
        /\ scanq' = Queued(u, t.act)
    BY DEF Scans, Turn, Running, ScanTask, mainVars
  <2>2. t \in MoveScan /\ Has(scanq, {t}) /\ scur = t
    BY <1>1, <2>1, ScanCurrentMove
  <2>3. err'["scan"] = FALSE
    BY <1>1 DEF Cleared, Marks
  <2>4. /\ scanq' = Append(scanq, u) /\ u \in MoveScan /\ scanq \in Seq(MoveScan)
        /\ c \in Node /\ \A m \in Node : u \in ScansOf(m) <=> m = c
    BY <1>1, <2>1, <2>2
       DEF Queued, MoveScan, ActsOK, ScansOf, ScanTask, OpType
  <2> HIDE DEF u
  <2>h. /\ Append(scanq, u) \in Seq(MoveScan)
        /\ \A X : /\ Has(Append(scanq, u), X) <=> Has(scanq, X) \/ u \in X
                  /\ Once(scanq, X) /\ (Has(scanq, X) => u \notin X)
                       => Once(Append(scanq, u), X)
    <3>1. u \in MoveScan /\ scanq \in Seq(MoveScan)
      BY <2>4
    <3> QED BY <3>1, HasAppend, AppendProperties
  <2>5. ~Touched(c) /\ Parent[c] = t.node
    BY <1>1, <2>1, <2>2 DEF DirOK
  <2>6. \A m \in Node : /\ Scanning(m)' <=> Scanning(m) \/ m = c
                        /\ Touched(m)' <=> Touched(m) \/ m = c
                        /\ Copying(m)' <=> Copying(m)
                        /\ Removing(m)' <=> Removing(m)
    <3> TAKE m \in Node
    <3>1. Scanning(m)' <=> Scanning(m) \/ m = c
      BY <2>4, <2>h DEF Scanning
    <3>2. (Copying(m)' <=> Copying(m)) /\ (Removing(m)' <=> Removing(m))
      BY <2>1 DEF Copying, Removing, workVars
    <3> QED BY <3>1, <3>2 DEF Touched
  <2>7. ActsOK'
    BY <1>1, <2>1, <2>2, <2>4, <2>h DEF ActsOK, workVars
  <2>8. TodoOK'
    BY <2>1 DEF TodoOK
  <2>9. DirOK'
    <3>1. Has(scanq', {t})
      BY <2>2, <2>4, <2>h
    <3>2. \A m \in ents' : ~Touched(m)' /\ Parent[m] = t.node
      BY <1>1, <2>1, <2>2, <2>6 DEF DirOK
    <3> QED BY <2>1, <2>3, <3>1, <3>2 DEF DirOK
  <2>10. TouchedOK'
    BY <1>1, <2>1, <2>2, <2>5, <2>6 DEF TouchedOK
  <2>11. OnceOK'
    <3> SUFFICES ASSUME NEW m \in Node
                 PROVE  /\ Once(scanq', ScansOf(m))
                        /\ Scanning(m)' => ~Copying(m)' /\ ~Removing(m)'
                        /\ Once(front', {Cp(m)}) /\ Once(back', {Rm(m)})
      BY DEF OnceOK
    <3>1. Once(scanq, ScansOf(m)) /\ (m = c => ~Scanning(m))
      BY <1>1, <2>5 DEF OnceOK, Touched
    <3>2. Once(scanq', ScansOf(m))
      BY <2>4, <2>h, <3>1 DEF Scanning
    <3> QED BY <1>1, <2>1, <2>5, <2>6, <3>2 DEF OnceOK, Touched, workVars
  <2>12. CopyOK' /\ LinkOK' /\ LossOK'
    BY <1>1, WorkQueueKept
  <2> QED BY <2>7, <2>8, <2>9, <2>10, <2>11, <2>12 DEF MoveInv, QueuesOK
<1>10. CASE ScanDirRead
  <2> PICK t \in ScanTask : ScanDirRead!(t)
    BY <1>10 DEF ScanDirRead
  <2> DEFINE u == [act |-> "stat", node |-> t.node]
  <2>1. /\ looping /\ ScanCurrent = t /\ t # NoTask /\ t.act # "stat"
        /\ listed' = listed \cup {t.node} /\ dir /\ ~dir'
        /\ scur' = NoTask /\ UNCHANGED <<looping, type, workVars>>
        /\ scanq' = Queued(u, t.act)
    BY DEF Scans, Turn, Running, mainVars
  <2>2. t \in MoveScan /\ scur = t
    BY <1>1, <2>1, ScanCurrentMove
  <2>3. /\ scanq' = Append(scanq, u) /\ u \in MoveScan /\ scanq \in Seq(MoveScan)
        /\ \A m \in Node : u \notin ScansOf(m)
    BY <1>1, <2>1, <2>2 DEF Queued, MoveScan, ActsOK, ScansOf
  <2> HIDE DEF u
  <2>h. /\ Append(scanq, u) \in Seq(MoveScan)
        /\ \A X : /\ Has(Append(scanq, u), X) <=> Has(scanq, X) \/ u \in X
                  /\ Once(scanq, X) /\ (Has(scanq, X) => u \notin X)
                       => Once(Append(scanq, u), X)
    <3>1. u \in MoveScan /\ scanq \in Seq(MoveScan)
      BY <2>3
    <3> QED BY <3>1, HasAppend, AppendProperties
  <2>4. \A m \in Node : /\ Scanning(m)' <=> Scanning(m)
                        /\ Touched(m)' <=> Touched(m)
                        /\ Copying(m)' <=> Copying(m)
                        /\ Removing(m)' <=> Removing(m)
                        /\ Once(scanq', ScansOf(m))
    <3> TAKE m \in Node
    <3>1. Once(scanq, ScansOf(m))
      BY <1>1 DEF OnceOK
    <3>2. (Scanning(m)' <=> Scanning(m)) /\ Once(scanq', ScansOf(m))
      BY <2>3, <2>h, <3>1 DEF Scanning
    <3>3. (Copying(m)' <=> Copying(m)) /\ (Removing(m)' <=> Removing(m))
      BY <2>1 DEF Copying, Removing, workVars
    <3> QED BY <3>2, <3>3 DEF Touched
  <2>5. ActsOK'
    BY <1>1, <2>1, <2>3, <2>h DEF ActsOK, workVars
  <2>6. TodoOK' /\ DirOK'
    BY <2>1 DEF TodoOK, DirOK
  <2>7. TouchedOK'
    BY <1>1, <2>1, <2>2, <2>4 DEF TouchedOK
  <2>8. OnceOK'
    BY <1>1, <2>1, <2>4 DEF OnceOK, workVars
  <2>9. CopyOK' /\ LinkOK' /\ LossOK'
    BY <1>1, WorkQueueKept
  <2> QED BY <2>5, <2>6, <2>7, <2>8, <2>9 DEF MoveInv, QueuesOK
<1>11. CASE ScanPushes
  BY <1>11, ScanPushesMove
<1> QED BY <1>2, <1>3, <1>4, <1>5, <1>6, <1>7, <1>8, <1>9, <1>10, <1>11
        DEF Scan

-----------------------------------------------------------------------------
(* The work idler.                                                         *)

\* What is known of the task of the work idler, pinned or at the head.
LEMMA WorkCurrentMove ==
  ASSUME ActsOK, CopyOK, LinkOK, WorkCurrent # NoTask
  PROVE  /\ WorkCurrent \in MoveWork
         /\ \A n \in Node : WorkCurrent = Cp(n) =>
              /\ Copying(n) /\ cur.rd <= Size[n]
              /\ n \in link => cur.rd = cur.pos
         /\ \A n \in Node : WorkCurrent = Rm(n) /\ ~abort => dst[n] = "new"
<1>1. /\ front \in Seq(MoveFront) /\ back \in Seq(MoveBack)
      /\ wcur \in MoveWork \cup {NoTask}
      /\ \A n \in Node : Size[n] \in Nat
  BY TreeAssumption DEF ActsOK
<1>2. CASE wcur # NoTask
  BY <1>1, <1>2 DEF WorkCurrent, CopyOK, LinkOK
<1>3. CASE wcur = NoTask /\ front # <<>>
  <2>1. /\ WorkCurrent = Head(front) /\ Head(front) \in MoveFront
        /\ Has(front, {Head(front)}) /\ cur = Fresh
    BY <1>1, <1>3, HasOne DEF WorkCurrent, WorkHead, CopyOK
  <2>2. WorkCurrent \in MoveWork /\ WorkCurrent.act # "remove"
    BY <2>1 DEF MoveFront, MoveWork
  <2>3. \A n \in Node : WorkCurrent = Cp(n) => Copying(n)
    BY <2>1 DEF Copying
  <2> QED BY <1>1, <2>1, <2>2, <2>3, TaskKinds DEF Fresh
<1>4. CASE wcur = NoTask /\ front = <<>>
  <2>1. /\ WorkCurrent = Head(back) /\ Head(back) \in MoveBack
        /\ Has(back, {Head(back)})
    BY <1>1, <1>4, HasOne DEF WorkCurrent, WorkHead
  <2>2. WorkCurrent \in MoveWork /\ WorkCurrent.act # "copy"
    BY <2>1 DEF MoveBack, MoveWork
  <2>3. \A n \in Node : ~Copying(n)
    BY <1>4, HasEmpty DEF Copying
  <2>4. \A n \in Node : WorkCurrent = Rm(n) => Removing(n)
    BY <2>1 DEF Removing
  <2> QED BY <2>2, <2>3, <2>4, TaskKinds DEF LinkOK
<1> QED BY <1>2, <1>3, <1>4

\* The work idler never sets the mark of the scan idler.
LEMMA ScanMarkKept ==
  ASSUME TypeOK, DirOK,
         \/ Cleared("work") \/ \E k : SendsError("work", k)
         \/ err' = [err EXCEPT !["work"] = FALSE]
         \/ err' = err \/ err' = [i \in Idler |-> FALSE]
  PROVE  dir => err'["scan"] = FALSE
<1> SUFFICES ASSUME dir PROVE err'["scan"] = FALSE
  OBVIOUS
<1>1. /\ err \in [Idler -> BOOLEAN] /\ "scan" \in Idler /\ "work" \in Idler
      /\ err["scan"] = FALSE
  BY DEF TypeOK, CtlOK, DirOK, Idler
<1>2. /\ Marks("work") \in [Idler -> BOOLEAN]
      /\ Marks("work")["scan"] = FALSE
  BY <1>1 DEF Marks
<1>3. CASE Cleared("work")
  BY <1>2, <1>3 DEF Cleared
<1>4. CASE \E k : SendsError("work", k)
  <2>1. err' = [Marks("work") EXCEPT !["work"] = TRUE]
    BY <1>4 DEF SendsError
  <2> QED BY <1>1, <1>2, <2>1
<1>5. CASE \/ err' = [err EXCEPT !["work"] = FALSE]
           \/ err' = err \/ err' = [i \in Idler |-> FALSE]
  BY <1>1, <1>5
<1> QED BY <1>3, <1>4, <1>5

\* The current task leaves the queue.  If it is a copy that still has its link,
\* then its target is whole, or the link task leaves with it.
LEMMA DequeuesMove ==
  ASSUME TypeOK, MoveInv, op \in {"move", "rename"},
         NEW t, t = WorkCurrent, t # NoTask,
         NEW q \in {back, Unlinked(t)}, Dequeues(t, q),
         UNCHANGED <<mainVars, scanVars>>, dir => err'["scan"] = FALSE,
         abort' \in BOOLEAN, abort => abort', LossOK',
         \A n \in Node : ~abort' =>
           /\ dst[n] = "new" => dst'[n] = "new"
           /\ t = Cp(n) /\ n \in link => q = Unlinked(t) \/ dst'[n] = "new"
  PROVE  MoveInv'
<1>1. /\ ActsOK /\ QueuesOK /\ CopyOK /\ LinkOK /\ OnceOK /\ abort \in BOOLEAN
      /\ t \in MoveWork
  BY WorkCurrentMove DEF MoveInv, QueuesOK, TypeOK, CtlOK
<1>2. /\ front' \in Seq(MoveFront) /\ back' \in Seq(MoveBack)
      /\ \A n \in Node :
           /\ Copying(n)' => Copying(n) /\ t # Cp(n)
           /\ Copying(n) /\ t # Cp(n) => Copying(n)'
           /\ Removing(n)' => Removing(n)
           /\ q = Unlinked(t) /\ t = Cp(n) /\ n \in link => ~Removing(n)'
           /\ Once(front', {Cp(n)}) /\ Once(back', {Rm(n)})
  BY <1>1, QueuesDequeue
<1>3. ActsOK'
  BY <1>1, <1>2 DEF ActsOK, Dequeues, mainVars, scanVars
<1>4. QueuesOK'
  BY <1>1, <1>2, QueuesKept DEF scanVars
<1>5. \A n \in Node : NoTask # Cp(n) /\ NoTask # Rm(n)
  BY NoTaskAssumption DEF Cp, Rm, WorkTask
<1>6. CopyOK'
  BY <1>5 DEF CopyOK, Dequeues, Fresh
<1>7. LinkOK'
  <2> SUFFICES ASSUME ~abort', NEW n \in Node
               PROVE  /\ Removing(n)' /\ Copying(n)'  => n \in link'
                      /\ Removing(n)' /\ ~Copying(n)' => dst'[n] = "new"
                      /\ wcur' # Rm(n)
    BY DEF LinkOK
  <2>1. /\ Removing(n) /\ Copying(n)  => n \in link
        /\ Removing(n) /\ ~Copying(n) => dst[n] = "new"
    BY <1>1 DEF LinkOK
  <2>2. t # Cp(n) /\ n \in link => n \in link'
    BY <1>1 DEF Dequeues, Links, HasLink, MoveWork, Cp
  <2>3. wcur' # Rm(n)
    BY <1>5 DEF Dequeues
  <2> QED BY <1>2, <2>1, <2>2, <2>3
<1> QED BY <1>3, <1>4, <1>6, <1>7 DEF MoveInv

\* The current task stays, with or without its link.
LEMMA StaysMove ==
  ASSUME TypeOK, MoveInv, op \in {"move", "rename"},
         NEW t, t = WorkCurrent, t # NoTask, wcur' = t, front' = front,
         \/ UNCHANGED <<back, link>>
         \/ back' = Unlinked(t) /\ link' = Links(t),
         UNCHANGED <<mainVars, scanVars>>, dir => err'["scan"] = FALSE,
         abort' \in BOOLEAN, abort => abort', LossOK',
         cur'.open => ~overwrite',
         \A n \in Node :
           /\ t = Cp(n) => /\ cur'.rd <= Size[n]
                           /\ n \in link' => cur'.rd = cur'.pos
           /\ dst[n] = "new" => dst'[n] = "new" \/ t = Cp(n)
  PROVE  MoveInv'
<1>1. /\ ActsOK /\ QueuesOK /\ CopyOK /\ LinkOK /\ OnceOK /\ abort \in BOOLEAN
      /\ t \in MoveWork /\ back \in Seq(MoveBack)
      /\ \A n \in Node : t = Cp(n) => Copying(n)
      /\ \A n \in Node : t = Rm(n) /\ ~abort => dst[n] = "new"
  BY WorkCurrentMove DEF MoveInv, QueuesOK, TypeOK, CtlOK, ActsOK
<1>2. \A n \in Node : Copying(n)' <=> Copying(n)
  BY DEF Copying
<1>3. /\ back' \in Seq(MoveBack)
      /\ \A n \in Node :
           /\ Removing(n)' => Removing(n)
           /\ n \in link => n \in link' \/ (t = Cp(n) /\ ~Removing(n)')
           /\ Once(back', {Rm(n)})
  <2>1. \A n \in Node : Once(back, {Rm(n)})
    BY <1>1 DEF OnceOK
  <2>2. CASE UNCHANGED <<back, link>>
    BY <1>1, <2>1, <2>2 DEF Removing
  <2>3. CASE back' = Unlinked(t) /\ link' = Links(t) /\ ~HasLink(t)
    BY <1>1, <2>1, <2>3 DEF Removing, Unlinked, Links
  <2>4. CASE back' = Unlinked(t) /\ link' = Links(t) /\ HasLink(t)
    <3>1. back' = Without(back, Rm(t.node)) /\ link' = link \ {t.node}
      BY <2>4 DEF Unlinked, Links, Rm
    <3>2. t = Cp(t.node)
      BY <1>1, <2>4 DEF HasLink, MoveWork, Cp
    <3>3. back' \in Seq(MoveBack)
      BY <1>1, <3>1, WithoutType
    <3>4. \A n \in Node : /\ Has(back', {Rm(n)}) => Has(back, {Rm(n)})
                          /\ Once(back', {Rm(n)})
      BY <1>1, <2>1, <3>1, HasWithout
    <3>5. \A n \in Node : n = t.node => ~Has(back', {Rm(n)})
      BY <1>1, <2>1, <3>1, <3>4, HasWithout
    <3> QED BY <3>1, <3>2, <3>3, <3>4, <3>5 DEF Removing
  <2> QED BY <2>2, <2>3, <2>4
<1>4. ActsOK'
  BY <1>1, <1>3 DEF ActsOK, mainVars, scanVars
<1>5. QueuesOK'
  <2>1. \A n \in Node : Once(front', {Cp(n)})
    BY <1>1 DEF OnceOK
  <2> QED BY <1>1, <1>2, <1>3, <2>1, QueuesKept DEF scanVars
<1>6. CopyOK'
  BY <1>1, <1>2 DEF CopyOK
<1>7. LinkOK'
  <2> SUFFICES ASSUME ~abort', NEW n \in Node
               PROVE  /\ Removing(n)' /\ Copying(n)'  => n \in link'
                      /\ Removing(n)' /\ ~Copying(n)' => dst'[n] = "new"
                      /\ wcur' = Rm(n)                => dst'[n] = "new"
    BY DEF LinkOK
  <2>1. /\ Removing(n) /\ Copying(n)  => n \in link
        /\ Removing(n) /\ ~Copying(n) => dst[n] = "new"
    BY <1>1 DEF LinkOK
  <2>2. t = Rm(n) => dst[n] = "new" /\ t # Cp(n)
    BY <1>1, TaskKinds
  <2> QED BY <1>1, <1>2, <1>3, <2>1, <2>2
<1> QED BY <1>4, <1>5, <1>6, <1>7 DEF MoveInv

LEMMA WorkMove ==
  ASSUME "flush" \notin Faulty, TypeOK, MoveInv, op \in {"move", "rename"}, Work
  PROVE  MoveInv'
<1>1. /\ ActsOK /\ CopyOK /\ LinkOK /\ LossOK /\ DirOK /\ abort \in BOOLEAN
      /\ dst \in [Node -> {"absent", "old", "part", "new"}]
      /\ cur.rd \in Nat /\ cur.pos \in Nat /\ \A n \in Node : Size[n] \in Nat
  BY TreeAssumption DEF MoveInv, QueuesOK, TypeOK, CtlOK, DiskOK, WorkOK
<1> DEFINE w == WorkCurrent
<1>2. w # NoTask =>
        /\ w \in MoveWork
        /\ \A n \in Node : w = Cp(n) =>
             /\ Copying(n) /\ cur.rd <= Size[n]
             /\ n \in link => cur.rd = cur.pos
        /\ \A n \in Node : w = Rm(n) /\ ~abort => dst[n] = "new"
  BY <1>1, WorkCurrentMove
<1>3. UNCHANGED <<src, dst, recursed>> => LossOK'
  BY <1>1 DEF LossOK
<1>4. cur.open => ~overwrite
  BY <1>1 DEF CopyOK
\* What an atom leaves alone.
<1>5. ASSUME NEW t \in WorkTask, NEW k, Works(t, k)
      PROVE  /\ t = w /\ t # NoTask /\ t.act = k /\ t \in MoveWork
             /\ t.node \in Node
             /\ UNCHANGED <<mainVars, scanVars>>
             /\ ~abort /\ abort' \in BOOLEAN /\ (abort => abort')
             /\ k = "copy" => t = Cp(t.node)
             /\ k = "remove" => t = Rm(t.node)
  <2>1. t = w /\ t # NoTask /\ t.act = k /\ UNCHANGED <<mainVars, scanVars>>
        /\ ~abort /\ abort' = abort
    BY <1>5 DEF Works
  <2>2. t \in MoveWork /\ t.node \in Node
    BY <1>2, <2>1 DEF WorkTask
  <2> QED BY <1>1, <2>1, <2>2 DEF MoveWork, Cp, Rm
<1> HIDE DEF w
<1>6. ASSUME Cleared("work") \/ \E k : SendsError("work", k)
      PROVE  dir => err'["scan"] = FALSE
  BY <1>1, <1>6, ScanMarkKept
<1>7. CASE WorkDropsSeparator
  BY <1>1, <1>7, QuietMove DEF WorkDropsSeparator, scanVars, ctlVars, histVars, DirOK
<1>8. CASE WorkFindsNothing
  BY <1>1, <1>8, QuietMove DEF WorkFindsNothing, scanVars, workVars, ctlVars,
                               histVars, DirOK
<1>9. CASE WorkSleeps \/ WorkHeld
  <2>1. /\ w # NoTask /\ wcur' = w /\ UNCHANGED <<mainVars, scanVars, front, back,
                                                 cur, link, abort, err, overwrite>>
        /\ UNCHANGED <<src, dst, recursed>>
    BY <1>9 DEF WorkSleeps, WorkHeld, ctlVars, diskVars, histVars, w
  <2>2. dir => err'["scan"] = FALSE
    BY <1>1, <2>1 DEF DirOK
  <2>3. LossOK'
    BY <1>3, <2>1
  <2> QED BY <1>1, <1>2, <1>4, <2>1, <2>2, <2>3, StaysMove DEF w
<1>10. CASE WorkGivesUp
  <2>1. /\ w # NoTask /\ Dequeues(w, Unlinked(w))
        /\ UNCHANGED <<mainVars, scanVars, abort, src, dst, recursed>>
    BY <1>10 DEF WorkGivesUp, diskVars, w
  <2>2. dir => err'["scan"] = FALSE
    BY <1>1, <1>10, ScanMarkKept DEF WorkGivesUp
  <2> QED BY <1>1, <1>3, <2>1, <2>2, DequeuesMove DEF w
<1>11. CASE WorkAborts
  <2>1. /\ w # NoTask /\ abort' = TRUE
        /\ UNCHANGED <<mainVars, scanVars, overwrite, src, dst, recursed>>
    BY <1>11 DEF WorkAborts, diskVars, histVars, w
  <2>2. dir => err'["scan"] = FALSE
    BY <1>1, <1>11, ScanMarkKept DEF WorkAborts
  <2>3. LossOK'
    BY <1>3, <2>1
  <2>4. CASE w.act \in {"copy", "destroy", "stat"}
    <3>1. Dequeues(w, back)
      BY <1>11, <2>4 DEF WorkAborts, Finishes, w
    <3> QED BY <1>1, <2>1, <2>2, <2>3, <3>1, DequeuesMove DEF w
  <2>5. CASE w.act \notin {"copy", "destroy", "stat"}
    <3>1. wcur' = w /\ UNCHANGED <<front, back, link, cur>>
      BY <1>11, <2>5 DEF WorkAborts, Stays, w
    <3>2. \A n \in Node : w # Cp(n)
      BY <2>5, TaskKinds
    <3> QED BY <1>1, <1>4, <2>1, <2>2, <2>3, <3>1, <3>2, StaysMove DEF w
  <2> QED BY <2>4, <2>5
<1>12. CASE WorkAsks
  <2> PICK t \in WorkTask : WorkAsks!(t)
    BY <1>12 DEF WorkAsks
  <2>1. wcur' = t /\ UNCHANGED <<front, back, link, src, dst, recursed>>
        /\ cur' = [cur EXCEPT !.ovr = TaskOverwrite] /\ ~cur.open
    BY DEF Stays, diskVars, histVars
  <2>2. cur'.open = cur.open /\ cur'.rd = cur.rd /\ cur'.pos = cur.pos
    BY <2>1 DEF TypeOK, WorkOK
  <2>3. LossOK' /\ (dir => err'["scan"] = FALSE)
    BY <1>3, <1>6, <2>1
  <2> QED BY <1>2, <1>5, <2>1, <2>2, <2>3, StaysMove DEF w
<1>13. CASE WorkDeclines
  <2> PICK t \in WorkTask : WorkDeclines!(t)
    BY <1>13 DEF WorkDeclines
  <2>1. UNCHANGED <<src, dst, recursed>>
    BY DEF diskVars
  <2>2. LossOK' /\ (dir => err'["scan"] = FALSE)
    BY <1>3, <1>6, <2>1
  <2> QED BY <1>5, <2>1, <2>2, DequeuesMove DEF w
<1>14. CASE WorkCopiesAtOnce
  <2> PICK t \in WorkTask : WorkCopiesAtOnce!(t)
    BY <1>14 DEF WorkCopiesAtOnce
  <2>1. /\ dst' = [dst EXCEPT ![t.node] = "new"]
        /\ UNCHANGED <<src, recursed>>
    BY DEF histVars
  <2>2. \A n \in Node : dst'[n] = IF n = t.node THEN "new" ELSE dst[n]
    BY <1>1, <2>1
  <2>3. LossOK' /\ (dir => err'["scan"] = FALSE)
    BY <1>1, <1>6, <2>1, <2>2 DEF LossOK
  <2>4. \A n \in Node : t = Cp(n) => dst'[n] = "new"
    BY <2>2, TaskKinds
  <2>5. /\ t = w /\ t # NoTask /\ Dequeues(t, back)
        /\ UNCHANGED <<mainVars, scanVars>>
        /\ abort' \in BOOLEAN /\ (abort => abort')
    BY <1>5 DEF Finishes
  <2>6. \A n \in Node : ~abort' =>
          /\ dst[n] = "new" => dst'[n] = "new"
          /\ t = Cp(n) /\ n \in link => back = Unlinked(t) \/ dst'[n] = "new"
    BY <2>2, <2>4
  <2> QED BY <2>3, <2>5, <2>6, DequeuesMove DEF w
<1>15. CASE WorkOpens
  <2> PICK t \in WorkTask : WorkOpens!(t)
    BY <1>15 DEF WorkOpens
  <2>1. /\ wcur' = t /\ UNCHANGED <<front, back, link, src, recursed>>
        /\ dst' = [dst EXCEPT ![t.node] = "part"] /\ t.node \in src
        /\ ~overwrite' /\ t = Cp(t.node)
    BY <1>5 DEF Stays, histVars, MayWrite, Consumed
  <2>2. cur'.rd = cur.rd /\ cur'.pos = cur.pos
    BY DEF TypeOK, WorkOK
  <2>3. \A n \in Node : dst'[n] = IF n = t.node THEN "part" ELSE dst[n]
    BY <1>1, <2>1
  <2>4. LossOK' /\ (dir => err'["scan"] = FALSE)
    BY <1>1, <1>6, <2>1, <2>3 DEF LossOK
  <2> QED BY <1>2, <1>5, <2>1, <2>2, <2>3, <2>4, StaysMove DEF w
<1>16. CASE WorkCopiesNothing
  <2> PICK t \in WorkTask : WorkCopiesNothing!(t)
    BY <1>16 DEF WorkCopiesNothing
  <2>1. wcur' = t /\ UNCHANGED <<front, back, link, src, dst, recursed>>
    BY DEF Stays, diskVars, histVars
  <2>2. cur'.open = cur.open /\ cur'.rd = cur.rd /\ cur'.pos = cur.pos
    BY DEF TypeOK, WorkOK
  <2>3. LossOK' /\ (dir => err'["scan"] = FALSE)
    BY <1>3, <1>6, <2>1
  <2> QED BY <1>2, <1>5, <2>1, <2>2, <2>3, StaysMove DEF w
<1>17. CASE WorkCopiesChunk
  <2> PICK t \in WorkTask : WorkCopiesChunk!(t)
    BY <1>17 DEF WorkCopiesChunk
  <2>1. /\ wcur' = t /\ UNCHANGED <<front, back, link, src, dst, recursed>>
        /\ ~overwrite' /\ t = Cp(t.node) /\ cur.rd < Size[t.node]
    BY <1>1, <1>4, <1>5 DEF Stays, diskVars, histVars, AtEof
  <2>2. cur'.rd = cur.rd + 1 /\ cur'.pos = cur.pos + 1
    BY DEF TypeOK, WorkOK
  <2>3. LossOK' /\ (dir => err'["scan"] = FALSE)
    BY <1>3, <1>6, <2>1
  <2>4. \A n \in Node : t = Cp(n) => /\ cur'.rd <= Size[n]
                                     /\ n \in link' => cur'.rd = cur'.pos
    <3> SUFFICES ASSUME NEW n \in Node, t = Cp(n)
                 PROVE  cur'.rd <= Size[n] /\ (n \in link' => cur'.rd = cur'.pos)
      OBVIOUS
    <3>1. n = t.node
      BY TaskKinds
    <3>2. n \in link => cur.rd = cur.pos
      BY <1>2, <1>5
    <3>3. cur'.rd <= Size[n]
      BY <1>1, <2>1, <2>2, <3>1
    <3> QED BY <2>1, <2>2, <3>2, <3>3
  <2> QED BY <1>5, <2>1, <2>3, <2>4, StaysMove DEF w
<1>18. CASE WorkReachesEof
  <2> PICK t \in WorkTask, flushed \in BOOLEAN : WorkReachesEof!(t, flushed)
    BY <1>18 DEF WorkReachesEof
  <2>1. flushed
    BY DEF CanFail
  <2>2. /\ dst' = IF cur.pos = Size[t.node]
                  THEN [dst EXCEPT ![t.node] = "new"] ELSE dst
        /\ UNCHANGED <<src, recursed>>
    BY <2>1 DEF histVars
  <2>3. \A n \in Node : dst'[n] = IF n = t.node /\ cur.pos = Size[n]
                                  THEN "new" ELSE dst[n]
    BY <1>1, <2>2
  <2>4. LossOK' /\ (dir => err'["scan"] = FALSE)
    BY <1>1, <1>6, <2>2, <2>3 DEF LossOK
  <2>5. \A n \in Node : t = Cp(n) /\ n \in link => dst'[n] = "new"
    <3> SUFFICES ASSUME NEW n \in Node, t = Cp(n), n \in link
                 PROVE  dst'[n] = "new"
      OBVIOUS
    <3>1. n = t.node
      BY TaskKinds
    <3>2. cur.rd <= Size[n] /\ cur.rd = cur.pos
      BY <1>2, <1>5
    <3>3. cur.rd >= Size[n]
      BY <3>1 DEF AtEof
    <3> QED BY <1>1, <2>3, <3>1, <3>2, <3>3
  <2>6. /\ t = w /\ t # NoTask /\ Dequeues(t, back)
        /\ UNCHANGED <<mainVars, scanVars>>
        /\ abort' \in BOOLEAN /\ (abort => abort')
    BY <1>5 DEF Finishes
  <2>7. \A n \in Node : ~abort' =>
          /\ dst[n] = "new" => dst'[n] = "new"
          /\ t = Cp(n) /\ n \in link => back = Unlinked(t) \/ dst'[n] = "new"
    BY <2>3, <2>5
  <2> QED BY <2>4, <2>6, <2>7, DequeuesMove DEF w
<1>19. CASE WorkFails
  <2> PICK t \in WorkTask : WorkFails!(t)
    BY <1>19 DEF WorkFails
  <2>1. /\ t = w /\ t # NoTask /\ t \in MoveWork /\ t.node \in Node
        /\ UNCHANGED <<mainVars, scanVars>>
        /\ ~abort /\ abort' \in BOOLEAN /\ (abort => abort')
        /\ t.act = "copy" => t = Cp(t.node)
    BY <1>5
  <2>2. /\ wcur' = t /\ front' = front
        /\ \/ UNCHANGED <<back, link>>
           \/ back' = Unlinked(t) /\ link' = Links(t)
        /\ UNCHANGED <<src, dst, recursed>>
    BY DEF diskVars, histVars
  <2>3. LossOK' /\ (dir => err'["scan"] = FALSE)
    BY <1>3, <1>6, <2>2
  <2>4. CASE t.act = "copy"
    <3>1. CopyError(t)
      BY <2>4
    <3>2. ~overwrite'
      BY <1>4, <3>1 DEF CopyError, MayWrite, Consumed
    <3>3. t.node \notin link'
      <4>1. link' = Links(t)
        BY <3>2
      <4> QED BY <2>4, <4>1 DEF Links, HasLink
    <3>4. cur.rd <= Size[t.node]
      BY <1>2, <2>1, <2>4
    <3>5. cur'.rd <= Size[t.node]
      <4>1. CASE cur'.rd = cur.rd
        BY <3>4, <4>1
      <4>2. CASE ~AtEof(t) /\ cur' = [cur EXCEPT !.rd = @ + 1]
        <5>1. cur'.rd = cur.rd + 1
          BY <4>2 DEF TypeOK, WorkOK
        <5>2. Size[t.node] \in Nat
          BY <1>1, <2>1
        <5> QED BY <1>1, <4>2, <5>1, <5>2 DEF AtEof
      <4> QED BY <3>1, <4>1, <4>2 DEF CopyError, TypeOK, WorkOK
    <3>6. \A n \in Node : t = Cp(n) => /\ cur'.rd <= Size[n]
                                       /\ n \in link' => cur'.rd = cur'.pos
      BY <3>3, <3>5, TaskKinds
    <3> QED BY <2>1, <2>2, <2>3, <3>2, <3>6, StaysMove DEF w
  <2>5. CASE t.act # "copy"
    <3>1. \A n \in Node : t # Cp(n)
      BY <2>5, TaskKinds
    <3>2. cur'.open => ~overwrite'
      <4>1. CASE t.act = "remove"
        BY <1>4, <4>1 DEF RemoveError
      <4>2. CASE t.act # "remove"
        BY <2>5, <4>2 DEF RelinkError, MayWrite, Consumed
      <4> QED BY <4>1, <4>2
    <3> QED BY <2>1, <2>2, <2>3, <3>1, <3>2, StaysMove DEF w
  <2> QED BY <2>4, <2>5
<1>20. CASE WorkStats
  <2> PICK t \in WorkTask : WorkStats!(t)
    BY <1>20 DEF WorkStats
  <2>1. UNCHANGED <<src, dst, recursed>>
    BY DEF diskVars, histVars
  <2>2. LossOK' /\ (dir => err'["scan"] = FALSE)
    BY <1>3, <1>6, <2>1
  <2>3. \A n \in Node : t # Cp(n)
    BY <1>5, TaskKinds
  <2> QED BY <1>5, <2>1, <2>2, <2>3, DequeuesMove DEF w, Finishes
<1>21. CASE WorkRemoves
  <2> PICK t \in WorkTask : WorkRemoves!(t)
    BY <1>21 DEF WorkRemoves
  <2>1. \A n \in Node : t # Cp(n)
    BY <1>5, TaskKinds
  <2>2. dst[t.node] = "new"
    BY <1>2, <1>5
  <2>3. LossOK'
    <3>1. CASE src' = src \ {t.node} /\ recursed' = recursed
      BY <1>1, <2>2, <3>1 DEF LossOK
    <3>2. CASE src' = src \ Below(t.node) /\ recursed' = recursed \cup {t.node}
      BY <1>1, <3>2 DEF LossOK
    <3> QED BY <3>1, <3>2
  <2> QED BY <1>5, <1>6, <2>1, <2>3, DequeuesMove DEF w, Finishes
<1>22. CASE WorkRenames
  <2> PICK t \in WorkTask : WorkRenames!(t)
    BY <1>22 DEF WorkRenames
  <2>1. \A n \in Node : t # Cp(n)
    BY <1>5, TaskKinds
  <2>2. LossOK' /\ \A m \in Node : dst[m] = "new" => dst'[m] = "new"
    BY <1>1, RenamedLoses DEF histVars
  <2> QED BY <1>5, <1>6, <2>1, <2>2, DequeuesMove DEF w, Finishes
<1>23. CASE WorkSymlinks \/ WorkWipes \/ WorkWipesNothing
  BY <1>5, <1>23 DEF WorkSymlinks, WorkWipes, WorkWipesNothing, MoveWork
<1> QED BY <1>7, <1>8, <1>9, <1>10, <1>11, <1>12, <1>13, <1>14, <1>15, <1>16,
           <1>17, <1>18, <1>19, <1>20, <1>21, <1>22, <1>23 DEF Work

-----------------------------------------------------------------------------
(* The theorem.                                                            *)

LEMMA UserMove ==
  ASSUME TypeOK, MoveInv, op \in {"move", "rename"}, User
  PROVE  MoveInv'
<1>1. DirOK /\ abort \in BOOLEAN
  BY DEF MoveInv, QueuesOK, TypeOK, CtlOK
<1>2. /\ UNCHANGED <<mainVars, scanVars, workVars, err, overwrite, diskVars,
                     histVars>>
      /\ abort' = abort \/ abort' = TRUE
  BY DEF User, AnswerError, AnswerOverwrite, AbortArrives
<1> QED BY <1>1, <1>2, QuietMove DEF scanVars, workVars, histVars, DirOK

\* Unless fclose() loses data unnoticed, a move or a rename loses a file of the
\* source only by a recursive remove of a directory above it: in every tree, in
\* every order of the idlers and the answers, and whatever else fails.  A
\* remove task runs only when the copy it is linked to is complete, because
\* _e_fm_op_scan_atom puts it behind the separator, WorkFails and WorkGivesUp
\* drop it with the copy, and every file has one task of each kind.
THEOREM MoveLosesLittle ==
  ASSUME "flush" \notin Faulty
  PROVE  Spec => []LostOnlyBelowRecursed
<1>1. Init => TypeOK /\ MoveInv
  BY InitType, InitMove
<1>2. TypeOK /\ MoveInv /\ [Next]_vars => MoveInv'
  <2> SUFFICES ASSUME TypeOK, MoveInv, [Next]_vars, op' \in {"move", "rename"}
               PROVE  MoveInv'
    BY DEF MoveInv
  <2>1. CASE Main
    BY <2>1, MainMove
  <2>2. CASE Scan \/ Work \/ User
    <3>1. op' = op
      BY <2>2 DEF Scan, ScanEmpty, ScanSleeps, ScanHeld, ScanGivesUp,
         ScanAborts, ScanFails, ScanOpens, ScanChild, ScanDirRead, ScanPushes,
         Work, WorkDropsSeparator, WorkFindsNothing, WorkSleeps, WorkHeld,
         WorkGivesUp, WorkAborts, WorkAsks, WorkDeclines, WorkCopiesAtOnce,
         WorkOpens, WorkCopiesNothing, WorkCopiesChunk, WorkReachesEof,
         WorkFails, WorkStats, WorkRemoves, WorkSymlinks, WorkRenames,
         WorkWipes, WorkWipesNothing, Works,
         User, AnswerError, AnswerOverwrite, AbortArrives, mainVars, argVars
    <3> QED BY <2>2, <3>1, ScanMove, WorkMove, UserMove
  <2>3. CASE Exited \/ UNCHANGED vars
    <3>1. UNCHANGED vars
      BY <2>3 DEF Exited
    <3>2. op' = op /\ DirOK /\ abort \in BOOLEAN
      BY <3>1 DEF vars, mainVars, argVars, MoveInv, QueuesOK, TypeOK, CtlOK
    <3> QED BY <3>1, <3>2, QuietMove
            DEF vars, scanVars, workVars, ctlVars, histVars, DirOK
  <2> QED BY <2>1, <2>2, <2>3 DEF Next
<1>3. MoveInv => LostOnlyBelowRecursed
  BY DEF MoveInv, LossOK, LostOnlyBelowRecursed
<1>4. Spec => []TypeOK
  BY TypeCorrect
<1> QED BY <1>1, <1>2, <1>3, <1>4, PTL DEF Spec

\* Only a directory is removed with what is left in it: where the arguments are
\* all files, never (WorkRemoves).
LEMMA FlatRecursesNowhere ==
  ASSUME \A n \in Node : Parent[n] = NoNode
  PROVE  Spec => [](recursed = {})
<1>1. Init => recursed = {}
  BY DEF Init
<1>2. TypeOK /\ recursed = {} /\ [Next]_vars => (recursed = {})'
  <2> SUFFICES ASSUME TypeOK, recursed = {}, [Next]_vars PROVE recursed' = recursed
    OBVIOUS
  <2>1. CASE Main \/ User
    BY <2>1 DEF Main, MainLinks, MainRenames, MainGivesUp, MainQueues,
       MainLoops, User, AnswerError, AnswerOverwrite, AbortArrives, histVars
  <2>2. CASE Scan
    BY <2>2 DEF Scan, ScanEmpty, ScanSleeps, ScanHeld, ScanGivesUp,
       ScanAborts, ScanFails, ScanOpens, ScanChild, ScanDirRead, ScanPushes,
       histVars
  <2>3. CASE WorkRemoves
    <3> PICK t \in WorkTask : WorkRemoves!(t)
      BY <2>3 DEF WorkRemoves
    <3>1. t.node # NoNode
      BY TreeAssumption DEF TypeOK, DiskOK
    <3>2. Children(t.node) = {}
      BY <3>1 DEF Children
    <3> QED BY <3>2
  <2>4. CASE Work /\ ~WorkRemoves
    BY <2>4 DEF Work, WorkDropsSeparator, WorkFindsNothing, WorkSleeps,
       WorkHeld, WorkGivesUp, WorkAborts, WorkAsks, WorkDeclines,
       WorkCopiesAtOnce, WorkOpens, WorkCopiesNothing, WorkCopiesChunk,
       WorkReachesEof, WorkFails, WorkStats, WorkSymlinks, WorkRenames,
       WorkWipes, WorkWipesNothing, histVars
  <2>5. CASE Exited \/ UNCHANGED vars
    BY <2>5 DEF Exited, vars, histVars
  <2> QED BY <2>1, <2>2, <2>3, <2>4, <2>5 DEF Next
<1> QED BY <1>1, <1>2, TypeCorrect, PTL DEF Spec

\* Where the arguments are all files a move loses nothing at all.
THEOREM FlatMoveLosesNothing ==
  ASSUME "flush" \notin Faulty, \A n \in Node : Parent[n] = NoNode
  PROVE  Spec => []NothingLost
<1>1. LostOnlyBelowRecursed /\ recursed = {} => NothingLost
  BY DEF LostOnlyBelowRecursed, NothingLost
<1>2. Spec => [](recursed = {})
  BY FlatRecursesNowhere
<1>3. Spec => []LostOnlyBelowRecursed
  BY MoveLosesLittle
<1> QED BY <1>1, <1>2, <1>3, PTL

\* Once the abort mark is set no system call touches the source or the target
\* any more: every atom looks at the mark first, and main() is long over.
THEOREM AbortFreezes == Spec => AbortFreezesFiles
<1> DEFINE Early == ~looping => ~abort
<1>1. Init => Early
  BY DEF Init
<1>2. Early /\ [Next]_vars => Early' /\ [abort => UNCHANGED diskVars]_vars
  <2> SUFFICES ASSUME Early, [Next]_vars
               PROVE  Early' /\ (abort => UNCHANGED diskVars)
    OBVIOUS
  <2>1. CASE Main
    BY <2>1 DEF Main, MainLinks, MainRenames, MainGivesUp, MainQueues,
       MainLoops, ctlVars
  <2>2. CASE User
    BY <2>2 DEF User, AnswerError, AnswerOverwrite, AbortArrives, Reads,
       Running, mainVars
  <2>3. CASE Scan
    <3>1. UNCHANGED diskVars
      BY <2>3 DEF Scan, ScanEmpty, ScanSleeps, ScanHeld, ScanGivesUp,
         ScanAborts, ScanFails, ScanOpens, ScanChild, ScanDirRead, ScanPushes
    <3>2. UNCHANGED mainVars /\ \E i : Turn(i)
      BY <2>3 DEF Scan, ScanEmpty, ScanSleeps, ScanHeld, ScanGivesUp,
         ScanAborts, ScanFails, ScanOpens, ScanChild, ScanDirRead, ScanPushes,
         Scans
    <3>3. looping /\ looping' = looping
      BY <3>2 DEF Turn, Running, mainVars
    <3> QED BY <3>1, <3>3
  <2>4. ASSUME NEW t \in WorkTask, NEW k, Works(t, k)
        PROVE  ~abort /\ Early'
    BY <2>4 DEF Works, Turn, Running, mainVars
  <2>5. CASE \/ WorkDropsSeparator \/ WorkFindsNothing \/ WorkSleeps \/ WorkHeld
             \/ WorkGivesUp \/ WorkAborts
    <3>1. UNCHANGED <<mainVars, diskVars>> /\ Turn("work")
      BY <2>5 DEF WorkDropsSeparator, WorkFindsNothing, WorkSleeps, WorkHeld,
         WorkGivesUp, WorkAborts
    <3>2. looping /\ looping' = looping
      BY <3>1 DEF Turn, Running, mainVars
    <3> QED BY <3>1, <3>2
  <2>6. CASE WorkAsks \/ WorkDeclines \/ WorkFails
    BY <2>4, <2>6 DEF WorkAsks, WorkDeclines, WorkFails
  <2>7. CASE \/ WorkCopiesAtOnce \/ WorkOpens \/ WorkCopiesNothing
             \/ WorkCopiesChunk \/ WorkReachesEof
    BY <2>4, <2>7 DEF WorkCopiesAtOnce, WorkOpens, WorkCopiesNothing,
       WorkCopiesChunk, WorkReachesEof
  <2>8. CASE \/ WorkStats \/ WorkRemoves \/ WorkSymlinks \/ WorkRenames
             \/ WorkWipes \/ WorkWipesNothing
    BY <2>4, <2>8 DEF WorkStats, WorkRemoves, WorkSymlinks, WorkRenames,
       WorkWipes, WorkWipesNothing
  <2>9. CASE Exited \/ UNCHANGED vars
    BY <2>9 DEF Exited, vars, mainVars, ctlVars
  <2> QED BY <2>1, <2>2, <2>3, <2>5, <2>6, <2>7, <2>8, <2>9 DEF Next, Work
<1> QED BY <1>1, <1>2, PTL DEF Spec, AbortFreezesFiles
=============================================================================
