----------------------------- MODULE FmOpIdlers -----------------------------
(***************************************************************************)
(* How the two idlers of FmOp share the questions, the queues and the      *)
(* work. There is one question at a time, an idler that sleeps has asked   *)
(* one, removes come after everything else, and a secure remove            *)
(* overwrites each file before.  What ends by itself has done everything   *)
(* the user did not skip, and what nothing disturbs meets no error of      *)
(* its own: directories are made before, and removed after, what is in     *)
(* them.  All of this for every tree, list of arguments, operation and     *)
(* interleaving; where a fault breaks it, the theorem says so.             *)
(***************************************************************************)
EXTENDS FmOpProofs

\* No scan fails; no target exists before a copy; no scan fails that could meet
\* an overwrite question.
ScanSucceeds == {"lstat", "opendir"} \cap Faulty = {}
Anew    == op = "copy" /\ Exists = {}
Quietly == op # "remove" /\ ScanSucceeds
Surely  == op \in {"remove", "srm"} \/ ScanSucceeds \/ Anew

-----------------------------------------------------------------------------
(* The invariant.                                                          *)

\* The tasks of operation o in the scan queue, and in the two halves of the
\* work queue (_e_fm_op_scan_atom).
Moves(o)     == o \in {"move", "rename"}
ScanActs(o)  == IF Moves(o) THEN {"move", "rename"} ELSE {o}
FrontActs(o) == IF o = "copy" THEN {} ELSE IF Moves(o) THEN {"copy", "rename"}
                ELSE IF o = "srm" THEN {"destroy"} ELSE {o}
BackActs(o)  == IF o = "copy" THEN {"copy", "stat"}
                ELSE IF Moves(o) \/ o = "srm" THEN {"remove", "stat"} ELSE {"stat"}
ScanOf(o)  == [act: ScanActs(o) \cup {"stat"}, node: Node]
FrontOf(o) == [act: FrontActs(o), node: Node]
BackOf(o)  == [act: BackActs(o), node: Node] \cup {NoTask}
WorkOf(o)  == [act: FrontActs(o) \cup BackActs(o), node: Node]

KindsOK ==
  /\ type \in ScanActs(op)
  /\ scanq \in Seq(ScanOf(op))
  /\ front \in Seq(FrontOf(op)) /\ back \in Seq(BackOf(op))
  /\ wcur \in WorkOf(op) \cup {NoTask}
  /\ scur # NoTask => Has(scanq, {scur})

\* In main() neither idler has begun.
Before ==
  ~looping =>
    /\ asked = [error |-> 0, overwrite |-> 0] /\ err = [i \in Idler |-> FALSE]
    /\ ~overwrite /\ errResp = "none" /\ owResp = "none" /\ ~quit
    /\ wcur = NoTask /\ scur = NoTask /\ ~dir
    /\ front = <<>> /\ sep # "freed" /\ idlers = <<>> /\ left = <<>> /\ listed = {}

\* The process has neither ended nor is it in its last pass after an abort.
Live == ~(quit /\ (abort \/ left = <<>>))

\* An overwrite question is open or answered: nothing else is, and the task
\* that asked is at the work idler and takes the answer.
Asking ==
  /\ ~err["scan"] /\ asked.error = 0 /\ errResp \in {"none", "ignoreAll"}
  /\ wcur # NoTask /\ wcur.act \in AsksFirst /\ ~cur.open
  /\ asked.overwrite = 1 => owResp = "none"
  /\ owResp = "none" => asked.overwrite = 1 \/ errResp = "ignoreAll"

\* Otherwise one idler at most has met an error, which is asked or answered.
Failing ==
  /\ asked.overwrite = 0 /\ owResp \in {"none", "yesAll", "noAll"}
  /\ ~(err["scan"] /\ err["work"])
  /\ asked.error = 1 => errResp = "none" /\ (err["scan"] \/ err["work"])
  /\ errResp \in {"retry", "ignore", "abort"} => err["scan"] \/ err["work"]
  /\ errResp = "none" /\ (err["scan"] \/ err["work"]) => asked.error = 1
  /\ err["work"] => wcur # NoTask /\ wcur.act \in {"copy", "remove", "symlink", "rename"}

Marked ==
  /\ asked.error + asked.overwrite <= 1
  /\ Live => IF overwrite THEN Asking ELSE Failing

\* The work idler is unregistered only while it waits for an answer.
Sleeping ==
  /\ looping /\ Live /\ ~quit /\ ~Registered("work") => Sleeps("work")
  /\ errResp = "ignoreAll" => "ignoreAll" \in ErrorAnswers

\* The scan idler is unregistered only when it has no more to do, or while the
\* work idler waits for an answer.
Scanned ==
  Live => /\ ~err["scan"]
          /\ looping /\ ~Registered("scan") /\ scanq # <<>> => overwrite /\ owResp = "none"

\* Removes are behind the separator, which goes when nothing is before it.
Ordered ==
  Live => /\ sep = "none" => ~Has(back, [act: {"remove"}, node: Node])
          /\ wcur # NoTask /\ wcur.act = "remove" => sep = "freed"
          /\ wcur # NoTask /\ wcur.act \in FrontActs(op) \ BackActs(op) => Has(front, {wcur})
          /\ sep = "freed" => scanq = <<>> /\ front = <<>>

\* What is still to be scanned is at the source, and no rename takes it away.
Rn(n) == [act |-> "rename", node |-> n]
Renaming(n) == Has(scanq, {Rn(n)}) \/ Has(front, {Rn(n)}) \/ wcur = Rn(n)
Todo(n) == \E i \in 1..Len(todo) : todo[i] = n

TodoApart ==
  ~looping =>
    /\ \A n \in Node : Todo(n) => /\ n \in src /\ Parent[n] = NoNode
                                  /\ \A t \in ScanTask : Has(scanq, {t}) => t.node # n
    /\ \A i, j \in 1..Len(todo) : todo[i] = todo[j] => i = j
    /\ \A t \in ScanTask : Has(scanq, {t}) => Parent[t.node] = NoNode

ScanApart ==
  \A t \in ScanTask : Has(scanq, {t}) =>
    t.node \in src /\ \A n \in Node : Renaming(n) /\ t # Rn(n) => t.node \notin Below(n)

RootsApart ==
  \A n \in Node : Renaming(n) =>
    /\ Parent[n] = NoNode /\ Once(scanq, {Rn(n)})
    /\ Has(scanq, {Rn(n)}) => ~Has(front, {Rn(n)}) /\ wcur # Rn(n)

DirApart ==
  dir => /\ scur # NoTask /\ scur.act \notin {"rename", "symlink"}
         /\ \A m \in ents : /\ m \in src /\ Parent[m] = scur.node
                            /\ \A n \in Node : Renaming(n) => m \notin Below(n)

Apart == Live => TodoApart /\ ScanApart /\ RootsApart /\ DirApart

\* A copy to where nothing is comes to a node when the directory above is read,
\* scans and copies it once, finds no target, and never asks.
Met(n) == Has(scanq, {Cp(n)}) \/ Has(back, {Cp(n)}) \/ dst[n] # "absent"

TodoAnew ==
  ~looping => /\ \A n \in Node : Todo(n) => ~Met(n) /\ Parent[n] = NoNode
              /\ \A i, j \in 1..Len(todo) : todo[i] = todo[j] => i = j

DirAnew ==
  dir => /\ scur # NoTask /\ ~err["scan"]
         /\ \A n \in ents : ~Met(n) /\ Parent[n] = scur.node

MetAnew ==
  \A n \in Node : Met(n) => \/ Parent[n] = NoNode \/ Parent[n] \in listed
                            \/ dir /\ Parent[n] = scur.node

OnceAnew ==
  \A n \in Node :
    /\ Once(scanq, {Cp(n)}) /\ Once(back, {Cp(n)})
    /\ Has(scanq, {Cp(n)}) => dst[n] = "absent" /\ ~Has(back, {Cp(n)})
    /\ Has(back, {Cp(n)}) => dst[n] = "absent" \/ (wcur = Cp(n) /\ cur.open)
    /\ wcur = Cp(n) => Has(back, {Cp(n)})

AskedNothing == ~overwrite /\ asked.overwrite = 0 /\ owResp = "none" /\ cur.ovr = "none"

AnewOK == TodoAnew /\ DirAnew /\ MetAnew /\ OnceAnew /\ AskedNothing

IdlerInv ==
  /\ KindsOK /\ Before
  /\ Anew => AnewOK
  /\ Surely => Marked /\ Sleeping
  /\ Quietly => Scanned /\ Ordered /\ Apart

-----------------------------------------------------------------------------
(* The tasks of each operation.                                            *)

\* A turn is one of a process that runs, and what ended stays ended.
LEMMA Turned ==
  ASSUME NEW i, Turn(i)
  PROVE  /\ looping /\ ~(quit /\ left = <<>>)
         /\ (quit => quit') /\ (abort => abort') /\ Live' => Live /\ ~(quit /\ abort)
BY DEF Turn, Running, Live

LEMMA KindFacts ==
  ASSUME TypeOK
  PROVE  /\ op \in OpType
         /\ ScanOf(op) \subseteq ScanTask /\ FrontOf(op) \subseteq WorkTask
         /\ WorkOf(op) \subseteq WorkTask /\ BackOf(op) \subseteq WorkTask \cup {NoTask}
         /\ FrontOf(op) \subseteq WorkOf(op) /\ BackOf(op) \subseteq WorkOf(op) \cup {NoTask}
         /\ NoTask \notin ScanOf(op) /\ NoTask \notin WorkOf(op) /\ NoTask \notin FrontOf(op)
<1>1. op \in OpType
  BY ArgsAssumption DEF TypeOK, MainOK
<1>2. ScanOf(op) \subseteq ScanTask
  BY <1>1 DEF ScanOf, ScanTask, ScanActs, Moves, OpType
<1>3. WorkOf(op) \subseteq WorkTask
  BY <1>1 DEF WorkOf, WorkTask, FrontActs, BackActs, Moves, OpType
<1>4. FrontOf(op) \subseteq WorkOf(op) /\ BackOf(op) \subseteq WorkOf(op) \cup {NoTask}
  BY DEF FrontOf, BackOf, WorkOf
<1>5. NoTask \notin ScanTask /\ NoTask \notin WorkTask
  BY NoTaskAssumption
<1> QED BY <1>1, <1>2, <1>3, <1>4, <1>5

\* The tasks the idlers look at.
LEMMA KindTasks ==
  ASSUME TypeOK, KindsOK
  PROVE  /\ ScanCurrent \in ScanOf(op) \cup {NoTask}
         /\ ScanCurrent # NoTask => Has(scanq, {ScanCurrent}) /\ scanq # <<>>
         /\ WorkCurrent \in WorkOf(op) \cup {NoTask}
         /\ WorkCurrent # NoTask /\ wcur = NoTask /\ front # <<>> =>
              Has(front, {WorkCurrent}) /\ WorkCurrent \in FrontOf(op)
         /\ WorkCurrent # NoTask /\ wcur = NoTask /\ front = <<>> =>
              sep # "live" /\ Has(back, {WorkCurrent}) /\ WorkCurrent \in BackOf(op)
<1>1. /\ scanq \in Seq(ScanOf(op)) /\ front \in Seq(FrontOf(op)) /\ back \in Seq(BackOf(op))
      /\ scur # NoTask => Has(scanq, {scur})
  BY DEF KindsOK
<1>2. scanq # <<>> => Head(scanq) \in ScanOf(op) /\ Has(scanq, {Head(scanq)})
  BY <1>1, HasOne, HeadTailProperties
<1>3. front # <<>> => Head(front) \in FrontOf(op) /\ Has(front, {Head(front)})
  BY <1>1, HasOne, HeadTailProperties
<1>4. back # <<>> => Head(back) \in BackOf(op) /\ Has(back, {Head(back)})
  BY <1>1, HasOne, HeadTailProperties
<1>5. /\ \A u \in ScanOf(op) : Has(scanq, {u}) => scanq # <<>>
      /\ \A k : Has(scanq, {k}) => k \in ScanOf(op)
  <2>1. ~Has(<<>>, {scur}) /\ \A u : ~Has(<<>>, {u})
    BY HasEmpty
  <2>2. \A k : Has(scanq, {k}) => k \in ScanOf(op)
    BY <1>1, ElementOfSeq DEF Has
  <2> QED BY <2>1, <2>2
<1>6. /\ ScanCurrent \in ScanOf(op) \cup {NoTask}
      /\ ScanCurrent # NoTask => Has(scanq, {ScanCurrent}) /\ scanq # <<>>
  BY <1>1, <1>2, <1>5 DEF ScanCurrent
<1>7. /\ WorkHead \in WorkOf(op) \cup {NoTask}
      /\ WorkHead # NoTask /\ front # <<>> => Has(front, {WorkHead}) /\ WorkHead \in FrontOf(op)
      /\ WorkHead # NoTask /\ front = <<>> =>
           sep # "live" /\ Has(back, {WorkHead}) /\ WorkHead \in BackOf(op)
  <2>1. CASE front # <<>>
    BY <1>3, <2>1, KindFacts DEF WorkHead
  <2>2. CASE front = <<>> /\ (sep = "live" \/ back = <<>>)
    BY <2>2 DEF WorkHead
  <2>3. CASE front = <<>> /\ sep # "live" /\ back # <<>>
    BY <1>4, <2>3, KindFacts DEF WorkHead
  <2> QED BY <2>1, <2>2, <2>3
<1> QED BY <1>6, <1>7 DEF WorkCurrent, KindsOK

-----------------------------------------------------------------------------
(* What the steps of the idlers have in common.                            *)

\* The scan idler moves on in its queue and pushes tasks.
ScanStep ==
  /\ Turn("scan") /\ (quit => quit') /\ (abort => abort')
  /\ UNCHANGED <<mainVars, sep, wcur, cur, overwrite, owResp, diskVars>>

ScanQueues ==
  \/ /\ UNCHANGED <<scanq, front, back, link>> /\ scur' \in {scur, ScanCurrent}
  \/ /\ ScanCurrent # NoTask
     /\ scanq' = Without(scanq, ScanCurrent) /\ scur' = NoTask /\ UNCHANGED <<front, back, link>>
  \/ \E t \in ScanTask, n \in Node, k \in {"stat", ScanCurrent.act} :
       /\ t = ScanCurrent /\ t.act # "stat" /\ scur' \in {t, NoTask}
       /\ scanq' = Queued([act |-> k, node |-> n], t.act) /\ UNCHANGED <<front, back, link>>
  \/ \E t \in ScanTask :
       /\ t = ScanCurrent /\ Pushes(t) /\ scanq' = Without(scanq, t) /\ scur' = NoTask

LEMMA ScanSteps ==
  ASSUME TypeOK, Scan
  PROVE  ScanStep /\ ScanQueues
<1>1. \A t \in ScanTask : t.node \in Node /\ ents \subseteq Node
  BY DEF ScanTask, TypeOK, ScanOK
<1>2. CASE ScanEmpty \/ ScanSleeps \/ ScanHeld
  BY <1>2 DEF ScanEmpty, ScanSleeps, ScanHeld, ScanStep, ScanQueues, scanVars, workVars, ctlVars
<1>3. CASE ScanGivesUp
  BY <1>3 DEF ScanGivesUp, ScanStep, ScanQueues, workVars
<1>4. CASE ScanAborts
  BY <1>4 DEF ScanAborts, ScanStep, ScanQueues, workVars
<1>5. CASE ScanFails
  BY <1>5 DEF ScanFails, Scans, ScanStep, ScanQueues, workVars
<1>6. CASE ScanOpens
  BY <1>6 DEF ScanOpens, Scans, ScanStep, ScanQueues, workVars
<1>7. CASE ScanChild
  BY <1>1, <1>7 DEF ScanChild, Scans, ScanStep, ScanQueues, workVars
<1>8. CASE ScanDirRead
  BY <1>1, <1>8 DEF ScanDirRead, Scans, ScanStep, ScanQueues, workVars
<1>9. CASE ScanPushes
  BY <1>9 DEF ScanPushes, Scans, ScanStep, ScanQueues
<1> QED BY <1>2, <1>3, <1>4, <1>5, <1>6, <1>7, <1>8, <1>9 DEF Scan

\* The task at the work idler stays, or leaves, perhaps with its link task.
WorkStep ==
  /\ Turn("work") /\ (quit => quit') /\ (abort => abort')
  /\ UNCHANGED <<mainVars, scanq, scur, dir, ents, listed>>

WorkQueues ==
  \/ /\ front' = front /\ back' \in {back, Unlinked(WorkCurrent)} /\ wcur' \in {wcur, WorkCurrent}
  \/ \E q \in {back, Unlinked(WorkCurrent)} :
       /\ front' = Without(front, WorkCurrent) /\ back' = Without(q, WorkCurrent)
       /\ wcur' = NoTask /\ WorkCurrent # NoTask

LEMMA WorkSteps ==
  ASSUME TypeOK, Work
  PROVE  WorkStep /\ WorkQueues
<1> USE DEF WorkStep, WorkQueues, Works, Finishes, Dequeues, Stays
<1>0. CASE WorkSleeps \/ WorkHeld
  BY <1>0 DEF WorkSleeps, WorkHeld, scanVars, ctlVars
<1>1. CASE WorkDropsSeparator
  BY <1>1 DEF WorkDropsSeparator, scanVars, ctlVars
<1>9. CASE WorkFindsNothing
  <2>1. quit \in BOOLEAN
    BY DEF TypeOK, PassOK
  <2> QED BY <1>9, <2>1 DEF WorkFindsNothing, scanVars, workVars, ctlVars
<1>2. CASE WorkGivesUp
  BY <1>2 DEF WorkGivesUp, scanVars
<1>3. CASE WorkAborts
  BY <1>3 DEF WorkAborts, scanVars
<1>4. CASE WorkAsks \/ WorkDeclines
  BY <1>4 DEF WorkAsks, WorkDeclines, scanVars
<1>5. CASE WorkCopiesAtOnce \/ WorkOpens \/ WorkCopiesNothing \/ WorkCopiesChunk \/ WorkReachesEof
  BY <1>5 DEF WorkCopiesAtOnce, WorkOpens, WorkCopiesNothing, WorkCopiesChunk, WorkReachesEof, scanVars
<1>6. CASE WorkFails
  BY <1>6 DEF WorkFails, scanVars
<1>7. CASE WorkStats \/ WorkRemoves \/ WorkSymlinks \/ WorkRenames
  BY <1>7 DEF WorkStats, WorkRemoves, WorkSymlinks, WorkRenames, scanVars
<1>8. CASE WorkWipes \/ WorkWipesNothing
  BY <1>8 DEF WorkWipes, WorkWipesNothing, scanVars
<1> QED BY <1>0, <1>1, <1>2, <1>3, <1>4, <1>5, <1>6, <1>7, <1>8, <1>9 DEF Work

-----------------------------------------------------------------------------
(* The kinds of tasks.                                                     *)

LEMMA PushesKinds ==
  ASSUME TypeOK, KindsOK, NEW t \in ScanOf(op), Pushes(t)
  PROVE  front' \in Seq(FrontOf(op)) /\ back' \in Seq(BackOf(op))
<1>1. front \in Seq(FrontOf(op)) /\ back \in Seq(BackOf(op)) /\ op \in OpType
  BY KindFacts DEF KindsOK
<1>2. t.node \in Node /\ t.act \in ScanActs(op) \cup {"stat"}
  BY DEF ScanOf
<1> DEFINE u(k) == [act |-> k, node |-> t.node]
<1>3. CASE t.act \in {"copy", "stat"}
  <2>1. front' = front /\ back' = Append(back, u(t.act))
    BY <1>3 DEF Pushes
  <2>2. u(t.act) \in BackOf(op)
    BY <1>2, <1>3 DEF BackOf, BackActs, ScanActs, Moves
  <2> HIDE DEF u
  <2> QED BY <1>1, <2>1, <2>2
<1>4. CASE t.act \in {"remove", "symlink", "rename"}
  <2>1. back' = back /\ front' = <<u(t.act)>> \o front
    BY <1>4 DEF Pushes
  <2>2. u(t.act) \in FrontOf(op)
    BY <1>1, <1>2, <1>4 DEF FrontOf, FrontActs, ScanActs, Moves
  <2> HIDE DEF u
  <2> QED BY <1>1, <2>1, <2>2
<1>5. CASE t.act \in {"move", "srm"}
  <2> DEFINE k == IF t.act = "move" THEN "copy" ELSE "destroy"
  <2>1. back' \in {back, <<u("remove")>> \o back} /\ front' = <<u(k)>> \o front
    BY <1>5 DEF Pushes, LinksRemove
  <2>2. u(k) \in FrontOf(op) /\ u("remove") \in BackOf(op)
    BY <1>1, <1>2, <1>5 DEF FrontOf, FrontActs, BackOf, BackActs, ScanActs, Moves
  <2> HIDE DEF u, k
  <2>3. front' \in Seq(FrontOf(op))
    BY <1>1, <2>1, <2>2
  <2>4. <<u("remove")>> \o back \in Seq(BackOf(op))
    BY <1>1, <2>2
  <2> QED BY <1>1, <2>1, <2>3, <2>4
<1>6. t.act \in OpType \cup {"stat"}
  BY <1>1, <1>2 DEF ScanActs, Moves, OpType
<1> QED BY <1>3, <1>4, <1>5, <1>6 DEF OpType

\* The scan queue gets a child of a directory, or its attributes.
LEMMA QueuedFacts ==
  ASSUME NEW S, scanq \in Seq(S), NEW u \in S, NEW k
  PROVE  /\ Queued(u, k) \in Seq(S)
         /\ \A X : /\ Has(Queued(u, k), X) <=> Has(scanq, X) \/ u \in X
                   /\ Once(scanq, X) /\ (Has(scanq, X) => u \notin X) => Once(Queued(u, k), X)
<1>1. CASE k = "remove"
  BY <1>1, HasCons DEF Queued
<1>2. CASE k # "remove"
  BY <1>2, HasAppend, AppendProperties DEF Queued
<1> QED BY <1>1, <1>2

LEMMA KindsMain == TypeOK /\ KindsOK /\ Before /\ Main => KindsOK'
<1> SUFFICES ASSUME TypeOK, KindsOK, Before, Main PROVE KindsOK'
  OBVIOUS
<1>1. op' = op /\ scur = NoTask /\ scur' = scur /\ wcur' = wcur /\ front' = front
  BY DEF Main, MainLinks, MainRenames, MainGivesUp, MainQueues, MainLoops, Before, argVars,
         scanVars, workVars
<1>2. CASE MainLinks \/ MainRenames \/ MainGivesUp \/ MainLoops
  BY <1>1, <1>2 DEF MainLinks, MainRenames, MainGivesUp, MainLoops, KindsOK, scanVars, workVars
<1>3. CASE MainQueues
  <2> DEFINE n == Head(todo)
             t == ArgType(n)
             u == [act |-> t, node |-> n]
  <2>1. /\ n \in Node /\ t \in ScanActs(op) /\ type' \in {type, t} /\ scanq' = Append(scanq, u)
        /\ back' \in {back, Append(back, NoTask)}
    BY <1>3 DEF MainQueues, TypeOK, MainOK, KindsOK, ArgType, ScanActs, Moves
  <2>2. u \in ScanOf(op) /\ NoTask \in BackOf(op)
    BY <2>1 DEF ScanOf, BackOf
  <2> HIDE DEF u, t, n
  <2>3. scanq' \in Seq(ScanOf(op)) /\ back' \in Seq(BackOf(op))
    BY <2>1, <2>2, AppendProperties DEF KindsOK
  <2>4. type' \in ScanActs(op)
    BY <2>1 DEF KindsOK
  <2> QED BY <1>1, <2>3, <2>4 DEF KindsOK
<1> QED BY <1>2, <1>3 DEF Main

LEMMA KindsScan == TypeOK /\ KindsOK /\ Scan => KindsOK'
<1> SUFFICES ASSUME TypeOK, KindsOK, Scan PROVE KindsOK'
  OBVIOUS
<1>1. /\ op' = op /\ type' = type /\ wcur' = wcur /\ ScanQueues
      /\ scanq \in Seq(ScanOf(op)) /\ front \in Seq(FrontOf(op)) /\ back \in Seq(BackOf(op))
      /\ ScanCurrent \in ScanOf(op) \cup {NoTask}
      /\ ScanCurrent # NoTask => Has(scanq, {ScanCurrent})
      /\ scur # NoTask => Has(scanq, {scur})
      /\ NoTask \notin ScanTask
  BY ScanSteps, KindTasks, NoTaskAssumption DEF ScanStep, KindsOK, mainVars, argVars
<1>2. /\ scanq' \in Seq(ScanOf(op)) /\ front' \in Seq(FrontOf(op)) /\ back' \in Seq(BackOf(op))
      /\ scur' # NoTask => Has(scanq', {scur'})
  <2>1. CASE UNCHANGED <<scanq, front, back, link>> /\ scur' \in {scur, ScanCurrent}
    BY <1>1, <2>1
  <2>2. CASE /\ ScanCurrent # NoTask
             /\ scanq' = Without(scanq, ScanCurrent) /\ scur' = NoTask /\ UNCHANGED <<front, back, link>>
    BY <1>1, <2>2, WithoutType
  <2>3. ASSUME NEW t \in ScanTask, NEW n \in Node, NEW k \in {"stat", t.act},
               t = ScanCurrent, t.act # "stat", scur' \in {t, NoTask},
               scanq' = Queued([act |-> k, node |-> n], t.act), UNCHANGED <<front, back, link>>
        PROVE  /\ scanq' \in Seq(ScanOf(op)) /\ front' \in Seq(FrontOf(op)) /\ back' \in Seq(BackOf(op))
               /\ scur' # NoTask => Has(scanq', {scur'})
    <3> DEFINE u == [act |-> k, node |-> n]
    <3>1. t \in ScanOf(op) /\ Has(scanq, {t})
      BY <1>1, <2>3
    <3>2. u \in ScanOf(op)
      BY <3>1 DEF ScanOf
    <3>3. scanq' = Queued(u, t.act)
      BY <2>3
    <3> HIDE DEF u
    <3>4. scanq' \in Seq(ScanOf(op)) /\ Has(scanq', {t})
      BY <1>1, <3>1, <3>2, <3>3, QueuedFacts
    <3> QED BY <1>1, <2>3, <3>4
  <2>4. ASSUME NEW t \in ScanTask, t = ScanCurrent, Pushes(t), scanq' = Without(scanq, t), scur' = NoTask
        PROVE  /\ scanq' \in Seq(ScanOf(op)) /\ front' \in Seq(FrontOf(op)) /\ back' \in Seq(BackOf(op))
               /\ scur' # NoTask => Has(scanq', {scur'})
    <3>1. t \in ScanOf(op)
      BY <1>1, <2>4
    <3> QED BY <1>1, <2>4, <3>1, PushesKinds, WithoutType
  <2> QED BY <1>1, <2>1, <2>2, <2>3, <2>4 DEF ScanQueues
<1> QED BY <1>1, <1>2 DEF KindsOK

LEMMA KindsWork == TypeOK /\ KindsOK /\ Work => KindsOK'
<1> SUFFICES ASSUME TypeOK, KindsOK, Work PROVE KindsOK'
  OBVIOUS
<1>1. /\ op' = op /\ type' = type /\ UNCHANGED <<scanq, scur>> /\ WorkQueues
      /\ front \in Seq(FrontOf(op)) /\ back \in Seq(BackOf(op))
      /\ wcur \in WorkOf(op) \cup {NoTask} /\ WorkCurrent \in WorkOf(op) \cup {NoTask}
  BY WorkSteps, KindTasks DEF WorkStep, KindsOK, mainVars, argVars
<1>2. Unlinked(WorkCurrent) \in Seq(BackOf(op))
  BY <1>1, WithoutType DEF Unlinked
<1>3. /\ front' \in Seq(FrontOf(op)) /\ back' \in Seq(BackOf(op))
      /\ wcur' \in WorkOf(op) \cup {NoTask}
  BY <1>1, <1>2, WithoutType DEF WorkQueues
<1> QED BY <1>1, <1>3 DEF KindsOK

LEMMA BeforeStep == TypeOK /\ Before /\ [Next]_vars => Before'
<1> SUFFICES ASSUME TypeOK, Before, [Next]_vars, ~looping' PROVE Before'
  BY DEF Before
<1>1. CASE Scan \/ Work
  <2>1. looping /\ looping' = looping
    BY <1>1, ScanSteps, WorkSteps, Turned DEF ScanStep, WorkStep, mainVars
  <2> QED BY <2>1
<1>2. CASE User \/ Exited
  BY <1>2 DEF User, AnswerError, AnswerOverwrite, AbortArrives, Reads, Running, mainVars, Exited, vars
<1>3. CASE MainLinks
  BY <1>3 DEF MainLinks, Before, scanVars, workVars, ctlVars, askVars
<1>4. CASE MainRenames
  BY <1>4 DEF MainRenames, Before, scanVars, workVars, passVars, ctlVars, askVars
<1>5. CASE MainQueues
  BY <1>5 DEF MainQueues, Before, passVars, ctlVars
<1>6. CASE MainGivesUp \/ MainLoops
  BY <1>6 DEF MainGivesUp, MainLoops
<1>7. CASE UNCHANGED vars
  BY <1>7 DEF Before, vars, mainVars, scanVars, workVars, passVars, ctlVars, askVars
<1> QED BY <1>1, <1>2, <1>3, <1>4, <1>5, <1>6, <1>7 DEF Next, Main

-----------------------------------------------------------------------------
(* The marks.                                                              *)

LEMMA CtlFacts ==
  ASSUME TypeOK
  PROVE  /\ asked.error \in Nat /\ asked.overwrite \in Nat /\ abort \in BOOLEAN /\ overwrite \in BOOLEAN
         /\ err \in [Idler -> BOOLEAN] /\ err["scan"] \in BOOLEAN /\ err["work"] \in BOOLEAN
         /\ errResp \in ErrorAnswer \cup {"none"} /\ owResp \in OverwriteAnswer \cup {"none"}
         /\ asked \in [{"error", "overwrite"} -> Nat]
         /\ \A e \in Idler : e = "scan" \/ e = "work"
BY DEF TypeOK, CtlOK, Idler

LEMMA SentFacts ==
  ASSUME TypeOK, NEW e \in Idler, NEW k \in {"error", "overwrite"}, SendsError(e, k)
  PROVE  /\ err'[e] = TRUE /\ \A i \in Idler : i # e => err'[i] = Marks(e)[i]
         /\ errResp' = Response(e)
         /\ Response(e) = "ignoreAll" => asked' = asked
         /\ Response(e) # "ignoreAll" =>
              asked'[k] = asked[k] + 1 /\ \A j \in {"error", "overwrite"} : j # k => asked'[j] = asked[j]
<1>1. Marks(e) \in [Idler -> BOOLEAN] /\ asked \in [{"error", "overwrite"} -> Nat]
  BY ClearedType, CtlFacts DEF TypeOK
<1> QED BY <1>1 DEF SendsError

\* What a step of the scan idler does to the marks.
ScanMarks ==
  \/ UNCHANGED <<err, errResp, asked>>
  \/ /\ GivesUp("scan") /\ err' = [err EXCEPT !["scan"] = FALSE]
     /\ errResp' = (IF errResp = "ignoreAll" THEN errResp ELSE "none") /\ UNCHANGED asked
  \/ abort' /\ quit' /\ UNCHANGED asked /\ errResp' \in {errResp, "none"}
  \/ /\ Proceeds("scan") /\ ~ToldToAbort("scan") /\ ~abort
     /\ Cleared("scan") /\ UNCHANGED asked
  \/ /\ ScanFails /\ Proceeds("scan") /\ ~ToldToAbort("scan") /\ ~abort
     /\ SendsError("scan", "error")

LEMMA ScanMarkSteps == TypeOK /\ Scan => ScanMarks
<1> SUFFICES ASSUME Scan PROVE ScanMarks
  OBVIOUS
<1>1. CASE ScanEmpty \/ ScanSleeps \/ ScanHeld
  BY <1>1 DEF ScanEmpty, ScanSleeps, ScanHeld, ScanMarks, ctlVars, askVars
<1>2. CASE ScanGivesUp
  BY <1>2 DEF ScanGivesUp, ScanMarks, askVars
<1>3. CASE ScanAborts
  BY <1>3 DEF ScanAborts, ScanMarks, askVars
<1>4. CASE ScanFails
  BY <1>4 DEF ScanFails, Scans, ScanMarks
<1>5. CASE ScanOpens \/ ScanChild \/ ScanDirRead \/ ScanPushes
  BY <1>5 DEF ScanOpens, ScanChild, ScanDirRead, ScanPushes, Scans, ScanMarks, askVars
<1> QED BY <1>1, <1>2, <1>3, <1>4, <1>5 DEF Scan

\* What a step of the work idler does: a task that may meet an overwrite takes
\* the answer, and no other step does.
TakesAnswer(t) ==
  \/ t.act \in AsksFirst /\ Consumed(t)
  \/ (t.act \notin AsksFirst \/ cur.open) /\ UNCHANGED <<overwrite, owResp>>

WorkMarks ==
  \/ UNCHANGED <<err, errResp, asked, overwrite, owResp, cur>> /\ wcur' \in {wcur, WorkCurrent}
  \/ /\ GivesUp("work") /\ err' = [err EXCEPT !["work"] = FALSE]
     /\ errResp' = (IF errResp = "ignoreAll" THEN errResp ELSE "none")
     /\ UNCHANGED <<asked, overwrite, owResp>>
  \/ abort' /\ quit' /\ UNCHANGED asked /\ errResp' \in {errResp, "none"}
  \/ /\ Proceeds("work") /\ ~ToldToAbort("work") /\ ~abort /\ WorkCurrent # NoTask
     /\ \/ /\ Verdict(WorkCurrent) = "ask" /\ WorkCurrent.act \in AsksFirst /\ ~cur.open
           /\ overwrite' = TRUE /\ UNCHANGED owResp
           /\ SendsError("work", "overwrite") /\ wcur' = WorkCurrent /\ ~cur'.open
        \/ TakesAnswer(WorkCurrent) /\ Cleared("work") /\ UNCHANGED asked
        \/ /\ TakesAnswer(WorkCurrent) /\ SendsError("work", "error")
           /\ wcur' = WorkCurrent /\ WorkCurrent.act \in {"copy", "remove", "symlink", "rename"}

LEMMA WorkMarkSteps == TypeOK /\ Work => WorkMarks
<1> SUFFICES ASSUME TypeOK, Work PROVE WorkMarks
  OBVIOUS
<1> USE DEF Works
<1>1. CASE WorkDropsSeparator \/ WorkFindsNothing
  BY <1>1 DEF WorkDropsSeparator, WorkFindsNothing, WorkMarks, ctlVars, askVars, workVars
<1>2. CASE WorkSleeps \/ WorkHeld
  BY <1>2 DEF WorkSleeps, WorkHeld, WorkMarks, ctlVars, askVars
<1>3. CASE WorkGivesUp
  BY <1>3 DEF WorkGivesUp, WorkMarks, askVars
<1>4. CASE WorkAborts
  BY <1>4 DEF WorkAborts, WorkMarks, askVars
<1>5. CASE WorkAsks
  <2>1. cur \in [ovr: OverwriteAnswer \cup {"none"}, open: BOOLEAN, rd: Nat, pos: Nat]
    BY DEF TypeOK, WorkOK
  <2> QED BY <1>5, <2>1 DEF WorkAsks, WorkMarks, Stays
<1>6. CASE WorkDeclines
  BY <1>6 DEF WorkDeclines, WorkMarks, TakesAnswer, askVars
<1>7. CASE WorkCopiesAtOnce \/ WorkOpens \/ WorkCopiesNothing
  BY <1>7 DEF WorkCopiesAtOnce, WorkOpens, WorkCopiesNothing, WorkMarks, TakesAnswer, MayWrite,
              AsksFirst, askVars
<1>8. CASE WorkCopiesChunk \/ WorkReachesEof
  BY <1>8 DEF WorkCopiesChunk, WorkReachesEof, WorkMarks, TakesAnswer, askVars
<1>9. CASE WorkFails
  <2>1. PICK t \in WorkTask :
          /\ Works(t, t.act) /\ SendsError("work", "error") /\ wcur' = t
          /\ \/ t.act = "copy" /\ CopyError(t)
             \/ t.act = "remove" /\ RemoveError(t)
             \/ t.act \in {"symlink", "rename"} /\ RelinkError(t)
    BY <1>9, Zenon DEF WorkFails
  <2>2. TakesAnswer(t)
    BY <2>1 DEF CopyError, RemoveError, RelinkError, MayWrite, TakesAnswer, AsksFirst
  <2> QED BY <2>1, <2>2 DEF WorkMarks
<1>10. CASE WorkStats \/ WorkRemoves
  BY <1>10 DEF WorkStats, WorkRemoves, WorkMarks, TakesAnswer, AsksFirst, askVars
<1>11. CASE WorkSymlinks \/ WorkRenames
  BY <1>11 DEF WorkSymlinks, WorkRenames, WorkMarks, TakesAnswer, MayWrite, AsksFirst, askVars
<1>12. CASE WorkWipes \/ WorkWipesNothing
  BY <1>12 DEF WorkWipes, WorkWipesNothing, WorkMarks, TakesAnswer, AsksFirst, askVars
<1> QED BY <1>1, <1>2, <1>3, <1>4, <1>5, <1>6, <1>7, <1>8, <1>9, <1>10, <1>11, <1>12 DEF Work

\* An overwrite question is none of a remove's, and no scan fails in it.
LEMMA AskingFacts ==
  ASSUME TypeOK, KindsOK, Marked, Live, overwrite
  PROVE  /\ Asking /\ op \notin {"remove", "srm"} /\ wcur # NoTask
         /\ WorkCurrent = wcur /\ wcur.act \in AsksFirst /\ ~cur.open
<1>1. Asking
  BY DEF Marked
<1>2. wcur # NoTask /\ wcur.act \in AsksFirst /\ wcur \in WorkOf(op)
  BY <1>1 DEF Asking, KindsOK
<1>3. op \notin {"remove", "srm"}
  BY <1>2 DEF WorkOf, FrontActs, BackActs, Moves, AsksFirst
<1> QED BY <1>1, <1>2, <1>3 DEF WorkCurrent, Asking

LEMMA NoScanFails ==
  ASSUME TypeOK, KindsOK, Apart, Live, ScanSucceeds
  PROVE  ~ScanFails
<1> SUFFICES ASSUME NEW t \in ScanTask, t = ScanCurrent, t # NoTask
             PROVE  t.node \in src /\ ~CanFail("lstat") /\ ~CanFail("opendir")
  BY DEF ScanFails, Scans
<1>1. Has(scanq, {t})
  BY KindTasks
<1> QED BY <1>1 DEF Apart, ScanApart, CanFail, ScanSucceeds

LEMMA MarkedScan ==
  ASSUME TypeOK, KindsOK, Marked, Live, Scan, ScanFails => ~overwrite
  PROVE  Marked'
<1>1. /\ overwrite' = overwrite /\ owResp' = owResp /\ wcur' = wcur /\ cur' = cur
      /\ Live' => ~(quit' /\ abort') /\ ScanMarks
  BY ScanSteps, ScanMarkSteps, Turned DEF ScanStep, Live
<1>2. /\ asked.error \in Nat /\ asked.overwrite \in Nat /\ overwrite \in BOOLEAN
      /\ err["scan"] \in BOOLEAN /\ err["work"] \in BOOLEAN
      /\ err \in [Idler -> BOOLEAN] /\ "scan" \in Idler /\ "work" \in Idler
      /\ errResp \in ErrorAnswer \cup {"none"}
  BY CtlFacts DEF Idler
<1>3. asked.error + asked.overwrite <= 1
  BY DEF Marked
<1>4. CASE overwrite
  <2>1. Asking
    BY <1>4 DEF Marked
  <2>2. ~(ScanFails /\ SendsError("scan", "error")) /\ ~GivesUp("scan")
    BY <1>4 DEF GivesUp
  <2>3. asked' = asked /\ (Live' => ~err'["scan"] /\ errResp' = errResp)
    <3>1. CASE UNCHANGED <<err, errResp, asked>>
      BY <2>1, <3>1 DEF Asking
    <3>2. CASE abort' /\ quit' /\ UNCHANGED asked
      BY <1>1, <3>2
    <3>3. CASE Cleared("scan") /\ UNCHANGED asked
      BY <1>2, <1>4, <3>3 DEF Cleared, Marks, Response
    <3> QED BY <1>1, <2>2, <3>1, <3>2, <3>3, ScanMarkSteps DEF ScanMarks
  <2>4. Live' => Asking'
    BY <1>1, <2>1, <2>3 DEF Asking
  <2> QED BY <1>1, <1>3, <1>4, <2>3, <2>4 DEF Marked
<1>5. CASE ~overwrite
  <2>1. Failing
    BY <1>5 DEF Marked
  <2>2. \/ err' = err /\ errResp' = errResp /\ asked' = asked
        \/ abort' /\ quit' /\ asked' = asked
        \/ /\ ~err'["scan"] /\ err'["work"] = err["work"] /\ asked' = asked
           /\ err["scan"] => errResp \in {"ignore", "ignoreAll", "retry"} /\ errResp' \in {"none", "ignoreAll"}
           /\ ~err["scan"] => ~err["work"] /\ errResp' = errResp
        \/ /\ err'["scan"] /\ err'["work"] = err["work"]
           /\ err["scan"] => errResp = "retry" /\ errResp' = "none"
           /\ ~err["scan"] => ~err["work"] /\ errResp' = errResp
           /\ errResp' = "ignoreAll" => asked' = asked
           /\ errResp' # "ignoreAll" =>
                asked'.error = asked.error + 1 /\ asked'.overwrite = asked.overwrite
    <3>1. CASE \/ UNCHANGED <<err, errResp, asked>>
               \/ abort' /\ quit' /\ UNCHANGED asked
      BY <3>1
    <3>2. CASE /\ GivesUp("scan") /\ err' = [err EXCEPT !["scan"] = FALSE]
               /\ errResp' = (IF errResp = "ignoreAll" THEN errResp ELSE "none") /\ UNCHANGED asked
      BY <1>2, <3>2 DEF GivesUp
    <3>3. Proceeds("scan") /\ ~ToldToAbort("scan") =>
            /\ err["scan"] => errResp = "retry" /\ Response("scan") = "none"
            /\ ~err["scan"] => ~err["work"] /\ Response("scan") = errResp
      BY <1>2, <1>5 DEF Response, Proceeds, Sleeps, GivesUp, Held, ToldToAbort, ErrorAnswer
    <3>4. Marks("scan")["work"] = err["work"] /\ ~Marks("scan")["scan"]
      BY <1>2, <1>5 DEF Marks
    <3>5. CASE Proceeds("scan") /\ ~ToldToAbort("scan") /\ Cleared("scan") /\ UNCHANGED asked
      BY <3>3, <3>4, <3>5 DEF Cleared
    <3>6. CASE Proceeds("scan") /\ ~ToldToAbort("scan") /\ SendsError("scan", "error")
      <4>1. /\ err'["scan"] /\ err'["work"] = err["work"] /\ errResp' = Response("scan")
            /\ Response("scan") = "ignoreAll" => asked' = asked
            /\ Response("scan") # "ignoreAll" =>
                 asked'.error = asked.error + 1 /\ asked'.overwrite = asked.overwrite
        BY <1>2, <3>4, <3>6, SentFacts
      <4> QED BY <3>3, <3>6, <4>1
    <3> QED BY <3>1, <3>2, <3>5, <3>6, ScanMarkSteps DEF ScanMarks
  <2>3. (Live' => Failing') /\ asked'.error + asked'.overwrite <= 1
    BY <1>1, <1>2, <1>3, <2>1, <2>2 DEF Failing, ErrorAnswer
  <2> QED BY <1>1, <1>5, <2>3 DEF Marked
<1> QED BY <1>2, <1>4, <1>5

\* The answer to an overwrite question is the verdict; there is none to take
\* when the question is asked.
LEMMA VerdictFacts ==
  ASSUME TypeOK, NEW t
  PROVE  /\ Verdict(t) = "ask" => owResp = "none"
         /\ overwrite /\ owResp # "none" => Verdict(t) = owResp
<1>1. owResp \in OverwriteAnswer \cup {"none"}
  BY CtlFacts
<1>2. CASE owResp = "none"
  BY <1>2 DEF Verdict, TaskOverwrite
<1>3. CASE owResp = "yesAll"
  BY <1>3 DEF Verdict, TaskOverwrite
<1>4. CASE owResp = "noAll"
  BY <1>4 DEF Verdict, TaskOverwrite
<1>5. CASE owResp = "yes"
  BY <1>5 DEF Verdict, TaskOverwrite
<1>6. CASE owResp = "no"
  BY <1>6 DEF Verdict, TaskOverwrite
<1> QED BY <1>1, <1>2, <1>3, <1>4, <1>5, <1>6 DEF OverwriteAnswer

LEMMA MarkedWork ==
  ASSUME TypeOK, KindsOK, Marked, Live, Work
  PROVE  Marked'
<1>1. /\ wcur # NoTask => WorkCurrent = wcur
      /\ Live' => ~(quit' /\ abort')
      /\ WorkMarks
  BY WorkMarkSteps DEF Live, WorkCurrent
<1>2. /\ asked.error \in Nat /\ asked.overwrite \in Nat /\ overwrite \in BOOLEAN
      /\ err["scan"] \in BOOLEAN /\ err["work"] \in BOOLEAN
      /\ err \in [Idler -> BOOLEAN] /\ "scan" \in Idler /\ "work" \in Idler
      /\ errResp \in ErrorAnswer \cup {"none"} /\ owResp \in OverwriteAnswer \cup {"none"}
  BY CtlFacts DEF Idler
<1>3. asked.error + asked.overwrite <= 1
  BY DEF Marked
<1>4. CASE overwrite
  <2>1. Asking /\ WorkCurrent = wcur /\ wcur # NoTask /\ wcur.act \in AsksFirst /\ ~cur.open
    BY <1>4, AskingFacts
  <2>2. ~GivesUp("work") /\ (Proceeds("work") => owResp # "none")
    BY <1>4 DEF GivesUp, Proceeds, Sleeps
  <2>3. CASE UNCHANGED <<err, errResp, asked, overwrite, owResp, cur>> /\ wcur' \in {wcur, WorkCurrent}
    <3>1. wcur' = wcur
      BY <2>1, <2>3
    <3>2. Asking'
      BY <2>1, <2>3, <3>1 DEF Asking
    <3> QED BY <1>3, <1>4, <2>3, <3>2 DEF Marked
  <2>4. CASE abort' /\ quit' /\ UNCHANGED asked
    BY <1>1, <1>3, <2>4 DEF Marked
  <2>5. CASE Proceeds("work") /\ TakesAnswer(wcur) /\ Cleared("work") /\ UNCHANGED asked
    <3>1. Consumed(wcur) /\ Verdict(wcur) = owResp
      BY <1>4, <2>1, <2>2, <2>5, VerdictFacts DEF TakesAnswer
    <3>2. ~overwrite' /\ owResp' \in {"none", "yesAll", "noAll"}
      BY <1>2, <3>1 DEF Consumed, OverwriteAnswer
    <3>3. ~err'["scan"] /\ ~err'["work"] /\ errResp' = errResp /\ asked' = asked
      BY <1>2, <1>4, <2>5 DEF Cleared, Marks, Response
    <3>4. asked.error = 0 /\ asked.overwrite = 0 /\ errResp \in {"none", "ignoreAll"}
      BY <1>2, <1>3, <2>1, <2>2, <2>5 DEF Asking
    <3>5. Failing'
      BY <3>2, <3>3, <3>4 DEF Failing
    <3> QED BY <1>3, <3>2, <3>3, <3>5 DEF Marked
  <2>6. CASE /\ Proceeds("work") /\ TakesAnswer(wcur) /\ SendsError("work", "error")
             /\ wcur' = wcur /\ wcur.act \in {"copy", "remove", "symlink", "rename"}
    <3>1. Consumed(wcur) /\ Verdict(wcur) = owResp
      BY <1>4, <2>1, <2>2, <2>6, VerdictFacts DEF TakesAnswer
    <3>2. ~overwrite' /\ owResp' \in {"none", "yesAll", "noAll"}
      BY <1>2, <3>1 DEF Consumed, OverwriteAnswer
    <3>3. ~Marks("work")["scan"] /\ Response("work") = errResp
      BY <1>4 DEF Marks, Response, Idler
    <3>4. /\ ~err'["scan"] /\ err'["work"] /\ errResp' = errResp
          /\ errResp = "ignoreAll" => asked' = asked
          /\ errResp # "ignoreAll" =>
               asked'.error = asked.error + 1 /\ asked'.overwrite = asked.overwrite
      BY <1>2, <2>6, <3>3, SentFacts
    <3>5. asked.error = 0 /\ asked.overwrite = 0 /\ errResp \in {"none", "ignoreAll"}
      BY <1>2, <1>3, <2>1, <2>2, <2>6 DEF Asking
    <3>6. Failing'
      BY <2>1, <2>6, <3>2, <3>4, <3>5 DEF Failing
    <3>7. asked'.error + asked'.overwrite <= 1
      BY <3>4, <3>5
    <3> QED BY <3>2, <3>6, <3>7 DEF Marked
  <2>7. ~(Proceeds("work") /\ Verdict(wcur) = "ask")
    BY <1>4, <2>2, VerdictFacts
  <2> QED BY <1>1, <2>1, <2>2, <2>3, <2>4, <2>5, <2>6, <2>7, WorkMarkSteps DEF WorkMarks
<1>5. CASE ~overwrite
  <2>1. Failing
    BY <1>5 DEF Marked
  <2>2. CASE UNCHANGED <<err, errResp, asked, overwrite, owResp, cur>> /\ wcur' \in {wcur, WorkCurrent}
    <3>1. err["work"] => wcur' = wcur
      BY <1>1, <2>1, <2>2 DEF Failing
    <3>2. Failing'
      BY <1>2, <2>1, <2>2, <3>1 DEF Failing
    <3> QED BY <1>3, <1>5, <2>2, <3>2 DEF Marked
  <2>3. CASE abort' /\ quit' /\ UNCHANGED asked
    BY <1>1, <1>3, <2>3 DEF Marked
  <2>4. Proceeds("work") /\ ~ToldToAbort("work") =>
          /\ err["work"] => errResp = "retry" /\ Response("work") = "none"
          /\ ~err["work"] => ~err["scan"] /\ Response("work") = errResp
    BY <1>2, <1>5 DEF Response, Proceeds, Sleeps, GivesUp, Held, ToldToAbort, ErrorAnswer
  <2>5. Marks("work")["scan"] = err["scan"] /\ ~Marks("work")["work"]
    BY <1>2, <1>5 DEF Marks
  <2>6. CASE \/ /\ GivesUp("work") /\ err' = [err EXCEPT !["work"] = FALSE]
                /\ errResp' = (IF errResp = "ignoreAll" THEN errResp ELSE "none")
                /\ UNCHANGED <<asked, overwrite, owResp>>
             \/ /\ Proceeds("work") /\ ~ToldToAbort("work") /\ TakesAnswer(WorkCurrent)
                /\ Cleared("work") /\ UNCHANGED asked
    <3>1. ~overwrite' /\ owResp' \in {owResp, "none"} /\ asked' = asked
      BY <1>5, <2>6 DEF TakesAnswer, Consumed
    <3>2. /\ ~err'["scan"] /\ ~err'["work"]
          /\ asked.error = 0 /\ errResp' \in {"none", "ignoreAll"}
      <4>1. CASE /\ GivesUp("work") /\ err' = [err EXCEPT !["work"] = FALSE]
                 /\ errResp' = (IF errResp = "ignoreAll" THEN errResp ELSE "none")
        <5>1. err["work"] /\ errResp \in {"ignore", "ignoreAll"}
          BY <4>1 DEF GivesUp
        <5> QED BY <1>2, <1>3, <2>1, <4>1, <5>1 DEF Failing
      <4>2. CASE Proceeds("work") /\ ~ToldToAbort("work") /\ Cleared("work")
        BY <1>2, <1>3, <2>1, <2>4, <2>5, <4>2 DEF Cleared, Failing, ErrorAnswer
      <4> QED BY <2>6, <4>1, <4>2
    <3>3. Failing'
      BY <1>2, <1>3, <2>1, <3>1, <3>2 DEF Failing
    <3> QED BY <1>3, <3>1, <3>3 DEF Marked
  <2>7. CASE /\ Proceeds("work") /\ ~ToldToAbort("work")
             /\ Verdict(WorkCurrent) = "ask" /\ WorkCurrent.act \in AsksFirst /\ ~cur.open
             /\ overwrite' = TRUE /\ UNCHANGED owResp /\ WorkCurrent # NoTask
             /\ SendsError("work", "overwrite") /\ wcur' = WorkCurrent /\ ~cur'.open
    <3>1. /\ ~err'["scan"] /\ errResp' = Response("work")
          /\ Response("work") = "ignoreAll" => asked' = asked
          /\ Response("work") # "ignoreAll" =>
               asked'.error = asked.error /\ asked'.overwrite = asked.overwrite + 1
      <4>1. ~err["scan"]
        BY <2>1, <2>4, <2>7 DEF Failing
      <4>2. "scan" # "work" /\ "error" # "overwrite"
        OBVIOUS
      <4> QED BY <1>2, <2>5, <2>7, <4>1, <4>2, SentFacts
    <3>2. /\ asked.error = 0 /\ asked.overwrite = 0 /\ owResp' = "none"
          /\ Response("work") \in {"none", "ignoreAll"}
      BY <1>2, <1>3, <2>1, <2>4, <2>7, VerdictFacts DEF Failing, ErrorAnswer
    <3>3. Asking'
      BY <2>7, <3>1, <3>2 DEF Asking
    <3>4. asked'.error + asked'.overwrite <= 1
      BY <3>1, <3>2
    <3> QED BY <2>7, <3>3, <3>4 DEF Marked
  <2>8. CASE /\ Proceeds("work") /\ ~ToldToAbort("work") /\ TakesAnswer(WorkCurrent)
             /\ SendsError("work", "error") /\ wcur' = WorkCurrent /\ WorkCurrent # NoTask
             /\ WorkCurrent.act \in {"copy", "remove", "symlink", "rename"}
    <3>1. /\ ~err'["scan"] /\ err'["work"] /\ errResp' = Response("work")
          /\ Response("work") = "ignoreAll" => asked' = asked
          /\ Response("work") # "ignoreAll" =>
               asked'.error = asked.error + 1 /\ asked'.overwrite = asked.overwrite
      <4>1. ~err["scan"]
        BY <2>1, <2>4, <2>8 DEF Failing
      <4> QED BY <1>2, <2>5, <2>8, <4>1, SentFacts
    <3>2. asked.error = 0 /\ asked.overwrite = 0 /\ Response("work") \in {"none", "ignoreAll"}
      BY <1>2, <1>3, <2>1, <2>4, <2>8 DEF Failing, ErrorAnswer
    <3>3. ~overwrite' /\ owResp' \in {owResp, "none"}
      BY <1>5, <2>8 DEF TakesAnswer, Consumed
    <3>4. Failing'
      BY <2>1, <2>8, <3>1, <3>2, <3>3 DEF Failing
    <3>5. asked'.error + asked'.overwrite <= 1
      BY <3>1, <3>2
    <3> QED BY <3>3, <3>4, <3>5 DEF Marked
  <2> QED BY <2>2, <2>3, <2>6, <2>7, <2>8, WorkMarkSteps DEF WorkMarks
<1> QED BY <1>2, <1>4, <1>5

\* After an abort nothing is asked any more.
LEMMA MarkedEnding ==
  ASSUME TypeOK, Marked, ~Live, Scan \/ Work
  PROVE  Marked'
<1>1. ~Live' /\ abort
  BY ScanSteps, WorkSteps, Turned DEF ScanStep, WorkStep, Live
<1>2. asked' = asked
  BY <1>1, ScanMarkSteps, WorkMarkSteps DEF ScanMarks, WorkMarks
<1> QED BY <1>1, <1>2 DEF Marked

LEMMA MarkedUser ==
  ASSUME TypeOK, Marked, User
  PROVE  Marked'
<1>1. /\ UNCHANGED <<err, overwrite, wcur, cur, quit, left>> /\ Live /\ ~quit
  BY DEF User, AnswerError, AnswerOverwrite, AbortArrives, Reads, Live, workVars, passVars
<1>2. /\ asked.error \in Nat /\ asked.overwrite \in Nat /\ overwrite \in BOOLEAN
      /\ err["scan"] \in BOOLEAN /\ err["work"] \in BOOLEAN
      /\ asked \in [{"error", "overwrite"} -> Nat]
  BY CtlFacts
<1>3. asked.error + asked.overwrite <= 1 /\ IF overwrite THEN Asking ELSE Failing
  BY <1>1 DEF Marked
<1>4. CASE AnswerError
  <2>1. /\ asked'.error = asked.error - 1 /\ asked'.overwrite = asked.overwrite /\ asked.error > 0
        /\ owResp' = owResp /\ errResp' \in {"retry", "ignore", "ignoreAll", "abort"}
    BY <1>2, <1>4, UserAssumption DEF AnswerError, ErrorAnswer
  <2>2. ~overwrite /\ Failing
    BY <1>2, <1>3, <2>1 DEF Asking
  <2>3. asked.error = 1 /\ asked.overwrite = 0
    BY <1>2, <1>3, <2>1
  <2>4. Failing'
    BY <1>1, <2>1, <2>2, <2>3 DEF Failing
  <2> QED BY <1>1, <2>1, <2>2, <2>3, <2>4 DEF Marked
<1>5. CASE AnswerOverwrite
  <2>1. /\ asked'.overwrite = asked.overwrite - 1 /\ asked'.error = asked.error /\ asked.overwrite > 0
        /\ errResp' = errResp /\ owResp' # "none"
    BY <1>2, <1>5, UserAssumption DEF AnswerOverwrite, OverwriteAnswer
  <2>2. overwrite /\ Asking
    BY <1>2, <1>3, <2>1 DEF Failing
  <2>3. asked.overwrite = 1 /\ asked.error = 0
    BY <1>2, <1>3, <2>1
  <2>4. Asking'
    BY <1>1, <2>1, <2>2, <2>3 DEF Asking
  <2> QED BY <1>1, <2>1, <2>2, <2>3, <2>4 DEF Marked
<1>6. CASE AbortArrives
  <2>1. UNCHANGED <<err, overwrite, wcur, cur, asked, errResp, owResp>>
    BY <1>6 DEF AbortArrives, workVars, askVars
  <2>2. (overwrite => Asking') /\ (~overwrite => Failing')
    BY <1>3, <2>1 DEF Asking, Failing
  <2> QED BY <1>2, <1>3, <2>1, <2>2 DEF Marked
<1> QED BY <1>4, <1>5, <1>6 DEF User

\* In main() nobody asks, but for the error main() itself ends with.
LEMMA MarkedMain ==
  ASSUME TypeOK, Before, Main
  PROVE  Marked'
<1>1. /\ asked.error = 0 /\ asked.overwrite = 0 /\ ~overwrite /\ owResp = "none"
      /\ ~err["scan"] /\ ~err["work"] /\ errResp = "none" /\ left = <<>>
  <2>1. ~looping
    BY DEF Main, MainLinks, MainRenames, MainGivesUp, MainQueues, MainLoops
  <2> QED BY <2>1 DEF Before, Idler
<1>2. CASE MainGivesUp
  <2>1. quit' /\ left' = <<>> /\ asked' = [asked EXCEPT !.error = @ + 1]
    BY <1>1, <1>2 DEF MainGivesUp
  <2>2. asked'.error = 1 /\ asked'.overwrite = 0
    BY <1>1, <2>1, CtlFacts
  <2> QED BY <2>1, <2>2 DEF Marked, Live
<1>3. CASE MainLinks \/ MainRenames \/ MainQueues \/ MainLoops
  <2>1. /\ asked' = asked /\ overwrite' = overwrite /\ owResp' = owResp /\ err' = err
        /\ errResp' = errResp
    BY <1>3 DEF MainLinks, MainRenames, MainQueues, MainLoops, ctlVars, askVars
  <2>2. Failing'
    BY <1>1, <2>1 DEF Failing
  <2> QED BY <1>1, <2>1, <2>2 DEF Marked
<1> QED BY <1>2, <1>3 DEF Main

-----------------------------------------------------------------------------
(* Who sleeps.                                                             *)

\* The idler that is unregistered, and whether the scan queue moves.
LEMMA ScanIdler ==
  ASSUME TypeOK, Scan
  PROVE  /\ idlers' = idlers \/ idlers' = Without(idlers, "scan")
         /\ \/ ScanCurrent = NoTask /\ scanq' = scanq
            \/ ScanCurrent # NoTask /\ Sleeps("scan") /\ scanq' = scanq
            \/ ScanCurrent # NoTask /\ ~Sleeps("scan") /\ idlers' = idlers
<1>1. CASE ScanEmpty \/ ScanSleeps
  BY <1>1 DEF ScanEmpty, ScanSleeps, scanVars
<1>2. Proceeds("scan") => ~Sleeps("scan")
  BY DEF Proceeds
<1>3. CASE ScanHeld \/ ScanAborts
  BY <1>2, <1>3 DEF ScanHeld, ScanAborts, Held
<1>4. CASE ScanGivesUp
  <2>1. ~Sleeps("scan")
    BY <1>4 DEF ScanGivesUp, GivesUp, Sleeps
  <2> QED BY <1>4, <2>1 DEF ScanGivesUp
<1>5. CASE ScanFails \/ ScanOpens \/ ScanChild \/ ScanDirRead \/ ScanPushes
  BY <1>2, <1>5 DEF ScanFails, ScanOpens, ScanChild, ScanDirRead, ScanPushes, Scans
<1> QED BY <1>1, <1>3, <1>4, <1>5 DEF Scan

LEMMA WorkIdler ==
  ASSUME TypeOK, Work
  PROVE  \/ idlers' = idlers
         \/ /\ idlers' = Without(idlers, "work") /\ Sleeps("work")
            /\ UNCHANGED <<err, errResp, overwrite, owResp>>
<1>1. CASE WorkSleeps
  BY <1>1 DEF WorkSleeps, ctlVars
<1>2. CASE WorkDropsSeparator \/ WorkFindsNothing \/ WorkHeld \/ WorkGivesUp \/ WorkAborts
  BY <1>2 DEF WorkDropsSeparator, WorkFindsNothing, WorkHeld, WorkGivesUp, WorkAborts
<1>3. CASE \/ WorkAsks \/ WorkDeclines \/ WorkCopiesAtOnce \/ WorkOpens \/ WorkCopiesNothing
           \/ WorkCopiesChunk \/ WorkReachesEof \/ WorkFails
  BY <1>3 DEF Works, WorkAsks, WorkDeclines, WorkCopiesAtOnce, WorkOpens, WorkCopiesNothing,
              WorkCopiesChunk, WorkReachesEof, WorkFails
<1>4. CASE WorkStats \/ WorkRemoves \/ WorkSymlinks \/ WorkRenames \/ WorkWipes \/ WorkWipesNothing
  BY <1>4 DEF Works, WorkStats, WorkRemoves, WorkSymlinks, WorkRenames, WorkWipes, WorkWipesNothing
<1> QED BY <1>1, <1>2, <1>3, <1>4 DEF Work

\* Who is registered after an idler was deleted or both were set up.
LEMMA RegisteredFacts ==
  ASSUME TypeOK
  PROVE  /\ \A e \in Idler : Registered(e) <=> Has(idlers, {e})
         /\ \A e, f \in Idler : e # f =>
              (Has(Without(idlers, f), {e}) <=> Has(idlers, {e}))
         /\ \A e \in Idler : Has(WithIdlers(idlers), {e})
<1>1. idlers \in Seq(Idler) /\ "scan" \in Idler /\ "work" \in Idler
  BY DEF TypeOK, PassOK, Idler
<1>2. \A e \in Idler : Registered(e) <=> Has(idlers, {e})
  BY DEF Registered, Has
<1>3. \A e, f \in Idler : e # f => (Has(Without(idlers, f), {e}) <=> Has(idlers, {e}))
  BY <1>1, HasWithout
<1>4. \A e \in Idler : Has(WithIdlers(idlers), {e})
  <2> DEFINE s == IF Has(idlers, {"scan"}) THEN idlers ELSE Append(idlers, "scan")
  <2>1. s \in Seq(Idler) /\ Has(s, {"scan"})
    BY <1>1, HasAppend
  <2>2. WithIdlers(idlers) = IF Has(s, {"work"}) THEN s ELSE Append(s, "work")
    BY DEF WithIdlers, Has
  <2> HIDE DEF s
  <2>3. Has(WithIdlers(idlers), {"scan"}) /\ Has(WithIdlers(idlers), {"work"})
    BY <1>1, <2>1, <2>2, HasAppend
  <2> QED BY <2>3 DEF Idler
<1> QED BY <1>2, <1>3, <1>4

\* Only the work idler ends its own waiting, an answer apart.
LEMMA WorkWaits ==
  ASSUME TypeOK, KindsOK, Marked, Live, Live', Sleeps("work"), Scan \/ Work
  PROVE  /\ UNCHANGED <<err, errResp, overwrite, owResp>>
         /\ scanq' = scanq \/ ~overwrite
<1>1. /\ wcur # NoTask => WorkCurrent = wcur
      /\ Live' => ~(quit' /\ abort')
      /\ err \in [Idler -> BOOLEAN] /\ err["scan"] \in BOOLEAN /\ err["work"] \in BOOLEAN
  BY CtlFacts DEF Live, WorkCurrent
<1>2. ~Proceeds("work") /\ ~GivesUp("work")
  BY DEF Proceeds, Sleeps, GivesUp
<1>3. CASE Work
  <2>1. UNCHANGED <<err, errResp, overwrite, owResp>>
    BY <1>1, <1>2, <1>3, WorkMarkSteps DEF WorkMarks
  <2> QED BY <1>3, <2>1, WorkSteps DEF WorkStep
<1>4. CASE Scan
  <2>1. UNCHANGED <<overwrite, owResp>>
    BY <1>4, ScanSteps DEF ScanStep
  <2>2. CASE overwrite
    <3>1. Sleeps("scan") /\ ~GivesUp("scan") /\ ~Proceeds("scan")
      BY <2>2 DEF Sleeps, GivesUp, Proceeds
    <3>2. UNCHANGED <<err, errResp>>
      BY <1>1, <1>4, <3>1, ScanMarkSteps DEF ScanMarks
    <3> QED BY <1>4, <2>1, <3>1, <3>2, ScanIdler
  <2>3. CASE ~overwrite
    <3>1. err["work"] /\ ~err["scan"]
      BY <2>3 DEF Sleeps, Marked, Failing
    <3>2. ~GivesUp("scan") /\ ~Proceeds("scan")
      BY <1>1, <2>3, <3>1 DEF Sleeps, GivesUp, Proceeds, Held, Idler
    <3>3. UNCHANGED <<err, errResp>>
      BY <1>1, <1>4, <3>2, ScanMarkSteps DEF ScanMarks
    <3> QED BY <2>1, <2>3, <3>3
  <2> QED BY <2>2, <2>3
<1> QED BY <1>3, <1>4

LEMMA SleepingIdlers ==
  ASSUME TypeOK, KindsOK, Marked, Sleeping, Scan \/ Work
  PROVE  Sleeping'
<1>1. /\ looping /\ looping' = looping /\ (quit => quit') /\ (Live' => Live)
  BY ScanSteps, WorkSteps, Turned DEF ScanStep, WorkStep, mainVars
<1>2. errResp' \in {errResp, "none"}
  <2>1. CASE Scan
    BY <2>1, ScanMarkSteps DEF ScanMarks, Cleared, SendsError, Response
  <2>2. CASE Work
    BY <2>2, WorkMarkSteps DEF WorkMarks, Cleared, SendsError, Response
  <2> QED BY <2>1, <2>2
<1>3. ASSUME Live', ~quit', ~Registered("work")'
      PROVE  Sleeps("work")'
  <2>1. idlers' = idlers \/ idlers' = Without(idlers, "scan")
        \/ (Sleeps("work") /\ UNCHANGED <<err, errResp, overwrite, owResp>>)
    BY ScanIdler, WorkIdler
  <2>2. CASE idlers' = idlers \/ idlers' = Without(idlers, "scan")
    <3>1. Registered("work")' <=> Has(idlers', {"work"})
      BY DEF Registered, Has
    <3>2. ~Registered("work")
      BY <1>3, <2>2, <3>1, RegisteredFacts DEF Idler
    <3>3. Sleeps("work")
      BY <1>1, <1>3, <3>2 DEF Sleeping
    <3>4. UNCHANGED <<err, errResp, overwrite, owResp>>
      BY <1>1, <1>3, <3>3, WorkWaits
    <3> QED BY <3>3, <3>4 DEF Sleeps
  <2> QED BY <2>1, <2>2 DEF Sleeps
<1> QED BY <1>1, <1>2, <1>3 DEF Sleeping

LEMMA SleepingUser ==
  ASSUME TypeOK, Sleeping, User
  PROVE  Sleeping'
<1>1. CASE AbortArrives
  <2>1. /\ UNCHANGED <<looping, idlers, left, quit, err, errResp, overwrite, owResp>>
        /\ left = <<>> /\ ~quit
    BY <1>1 DEF AbortArrives, Reads, mainVars, passVars
  <2>2. Live
    BY <2>1 DEF Live
  <2> QED BY <2>1, <2>2 DEF Sleeping, Registered, Sleeps
<1>2. CASE AnswerError \/ AnswerOverwrite
  <2>1. idlers' = WithIdlers(idlers) /\ errResp' \in {errResp} \cup ErrorAnswers
    BY <1>2 DEF AnswerError, AnswerOverwrite
  <2>2. Registered("work")'
    BY <2>1, RegisteredFacts DEF Registered, Has, Idler
  <2> QED BY <2>1, <2>2 DEF Sleeping
<1> QED BY <1>1, <1>2 DEF User

LEMMA SleepingMain ==
  ASSUME TypeOK, Before, Main
  PROVE  Sleeping'
<1>1. errResp = "none" /\ errResp' = errResp /\ ~looping
  <2>1. ~looping /\ errResp' = errResp
    BY DEF Main, MainLinks, MainRenames, MainGivesUp, MainQueues, MainLoops, ctlVars
  <2> QED BY <2>1 DEF Before
<1>2. looping' /\ ~quit' => idlers' = <<"scan", "work">>
  <2>1. CASE MainLinks
    <3>1. toDir \in BOOLEAN
      BY ArgsAssumption DEF TypeOK, MainOK
    <3> QED BY <2>1, <3>1 DEF MainLinks
  <2>2. CASE MainRenames \/ MainGivesUp \/ MainQueues \/ MainLoops
    BY <1>1, <2>2 DEF MainRenames, MainGivesUp, MainQueues, MainLoops
  <2> QED BY <2>1, <2>2 DEF Main
<1>3. looping' /\ ~quit' => Registered("work")'
  <2> SUFFICES ASSUME looping', ~quit' PROVE Registered("work")'
    OBVIOUS
  <2> DEFINE q == <<"scan", "work">>
  <2>1. Len(q) = 2 /\ q[2] = "work" /\ 2 \in 1..2
    OBVIOUS
  <2>2. idlers' = q
    BY <1>2
  <2> HIDE DEF q
  <2> QED BY <2>1, <2>2 DEF Registered
<1> QED BY <1>1, <1>3 DEF Sleeping

-----------------------------------------------------------------------------
(* The scan idler, and the separator, when no scan fails.                  *)

LEMMA ScannedIdlers ==
  ASSUME TypeOK, KindsOK, Marked, Scanned, Apart, ScanSucceeds, Scan \/ Work
  PROVE  Scanned'
<1> SUFFICES ASSUME Live'
             PROVE  /\ ~err'["scan"]
                    /\ looping' /\ ~Registered("scan")' /\ scanq' # <<>> => overwrite' /\ owResp' = "none"
  BY DEF Scanned
<1>1. /\ looping /\ Live /\ ~err["scan"] /\ ~ScanFails /\ ~(abort' /\ quit')
      /\ err \in [Idler -> BOOLEAN] /\ "scan" \in Idler /\ "work" \in Idler
      /\ Registered("scan") \/ scanq = <<>> \/ (overwrite /\ owResp = "none")
  <2>1. looping /\ Live
    BY ScanSteps, WorkSteps, Turned DEF ScanStep, WorkStep
  <2> QED BY <2>1, NoScanFails, CtlFacts DEF Scanned, Live, Idler
<1>2. ~err'["scan"]
  <2>1. CASE Scan
    <3>1. \/ err' = err \/ err' = [err EXCEPT !["scan"] = FALSE]
          \/ Cleared("scan")
      BY <1>1, <2>1, ScanMarkSteps DEF ScanMarks
    <3> QED BY <1>1, <3>1 DEF Cleared, Marks
  <2>2. CASE Work
    <3>1. \/ err' = err \/ err' = [err EXCEPT !["work"] = FALSE]
          \/ Cleared("work") \/ SendsError("work", "overwrite") \/ SendsError("work", "error")
      BY <1>1, <2>2, WorkMarkSteps DEF WorkMarks
    <3>2. Marks("work") \in [Idler -> BOOLEAN] /\ ~Marks("work")["scan"]
      BY <1>1 DEF Marks
    <3> QED BY <1>1, <3>1, <3>2 DEF Cleared, SendsError
  <2> QED BY <2>1, <2>2
<1>3. ASSUME looping', ~Registered("scan")', scanq' # <<>>
      PROVE  overwrite' /\ owResp' = "none"
  <2>1. overwrite /\ owResp = "none"
    <3>1. Registered("scan")' <=> Has(idlers', {"scan"})
      BY DEF Registered, Has
    <3>2. CASE Work
      <4>1. idlers' \in {idlers, Without(idlers, "work")} /\ scanq' = scanq
        BY <3>2, WorkIdler, WorkSteps DEF WorkStep
      <4>2. ~Registered("scan")
        BY <1>1, <1>3, <3>1, <4>1, RegisteredFacts
      <4> QED BY <1>1, <1>3, <4>1, <4>2
    <3>3. CASE Scan
      <4>1. ScanCurrent = NoTask => scanq = <<>>
        <5>1. scanq # <<>> => Head(scanq) \in ScanTask
          BY HeadTailProperties DEF TypeOK, ScanOK
        <5> QED BY <5>1, NoTaskAssumption DEF ScanCurrent
      <4>2. Sleeps("scan") => overwrite /\ owResp = "none"
        BY <1>1 DEF Sleeps
      <4>3. CASE ScanCurrent # NoTask /\ ~Sleeps("scan") /\ idlers' = idlers
        <5>1. ~Registered("scan")
          BY <1>1, <1>3, <3>1, <4>3, RegisteredFacts
        <5>2. scanq # <<>>
          BY <4>3, KindTasks
        <5> QED BY <1>1, <5>1, <5>2
      <4> QED BY <1>3, <3>3, <4>1, <4>2, <4>3, ScanIdler
    <3> QED BY <3>2, <3>3
  <2>2. Sleeps("work")
    BY <2>1 DEF Sleeps
  <2>3. UNCHANGED <<overwrite, owResp>>
    BY <1>1, <2>2, WorkWaits
  <2> QED BY <2>1, <2>3
<1> QED BY <1>2, <1>3

LEMMA ScannedUser ==
  ASSUME TypeOK, Scanned, User
  PROVE  Scanned'
<1>1. /\ UNCHANGED <<err, scanq, looping, quit, left, overwrite>> /\ Live
  BY DEF User, AnswerError, AnswerOverwrite, AbortArrives, Reads, Live, mainVars, scanVars, passVars
<1>2. CASE AbortArrives
  <2>1. UNCHANGED <<owResp, idlers>>
    BY <1>2 DEF AbortArrives, passVars
  <2> QED BY <1>1, <2>1 DEF Scanned, Registered
<1>3. CASE AnswerError \/ AnswerOverwrite
  <2>1. idlers' = WithIdlers(idlers)
    BY <1>3 DEF AnswerError, AnswerOverwrite
  <2>2. Registered("scan")'
    BY <2>1, RegisteredFacts DEF Registered, Has, Idler
  <2> QED BY <1>1, <2>2 DEF Scanned
<1> QED BY <1>2, <1>3 DEF User

LEMMA ScannedMain ==
  ASSUME TypeOK, Before, Main
  PROVE  Scanned'
<1>1. ~looping /\ ~err["scan"] /\ left = <<>> /\ left' = left
  <2>1. ~looping /\ left' = left
    BY DEF Main, MainLinks, MainRenames, MainGivesUp, MainQueues, MainLoops, passVars
  <2> QED BY <2>1 DEF Before, Idler
<1>2. CASE MainGivesUp
  BY <1>1, <1>2 DEF MainGivesUp, Scanned, Live
<1>3. CASE MainLinks
  <2>1. toDir \in BOOLEAN
    BY ArgsAssumption DEF TypeOK, MainOK
  <2>2. err' = err /\ (looping' => quit')
    BY <1>3, <2>1 DEF MainLinks, ctlVars
  <2> QED BY <1>1, <2>2 DEF Scanned, Live
<1>4. CASE MainRenames \/ MainQueues
  <2>1. err' = err /\ looping' = looping
    BY <1>4 DEF MainRenames, MainQueues, ctlVars
  <2> QED BY <1>1, <2>1 DEF Scanned
<1>5. CASE MainLoops
  <2> DEFINE q == <<"scan", "work">>
  <2>1. err' = err /\ idlers' = q
    BY <1>5 DEF MainLoops, ctlVars
  <2>2. Len(q) = 2 /\ q[1] = "scan" /\ 1 \in 1..2
    OBVIOUS
  <2> HIDE DEF q
  <2>3. Registered("scan")'
    BY <2>1, <2>2 DEF Registered
  <2> QED BY <1>1, <2>1, <2>3 DEF Scanned
<1> QED BY <1>2, <1>3, <1>4, <1>5 DEF Main

\* The task the work idler turns to: a remove only behind the separator.
LEMMA CurrentOrdered ==
  ASSUME TypeOK, KindsOK, Ordered, Live, op # "remove", WorkCurrent # NoTask
  PROVE  /\ WorkCurrent.act = "remove" => sep = "freed" /\ scanq = <<>> /\ front = <<>>
         /\ WorkCurrent.act \in FrontActs(op) \ BackActs(op) => Has(front, {WorkCurrent})
<1>1. CASE wcur # NoTask
  BY <1>1 DEF Ordered, WorkCurrent
<1>2. CASE wcur = NoTask /\ front # <<>>
  <2>1. Has(front, {WorkCurrent}) /\ WorkCurrent \in FrontOf(op)
    BY <1>2, KindTasks
  <2> QED BY <2>1, KindFacts DEF FrontOf, FrontActs, Moves, OpType
<1>3. CASE wcur = NoTask /\ front = <<>>
  <2>1. sep # "live" /\ Has(back, {WorkCurrent}) /\ WorkCurrent \in BackOf(op) /\ back \in Seq(BackOf(op))
    BY <1>3, KindTasks DEF KindsOK
  <2>2. WorkCurrent.act \in BackActs(op) /\ WorkCurrent \in WorkTask
    BY <2>1, KindFacts DEF BackOf
  <2>3. WorkCurrent.act = "remove" => WorkCurrent \in [act: {"remove"}, node: Node]
    BY <2>2 DEF WorkTask
  <2>4. WorkCurrent.act = "remove" => Has(back, [act: {"remove"}, node: Node])
    BY <2>1, <2>3, HasOne
  <2> QED BY <2>1, <2>2, <2>4 DEF Ordered, TypeOK, WorkOK
<1> QED BY <1>1, <1>2, <1>3

\* What a step of the work idler does to the separator.
LEMMA WorkSeparator ==
  ASSUME TypeOK, Work
  PROVE  \/ sep' = sep
         \/ /\ sep' = "freed" /\ WorkCurrent = NoTask /\ front = <<>> /\ ~Registered("scan")
            /\ UNCHANGED <<front, back, wcur>>
<1> USE DEF Works, Finishes, Dequeues, Stays
<1>1. CASE WorkDropsSeparator
  BY <1>1 DEF WorkDropsSeparator
<1>2. CASE WorkFindsNothing \/ WorkSleeps \/ WorkHeld \/ WorkGivesUp \/ WorkAborts
  BY <1>2 DEF WorkFindsNothing, WorkSleeps, WorkHeld, WorkGivesUp, WorkAborts, workVars
<1>3. CASE \/ WorkAsks \/ WorkDeclines \/ WorkCopiesAtOnce \/ WorkOpens \/ WorkCopiesNothing
           \/ WorkCopiesChunk \/ WorkReachesEof \/ WorkFails
  BY <1>3 DEF WorkAsks, WorkDeclines, WorkCopiesAtOnce, WorkOpens, WorkCopiesNothing,
              WorkCopiesChunk, WorkReachesEof, WorkFails
<1>4. CASE WorkStats \/ WorkRemoves \/ WorkSymlinks \/ WorkRenames \/ WorkWipes \/ WorkWipesNothing
  BY <1>4 DEF WorkStats, WorkRemoves, WorkSymlinks, WorkRenames, WorkWipes, WorkWipesNothing
<1> QED BY <1>1, <1>2, <1>3, <1>4 DEF Work

RemoveTask == [act: {"remove"}, node: Node]

LEMMA OrderedWork ==
  ASSUME TypeOK, KindsOK, Marked, Scanned, Ordered, op # "remove", Work
  PROVE  Ordered'
<1> SUFFICES ASSUME Live'
             PROVE  /\ sep' = "none" => ~Has(back', RemoveTask)
                    /\ wcur' # NoTask /\ wcur'.act = "remove" => sep' = "freed"
                    /\ wcur' # NoTask /\ wcur'.act \in FrontActs(op) \ BackActs(op) => Has(front', {wcur'})
                    /\ sep' = "freed" => scanq' = <<>> /\ front' = <<>>
  BY WorkSteps DEF Ordered, RemoveTask, WorkStep, mainVars, argVars
<1>1. /\ Live /\ looping /\ scanq' = scanq /\ WorkQueues
      /\ front \in Seq(FrontOf(op)) /\ back \in Seq(BackOf(op))
  BY WorkSteps, Turned DEF WorkStep, KindsOK
<1>2. /\ sep = "none" => ~Has(back, RemoveTask)
      /\ wcur # NoTask /\ wcur.act = "remove" => sep = "freed"
      /\ wcur # NoTask /\ wcur.act \in FrontActs(op) \ BackActs(op) => Has(front, {wcur})
      /\ sep = "freed" => scanq = <<>> /\ front = <<>>
  BY <1>1 DEF Ordered, RemoveTask
<1>3. CASE sep' = sep
  <2>1. /\ Has(Unlinked(WorkCurrent), RemoveTask) => Has(back, RemoveTask)
        /\ Unlinked(WorkCurrent) \in Seq(BackOf(op))
    BY <1>1, HasWithout, WithoutType DEF Unlinked
  <2>2. Has(back', RemoveTask) => Has(back, RemoveTask)
    BY <1>1, <2>1, HasWithout DEF WorkQueues
  <2>3. front = <<>> => front' = <<>>
    <3>1. Without(<<>>, WorkCurrent) = <<>>
      BY DEF Without
    <3> QED BY <1>1, <3>1 DEF WorkQueues
  <2>4. CASE wcur' = NoTask
    BY <1>1, <1>2, <1>3, <2>2, <2>3, <2>4
  <2>5. CASE wcur' # NoTask
    <3>1. front' = front /\ wcur' \in {wcur, WorkCurrent}
      BY <2>5, <1>1 DEF WorkQueues
    <3>2. /\ wcur'.act = "remove" => sep = "freed"
          /\ wcur'.act \in FrontActs(op) \ BackActs(op) => Has(front, {wcur'})
      <4>1. CASE wcur' = wcur
        BY <1>2, <2>5, <4>1
      <4>2. CASE wcur' = WorkCurrent
        BY <1>1, <2>5, <4>2, CurrentOrdered
      <4> QED BY <3>1, <4>1, <4>2
    <3> QED BY <1>1, <1>2, <1>3, <2>2, <2>3, <3>1, <3>2
  <2> QED BY <2>4, <2>5
<1>4. CASE /\ sep' = "freed" /\ WorkCurrent = NoTask /\ front = <<>> /\ ~Registered("scan")
           /\ UNCHANGED <<front, back, wcur>>
  <2>1. wcur = NoTask
    BY <1>4 DEF WorkCurrent
  <2>2. ~overwrite
    BY <1>1, <2>1 DEF Marked, Asking
  <2>3. scanq = <<>>
    BY <1>1, <1>4, <2>2 DEF Scanned
  <2> QED BY <1>1, <1>4, <2>1, <2>3
<1> QED BY <1>3, <1>4, WorkSeparator

LEMMA OrderedScan ==
  ASSUME TypeOK, KindsOK, Ordered, op # "remove", Scan
  PROVE  Ordered'
<1> SUFFICES ASSUME Live'
             PROVE  /\ sep' = "none" => ~Has(back', RemoveTask)
                    /\ wcur' # NoTask /\ wcur'.act = "remove" => sep' = "freed"
                    /\ wcur' # NoTask /\ wcur'.act \in FrontActs(op) \ BackActs(op) => Has(front', {wcur'})
                    /\ sep' = "freed" => scanq' = <<>> /\ front' = <<>>
  BY ScanSteps DEF Ordered, RemoveTask, ScanStep, mainVars, argVars
<1>1. /\ Live /\ sep' = sep /\ wcur' = wcur /\ ScanQueues
      /\ scanq \in Seq(ScanOf(op)) /\ front \in Seq(FrontOf(op)) /\ back \in Seq(BackOf(op))
      /\ ScanCurrent \in ScanOf(op) \cup {NoTask} /\ NoTask \notin ScanTask
  BY ScanSteps, Turned, KindTasks, NoTaskAssumption DEF ScanStep, KindsOK
<1>2. /\ sep = "none" => ~Has(back, RemoveTask)
      /\ wcur # NoTask /\ wcur.act = "remove" => sep = "freed"
      /\ wcur # NoTask /\ wcur.act \in FrontActs(op) \ BackActs(op) => Has(front, {wcur})
      /\ sep = "freed" => scanq = <<>> /\ front = <<>>
  BY <1>1 DEF Ordered, RemoveTask
<1>3. ScanCurrent = NoTask => UNCHANGED <<scanq, front, back>>
  BY <1>1 DEF ScanQueues
<1>4. scanq = <<>> => ScanCurrent = NoTask
  BY KindTasks
<1>5. /\ \A X : Has(front, X) => Has(front', X)
      /\ sep = "none" => (Has(back', RemoveTask) => Has(back, RemoveTask))
  <2>1. CASE UNCHANGED <<front, back>>
    BY <2>1
  <2>2. ASSUME NEW t \in ScanTask, t = ScanCurrent, Pushes(t)
        PROVE  /\ \A X : Has(front, X) => Has(front', X)
               /\ sep = "none" => (Has(back', RemoveTask) => Has(back, RemoveTask))
    <3> DEFINE u(k) == [act |-> k, node |-> t.node]
    <3>1. CASE t.act \in {"copy", "stat"}
      <4>1. front' = front /\ back' = Append(back, u(t.act))
        BY <2>2, <3>1 DEF Pushes
      <4>2. u(t.act) \notin RemoveTask
        BY <3>1 DEF RemoveTask
      <4> HIDE DEF u
      <4> QED BY <1>1, <4>1, <4>2, HasAppend
    <3>2. CASE t.act \in {"remove", "symlink", "rename"}
      <4>1. back' = back /\ front' = <<u(t.act)>> \o front
        BY <2>2, <3>2 DEF Pushes
      <4> HIDE DEF u
      <4> QED BY <1>1, <4>1, HasCons
    <3>3. CASE t.act \in {"move", "srm"}
      <4> DEFINE k == IF t.act = "move" THEN "copy" ELSE "destroy"
      <4>1. front' = <<u(k)>> \o front /\ (sep # "live" => back' = back)
        BY <2>2, <3>3 DEF Pushes, LinksRemove
      <4> HIDE DEF u, k
      <4> QED BY <1>1, <4>1, HasCons
    <3> QED BY <2>2, <3>1, <3>2, <3>3 DEF Pushes
  <2> QED BY <1>1, <2>1, <2>2 DEF ScanQueues
<1> QED BY <1>1, <1>2, <1>3, <1>4, <1>5

LEMMA OrderedUser ==
  ASSUME Ordered, User
  PROVE  Ordered'
<1>1. /\ UNCHANGED <<op, sep, back, wcur, front, scanq>> /\ Live
  BY DEF User, AnswerError, AnswerOverwrite, AbortArrives, Reads, Live, mainVars, argVars,
         scanVars, workVars
<1> QED BY <1>1 DEF Ordered

LEMMA OrderedMain ==
  ASSUME TypeOK, KindsOK, Ordered, Before, Main
  PROVE  Ordered'
<1>1. /\ wcur = NoTask /\ sep # "freed" /\ wcur' = wcur /\ Live
      /\ back \in Seq(BackOf(op)) /\ NoTask \notin RemoveTask
  <2>1. ~looping /\ wcur' = wcur
    BY DEF Main, MainLinks, MainRenames, MainGivesUp, MainQueues, MainLoops, workVars
  <2>2. RemoveTask \subseteq WorkTask
    BY DEF RemoveTask, WorkTask
  <2> QED BY <2>1, <2>2, NoTaskAssumption DEF Before, Live, KindsOK
<1>2. /\ sep' \in {sep, "live"}
      /\ back' = back \/ sep' = "live"
  <2>1. CASE MainLinks \/ MainRenames \/ MainGivesUp \/ MainLoops
    BY <2>1 DEF MainLinks, MainRenames, MainGivesUp, MainLoops, workVars
  <2>2. CASE MainQueues
    BY <2>2 DEF MainQueues
  <2> QED BY <2>1, <2>2 DEF Main
<1>3. sep = "none" => ~Has(back, RemoveTask)
  BY <1>1 DEF Ordered, RemoveTask
<1> QED BY <1>1, <1>2, <1>3 DEF Ordered, RemoveTask

-----------------------------------------------------------------------------
(* What is still to be scanned stays at the source.                        *)

LEMMA BelowFacts ==
  ASSUME NEW n \in Node
  PROVE  /\ Below(n) \subseteq Node
         /\ \A m \in Below(n) : m # n => Parent[m] \in Below(n)
         /\ \A m \in Below(n) : Parent[m] = NoNode => m = n
<1>1. Below(n) \subseteq Node
  BY DEF Below
<1>2. ASSUME NEW m \in Below(n), m # n
      PROVE  Parent[m] \in Below(n)
  <2>1. SUFFICES ASSUME NEW S \in SUBSET Node, n \in S, \A x \in Node : Parent[x] \in S => x \in S,
                        Parent[m] \notin S
                 PROVE  FALSE
    <3>1. Parent[m] \in Node
      <4> DEFINE T == Node \ {m}
      <4>1. CASE Parent[m] = NoNode
        <5>1. T \in SUBSET Node /\ n \in T /\ \A x \in Node : Parent[x] \in T => x \in T
          BY <1>2, <4>1, TreeAssumption
        <5> QED BY <5>1, <1>2 DEF Below
      <4> QED BY <1>1, <4>1, TreeAssumption
    <3> QED BY <3>1 DEF Below
  <2> DEFINE T == S \ {m}
  <2>2. T \in SUBSET Node /\ n \in T /\ \A x \in Node : Parent[x] \in T => x \in T
    BY <1>2, <2>1
  <2> QED BY <2>2, <1>2 DEF Below
<1>3. NoNode \notin Node
  BY TreeAssumption
<1> QED BY <1>1, <1>2, <1>3

LEMMA RenamingTask ==
  \A n \in Node, m \in Node : /\ Rn(n) \in ScanTask /\ Rn(n).node = n /\ Rn(n).act = "rename"
                              /\ (Rn(n) = Rn(m) <=> n = m)
BY DEF Rn, ScanTask, OpType

\* The parts are kept when nothing new is to be scanned or renamed, and what
\* leaves the source is not to be scanned.
LEMMA ApartKept ==
  ASSUME TypeOK, Apart, Live,
         looping' = TRUE,
         \A t \in ScanTask : Has(scanq', {t}) => Has(scanq, {t}),
         \A n \in Node : /\ Renaming(n)' => Renaming(n) /\ Once(scanq', {Rn(n)})
                         /\ Has(scanq', {Rn(n)}) /\ Renaming(n)' =>
                              ~Has(front', {Rn(n)}) /\ wcur' # Rn(n),
         dir' => dir /\ scur' = scur, ents' \subseteq ents,
         \A t \in ScanTask : Has(scanq', {t}) => t.node \in src',
         dir' => \A m \in ents' : m \in src'
  PROVE  Apart'
<1>1. TodoApart'
  BY DEF TodoApart
<1>2. ScanApart'
  <2> SUFFICES ASSUME NEW t \in ScanTask, Has(scanq', {t})
               PROVE  t.node \in src' /\ \A n \in Node : Renaming(n)' /\ t # Rn(n) => t.node \notin Below(n)
    BY DEF ScanApart
  <2> QED BY DEF Apart, ScanApart
<1>3. RootsApart'
  <2> SUFFICES ASSUME NEW n \in Node, Renaming(n)'
               PROVE  /\ Parent[n] = NoNode /\ Once(scanq', {Rn(n)})
                      /\ Has(scanq', {Rn(n)}) => ~Has(front', {Rn(n)}) /\ wcur' # Rn(n)
    BY DEF RootsApart
  <2> QED BY DEF Apart, RootsApart
<1>4. DirApart'
  <2> SUFFICES ASSUME dir'
               PROVE  /\ scur' # NoTask /\ scur'.act \notin {"rename", "symlink"}
                      /\ \A m \in ents' : /\ m \in src' /\ Parent[m] = scur'.node
                                          /\ \A n \in Node : Renaming(n)' => m \notin Below(n)
    BY DEF DirApart
  <2> QED BY DEF Apart, DirApart
<1> QED BY <1>1, <1>2, <1>3, <1>4 DEF Apart

LEMMA ApartUser ==
  ASSUME TypeOK, Apart, User
  PROVE  Apart'
<1>1. /\ UNCHANGED <<todo, looping, scanq, scur, dir, ents, front, wcur, src>> /\ Live
  BY DEF User, AnswerError, AnswerOverwrite, AbortArrives, Reads, Live, mainVars,
         scanVars, workVars, diskVars
<1>2. \A n \in Node : Renaming(n)' <=> Renaming(n)
  BY <1>1 DEF Renaming
<1>3. TodoApart'
  BY <1>1 DEF Apart, TodoApart, Todo
<1>4. ScanApart' /\ RootsApart' /\ DirApart'
  BY <1>1, <1>2 DEF Apart, ScanApart, RootsApart, DirApart
<1> QED BY <1>3, <1>4 DEF Apart

\* The arguments after the first.
LEMMA TodoTail ==
  ASSUME TypeOK, todo # <<>>, todo' = Tail(todo),
         \A i, j \in 1..Len(todo) : todo[i] = todo[j] => i = j
  PROVE  /\ Head(todo) \in Node /\ Todo(Head(todo))
         /\ \A n \in Node : Todo(n)' => Todo(n) /\ n # Head(todo)
         /\ \A i, j \in 1..Len(todo') : todo'[i] = todo'[j] => i = j
<1>1. /\ todo \in Seq(Node) /\ Len(todo) \in Nat /\ Len(todo) # 0
      /\ Len(todo') = Len(todo) - 1 /\ Head(todo) = todo[1]
      /\ \A i \in 1..Len(todo') : todo'[i] = todo[i + 1]
  BY HeadTailProperties, EmptySeq, LenProperties DEF TypeOK, MainOK
<1>3. 1 \in 1..Len(todo) /\ \A i \in 1..Len(todo') : i + 1 \in 1..Len(todo) /\ i + 1 # 1
  BY <1>1
<1>4. Head(todo) \in Node /\ Todo(Head(todo))
  BY <1>1, <1>3, ElementOfSeq DEF Todo
<1>5. \A n \in Node : Todo(n)' => Todo(n) /\ n # Head(todo)
  BY <1>1, <1>3 DEF Todo
<1>6. ASSUME NEW i \in 1..Len(todo'), NEW j \in 1..Len(todo'), todo'[i] = todo'[j]
      PROVE  i = j
  <2>1. i + 1 = j + 1
    BY <1>1, <1>3, <1>6
  <2> QED BY <1>1, <2>1
<1> QED BY <1>4, <1>5, <1>6

LEMMA ApartMain ==
  ASSUME TypeOK, KindsOK, Before, Apart, Main
  PROVE  Apart'
<1>1. /\ ~looping /\ Live /\ wcur = NoTask /\ ~dir /\ front = <<>> /\ left = <<>>
      /\ wcur' = wcur /\ dir' = dir /\ front' = front /\ left' = left
      /\ scanq \in Seq(ScanOf(op)) /\ ScanOf(op) \subseteq ScanTask
  <2>1. ~looping /\ wcur' = wcur /\ dir' = dir /\ front' = front /\ left' = left
    BY DEF Main, MainLinks, MainRenames, MainGivesUp, MainQueues, MainLoops, scanVars, workVars, passVars
  <2> QED BY <2>1, KindFacts DEF Before, Live, KindsOK
<1>2. TodoApart /\ ScanApart /\ RootsApart
  BY <1>1 DEF Apart
<1>3. DirApart'
  BY <1>1 DEF DirApart
<1>4. \A n \in Node : /\ Renaming(n) <=> Has(scanq, {Rn(n)})
                      /\ Renaming(n)' <=> Has(scanq', {Rn(n)})
                      /\ ~Has(front', {Rn(n)}) /\ wcur' # Rn(n)
  <2>1. \A n \in Node : ~Has(<<>>, {Rn(n)}) /\ NoTask # Rn(n)
    BY HasEmpty, NoTaskAssumption, RenamingTask
  <2> QED BY <1>1, <2>1 DEF Renaming
<1>5. CASE MainGivesUp
  BY <1>1, <1>5 DEF MainGivesUp, Apart, Live
<1>6. CASE MainLoops
  <2>1. looping' /\ scanq' = scanq /\ src' = src
    BY <1>6 DEF MainLoops, scanVars, diskVars
  <2>2. TodoApart' /\ ScanApart' /\ RootsApart'
    BY <1>2, <1>4, <2>1 DEF TodoApart, ScanApart, RootsApart
  <2> QED BY <1>3, <2>2 DEF Apart
<1>7. CASE MainLinks
  <2>1. /\ scanq' = scanq /\ src' = src /\ todo' = Tail(todo) /\ todo # <<>>
        /\ looping' => quit'
    <3>1. toDir \in BOOLEAN
      BY ArgsAssumption DEF TypeOK, MainOK
    <3> QED BY <1>7, <3>1 DEF MainLinks, scanVars
  <2>2. ScanApart' /\ RootsApart'
    BY <1>2, <1>4, <2>1 DEF ScanApart, RootsApart
  <2>3. Live' => TodoApart'
    BY <1>1, <1>2, <2>1, TodoTail DEF TodoApart, Live
  <2> QED BY <1>3, <2>2, <2>3 DEF Apart
<1>8. CASE MainRenames
  <2> DEFINE n == Head(todo)
  <2>1. /\ scanq' = scanq /\ src' = src \ Below(n) /\ todo' = Tail(todo) /\ todo # <<>>
        /\ looping' = looping
    BY <1>8 DEF MainRenames, Renamed, scanVars
  <2>2. /\ n \in Node /\ Todo(n)
        /\ \A m \in Node : Todo(m)' => Todo(m) /\ m # n
        /\ \A i, j \in 1..Len(todo') : todo'[i] = todo'[j] => i = j
    BY <1>1, <1>2, <2>1, TodoTail DEF TodoApart
  <2> HIDE DEF n
  <2>3. \A m \in Node : Parent[m] = NoNode /\ m # n => m \notin Below(n)
    BY <2>2, BelowFacts
  <2>4. \A t \in ScanTask : Has(scanq, {t}) => t.node \in src' /\ Parent[t.node] = NoNode
    <3> SUFFICES ASSUME NEW t \in ScanTask, Has(scanq, {t}) PROVE t.node \in src' /\ Parent[t.node] = NoNode
      OBVIOUS
    <3>1. t.node # n /\ Parent[t.node] = NoNode /\ t.node \in src /\ t.node \in Node
      BY <1>1, <1>2, <2>2 DEF TodoApart, ScanApart, ScanTask
    <3> QED BY <2>1, <2>3, <3>1
  <2>5. TodoApart'
    <3>1. \A m \in Node : Todo(m)' => /\ m \in src' /\ Parent[m] = NoNode
                                      /\ \A t \in ScanTask : Has(scanq', {t}) => t.node # m
      BY <1>1, <1>2, <2>1, <2>2, <2>3 DEF TodoApart
    <3> QED BY <2>1, <2>2, <2>4, <3>1 DEF TodoApart
  <2>6. ScanApart' /\ RootsApart'
    BY <1>2, <1>4, <2>1, <2>4 DEF ScanApart, RootsApart
  <2> QED BY <1>3, <2>5, <2>6 DEF Apart
<1>9. CASE MainQueues
  <2> DEFINE n == Head(todo)
             u == [act |-> ArgType(n), node |-> n]
  <2>1. /\ scanq' = Append(scanq, u) /\ src' = src /\ todo' = Tail(todo) /\ todo # <<>>
        /\ looping' = looping
    BY <1>9 DEF MainQueues, diskVars
  <2>2. /\ n \in Node /\ Todo(n)
        /\ \A m \in Node : Todo(m)' => Todo(m) /\ m # n
        /\ \A i, j \in 1..Len(todo') : todo'[i] = todo'[j] => i = j
    BY <1>1, <1>2, <2>1, TodoTail DEF TodoApart
  <2>3. u.node = n /\ \A m \in Node : u = Rn(m) => m = n
    BY <2>2 DEF Rn
  <2> HIDE DEF n, u
  <2>4. /\ \A X : Has(scanq', X) <=> Has(scanq, X) \/ u \in X
        /\ \A X : Once(scanq, X) /\ (Has(scanq, X) => u \notin X) => Once(scanq', X)
    BY <1>1, <2>1, HasAppend
  <2>5. \A m \in Node : Parent[m] = NoNode /\ m # n => m \notin Below(n)
    BY <2>2, BelowFacts
  <2>6. n \in src /\ Parent[n] = NoNode /\ \A t \in ScanTask : Has(scanq, {t}) => t.node # n
    BY <1>1, <1>2, <2>2 DEF TodoApart
  <2>7. \A t : Has(scanq', {t}) => Has(scanq, {t}) \/ t = u
    BY <2>4
  <2>8. TodoApart'
    <3>1. \A m \in Node : Todo(m)' => /\ m \in src' /\ Parent[m] = NoNode
                                      /\ \A t \in ScanTask : Has(scanq', {t}) => t.node # m
      BY <1>1, <1>2, <2>1, <2>2, <2>3, <2>7 DEF TodoApart
    <3>2. \A t \in ScanTask : Has(scanq', {t}) => Parent[t.node] = NoNode
      BY <1>1, <1>2, <2>3, <2>6, <2>7 DEF TodoApart
    <3> QED BY <2>2, <3>1, <3>2 DEF TodoApart
  <2>9. \A m \in Node : Renaming(m)' => Renaming(m) \/ (u = Rn(m) /\ m = n)
    BY <1>4, <2>3, <2>7
  <2>10. ScanApart'
    <3> SUFFICES ASSUME NEW t \in ScanTask, Has(scanq', {t})
                 PROVE  t.node \in src' /\ \A m \in Node : Renaming(m)' /\ t # Rn(m) => t.node \notin Below(m)
      BY DEF ScanApart
    <3>1. CASE Has(scanq, {t})
      <4>1. t.node \in src /\ t.node # n /\ Parent[t.node] = NoNode /\ t.node \in Node
        BY <1>1, <1>2, <2>6, <3>1 DEF ScanApart, TodoApart, ScanTask
      <4>2. \A m \in Node : Renaming(m) /\ t # Rn(m) => t.node \notin Below(m)
        BY <1>2, <3>1 DEF ScanApart
      <4> QED BY <2>1, <2>5, <2>9, <4>1, <4>2
    <3>2. CASE t = u
      <4> SUFFICES ASSUME NEW m \in Node, Renaming(m)', t # Rn(m) PROVE n \notin Below(m)
        BY <2>1, <2>3, <2>6, <3>2
      <4>1. Has(scanq, {Rn(m)}) /\ Rn(m) \in ScanTask /\ Rn(m).node = m
        BY <1>4, <2>9, <3>2, RenamingTask
      <4>2. n # m
        BY <2>6, <4>1
      <4> QED BY <2>2, <2>6, <4>2, BelowFacts
    <3> QED BY <2>7, <3>1, <3>2
  <2>11. RootsApart'
    <3> SUFFICES ASSUME NEW m \in Node, Renaming(m)' PROVE Parent[m] = NoNode /\ Once(scanq', {Rn(m)})
      BY <1>4 DEF RootsApart
    <3>1. Rn(n) \in ScanTask /\ Rn(n).node = n /\ ~Has(scanq, {Rn(n)})
      BY <2>2, <2>6, RenamingTask
    <3>2. CASE m = n
      <4>1. Once(scanq, {Rn(m)})
        BY <3>1, <3>2 DEF Has, Once
      <4> QED BY <2>4, <2>6, <3>1, <3>2, <4>1
    <3>3. CASE m # n
      <4>1. u # Rn(m) /\ Renaming(m)
        BY <2>3, <2>9, <3>3
      <4>2. Once(scanq, {Rn(m)}) /\ Parent[m] = NoNode
        BY <1>2, <4>1 DEF RootsApart
      <4> QED BY <2>4, <4>1, <4>2
    <3> QED BY <3>2, <3>3
  <2> QED BY <1>3, <2>8, <2>10, <2>11 DEF Apart
<1> QED BY <1>5, <1>6, <1>7, <1>8, <1>9 DEF Main

\* Which node is at which end of an open directory.
LEMMA ApartCurrent ==
  ASSUME TypeOK, KindsOK, Apart, Live, NEW t \in ScanTask, t = ScanCurrent
  PROVE  /\ t \in ScanOf(op) /\ Has(scanq, {t}) /\ t.node \in Node /\ t.node \in src
         /\ t.act # "rename" => \A n \in Node : Renaming(n) => t.node \notin Below(n)
         /\ dir => scur = t /\ t.act \notin {"rename", "symlink"}
<1>1. Has(scanq, {t}) /\ t \in ScanOf(op) /\ (scur # NoTask => scur = t)
  BY KindTasks, NoTaskAssumption DEF ScanCurrent
<1>2. t.node \in Node
  BY DEF ScanTask
<1>3. t.act # "rename" => \A n \in Node : t # Rn(n)
  BY RenamingTask
<1> QED BY <1>1, <1>2, <1>3 DEF Apart, ScanApart, DirApart

\* A scan task of a directory that is read, or of its attributes, is queued.
LEMMA ApartQueued ==
  ASSUME TypeOK, KindsOK, Apart, Live, looping' = TRUE,
         NEW t \in ScanTask, t = ScanCurrent, t.act \notin {"rename", "symlink"},
         NEW m \in Node, m \in src, \A n \in Node : Renaming(n) => m \notin Below(n),
         NEW k \in {"stat", t.act}, scanq' = Queued([act |-> k, node |-> m], t.act),
         UNCHANGED <<front, wcur, src>>,
         dir' => dir /\ scur' = scur, ents' \subseteq ents
  PROVE  Apart'
<1> DEFINE u == [act |-> k, node |-> m]
<1>1. /\ scanq \in Seq(ScanOf(op)) /\ t \in ScanOf(op) /\ u \in ScanOf(op) /\ u.node = m
      /\ \A n \in Node : u # Rn(n)
      /\ scanq' = Queued(u, t.act)
  BY ApartCurrent DEF KindsOK, ScanOf, Rn
<1> HIDE DEF u
<1>2. \A X : /\ Has(scanq', X) <=> Has(scanq, X) \/ u \in X
             /\ Once(scanq, X) /\ (Has(scanq, X) => u \notin X) => Once(scanq', X)
  BY <1>1, QueuedFacts
<1>3. \A n \in Node : /\ Has(scanq', {Rn(n)}) <=> Has(scanq, {Rn(n)})
                      /\ Once(scanq, {Rn(n)}) => Once(scanq', {Rn(n)})
                      /\ Renaming(n)' <=> Renaming(n)
  BY <1>1, <1>2 DEF Renaming
<1>4. TodoApart'
  BY DEF TodoApart
<1>5. ScanApart'
  <2> SUFFICES ASSUME NEW x \in ScanTask, Has(scanq', {x})
               PROVE  x.node \in src' /\ \A n \in Node : Renaming(n)' /\ x # Rn(n) => x.node \notin Below(n)
    BY DEF ScanApart
  <2>1. Has(scanq, {x}) \/ x = u
    BY <1>2
  <2> QED BY <1>1, <1>3, <2>1 DEF Apart, ScanApart
<1>6. RootsApart'
  BY <1>3 DEF Apart, RootsApart
<1>7. DirApart'
  BY <1>3 DEF Apart, DirApart
<1> QED BY <1>4, <1>5, <1>6, <1>7 DEF Apart

LEMMA ApartScan ==
  ASSUME TypeOK, KindsOK, Scanned, Apart, Live, ScanSucceeds, Scan
  PROVE  Apart'
<1>1. /\ looping /\ looping' = looping /\ wcur' = wcur /\ src' = src
      /\ scanq \in Seq(ScanOf(op)) /\ front \in Seq(FrontOf(op)) /\ ~ScanFails /\ ~err["scan"]
  BY ScanSteps, Turned, NoScanFails DEF ScanStep, mainVars, diskVars, KindsOK, Scanned
<1>2. /\ ScanApart /\ RootsApart /\ DirApart
      /\ \A t \in ScanTask : Has(scanq, {t}) => t.node \in src
      /\ dir => scur = ScanCurrent
  BY DEF Apart, ScanApart, DirApart, ScanCurrent
<1>3. CASE ScanEmpty \/ ScanSleeps \/ ScanHeld \/ ScanAborts
  <2>1. UNCHANGED <<scanq, front, dir, ents>> /\ (dir => scur' = scur)
    BY <1>2, <1>3 DEF ScanEmpty, ScanSleeps, ScanHeld, ScanAborts, scanVars, workVars
  <2>2. \A n \in Node : Renaming(n)' <=> Renaming(n)
    BY <1>1, <2>1 DEF Renaming
  <2>3. TodoApart' /\ ScanApart' /\ RootsApart' /\ DirApart'
    BY <1>1, <1>2, <2>1, <2>2 DEF TodoApart, ScanApart, RootsApart, DirApart
  <2> QED BY <2>3 DEF Apart
<1>4. ~ScanGivesUp
  BY <1>1 DEF ScanGivesUp, GivesUp
<1>5. CASE ScanOpens
  <2>1. PICK t \in ScanTask :
          /\ t = ScanCurrent /\ IsDirScan(t) /\ scur' = t /\ dir' /\ ents' = Children(t.node) \cap src
          /\ UNCHANGED <<scanq, front>>
    BY <1>5 DEF ScanOpens, Scans, workVars
  <2>2. t # NoTask /\ t.act \notin {"rename", "symlink"}
    BY <2>1, NoTaskAssumption DEF IsDirScan
  <2>3. /\ t.node \in Node
        /\ \A n \in Node : Renaming(n) => t.node \notin Below(n)
    BY <2>1, <2>2, ApartCurrent
  <2>4. \A n \in Node : Renaming(n)' <=> Renaming(n)
    BY <1>1, <2>1 DEF Renaming
  <2>5. \A m \in ents' : /\ m \in src /\ Parent[m] = t.node
                         /\ \A n \in Node : Renaming(n) => m \notin Below(n)
    <3> SUFFICES ASSUME NEW m \in ents', NEW n \in Node, Renaming(n), m \in Below(n)
                 PROVE  FALSE
      BY <2>1 DEF Children
    <3>1. m \in Node /\ Parent[m] = t.node /\ Parent[n] = NoNode
      BY <1>2, <2>1 DEF Children, RootsApart
    <3>2. m # n
      BY <2>3, <3>1, TreeAssumption
    <3> QED BY <2>3, <3>1, <3>2, BelowFacts
  <2>6. TodoApart' /\ ScanApart' /\ RootsApart'
    BY <1>1, <1>2, <2>1, <2>4 DEF TodoApart, ScanApart, RootsApart
  <2>7. DirApart'
    BY <1>1, <2>1, <2>2, <2>4, <2>5 DEF DirApart
  <2> QED BY <2>6, <2>7 DEF Apart
<1>6. CASE ScanChild
  <2>1. PICK t \in ScanTask, c \in ents :
          /\ t = ScanCurrent /\ dir /\ scanq' = Queued([act |-> t.act, node |-> c], t.act)
          /\ ents' = ents \ {c} /\ scur' = t /\ UNCHANGED <<front, dir>>
    BY <1>6, Zenon DEF ScanChild, Scans, workVars
  <2>2. c \in src /\ c \in Node /\ \A n \in Node : Renaming(n) => c \notin Below(n)
    BY <1>2, <2>1 DEF DirApart, TypeOK, ScanOK
  <2>3. scur = t /\ t.act \notin {"rename", "symlink"}
    BY <2>1, ApartCurrent
  <2> QED BY <1>1, <2>1, <2>2, <2>3, ApartQueued
<1>7. CASE ScanDirRead
  <2>1. PICK t \in ScanTask :
          /\ t = ScanCurrent /\ dir /\ scanq' = Queued([act |-> "stat", node |-> t.node], t.act)
          /\ ents' = ents /\ ~dir' /\ front' = front
    BY <1>7 DEF ScanDirRead, Scans, workVars
  <2>2. /\ t.node \in src /\ t.node \in Node /\ t.act \notin {"rename", "symlink"}
        /\ \A n \in Node : Renaming(n) => t.node \notin Below(n)
    BY <2>1, ApartCurrent
  <2> QED BY <1>1, <2>1, <2>2, ApartQueued
<1>8. CASE ScanPushes
  <2>1. PICK t \in ScanTask : /\ t = ScanCurrent /\ ~dir /\ ~dir' /\ Pushes(t)
                              /\ scanq' = Without(scanq, t) /\ ents' = ents
    BY <1>8 DEF ScanPushes, Scans
  <2>2. /\ \A X : Has(scanq', X) => Has(scanq, X)
        /\ \A X : Once(scanq, X) => Once(scanq', X)
        /\ Once(scanq, {t}) => ~Has(scanq', {t})
    <3>1. Has(scanq, {t})
      BY <2>1, ApartCurrent
    <3> QED BY <1>1, <2>1, <3>1, HasWithout
  <2>3. \A n \in Node : Has(front', {Rn(n)}) => Has(front, {Rn(n)}) \/ t = Rn(n)
    <3> DEFINE u(k) == [act |-> k, node |-> t.node]
    <3>1. CASE t.act \in {"copy", "stat"}
      BY <2>1, <3>1 DEF Pushes
    <3>2. CASE t.act \in {"remove", "symlink", "rename"}
      <4>1. front' = <<u(t.act)>> \o front
        BY <2>1, <3>2 DEF Pushes
      <4>2. \A n \in Node : u(t.act) = Rn(n) => t = Rn(n)
        BY DEF Rn, ScanTask
      <4> HIDE DEF u
      <4> QED BY <1>1, <4>1, <4>2, HasCons
    <3>3. CASE t.act \in {"move", "srm"}
      <4> DEFINE k == IF t.act = "move" THEN "copy" ELSE "destroy"
      <4>1. front' = <<u(k)>> \o front
        BY <2>1, <3>3 DEF Pushes
      <4>2. \A n \in Node : u(k) # Rn(n)
        BY DEF Rn
      <4> HIDE DEF u, k
      <4> QED BY <1>1, <4>1, <4>2, HasCons
    <3> QED BY <2>1, <3>1, <3>2, <3>3 DEF Pushes
  <2>4. \A n \in Node :
          /\ Renaming(n)' => Renaming(n) /\ Once(scanq', {Rn(n)})
          /\ Has(scanq', {Rn(n)}) /\ Renaming(n)' => ~Has(front', {Rn(n)}) /\ wcur' # Rn(n)
    <3> SUFFICES ASSUME NEW n \in Node, Renaming(n)'
                 PROVE  /\ Renaming(n) /\ Once(scanq', {Rn(n)})
                        /\ Has(scanq', {Rn(n)}) => ~Has(front', {Rn(n)}) /\ wcur' # Rn(n)
      OBVIOUS
    <3>1. Has(scanq, {t})
      BY <2>1, ApartCurrent
    <3>2. Renaming(n)
      BY <1>1, <2>2, <2>3, <3>1 DEF Renaming
    <3>3. /\ Once(scanq, {Rn(n)})
          /\ Has(scanq, {Rn(n)}) => ~Has(front, {Rn(n)}) /\ wcur # Rn(n)
      BY <1>2, <3>2 DEF RootsApart
    <3> QED BY <1>1, <2>2, <2>3, <3>2, <3>3
  <2> QED BY <1>1, <1>2, <2>1, <2>2, <2>4, ApartKept
<1> QED BY <1>1, <1>3, <1>4, <1>5, <1>6, <1>7, <1>8 DEF Scan

\* What leaves the source: by a remove, or by the rename of a whole tree.
LEMMA WorkLoses ==
  ASSUME TypeOK, Work
  PROVE  \/ src' = src
         \/ WorkCurrent # NoTask /\ WorkCurrent.act = "remove"
         \/ \E n \in Node : WorkCurrent = Rn(n) /\ src' = src \ Below(n)
<1> USE DEF diskVars
<1>1. CASE \/ WorkDropsSeparator \/ WorkFindsNothing \/ WorkSleeps \/ WorkHeld \/ WorkGivesUp \/ WorkAborts
           \/ WorkAsks \/ WorkDeclines \/ WorkCopiesAtOnce \/ WorkOpens \/ WorkCopiesNothing
  BY <1>1 DEF WorkDropsSeparator, WorkFindsNothing, WorkSleeps, WorkHeld, WorkGivesUp, WorkAborts,
              WorkAsks, WorkDeclines, WorkCopiesAtOnce, WorkOpens, WorkCopiesNothing
<1>2. CASE \/ WorkCopiesChunk \/ WorkReachesEof \/ WorkFails \/ WorkStats \/ WorkSymlinks
           \/ WorkWipes \/ WorkWipesNothing
  BY <1>2 DEF WorkCopiesChunk, WorkReachesEof, WorkFails, WorkStats, WorkSymlinks, WorkWipes, WorkWipesNothing
<1>3. CASE WorkRemoves
  BY <1>3 DEF WorkRemoves, Works
<1>4. CASE WorkRenames
  <2>1. PICK t \in WorkTask : WorkCurrent = t /\ t.act = "rename" /\ src' = src \ Below(t.node)
    BY <1>4 DEF WorkRenames, Works, Renamed
  <2>2. t = Rn(t.node) /\ t.node \in Node
    BY <2>1 DEF WorkTask, Rn
  <2> QED BY <2>1, <2>2
<1> QED BY <1>1, <1>2, <1>3, <1>4 DEF Work

LEMMA ApartWork ==
  ASSUME TypeOK, KindsOK, Ordered, Apart, Live, op # "remove", Work
  PROVE  Apart'
<1>1. /\ looping' = TRUE /\ UNCHANGED <<scanq, scur, dir, ents>> /\ WorkQueues
      /\ front \in Seq(FrontOf(op))
  BY WorkSteps, Turned DEF WorkStep, mainVars, KindsOK, TypeOK, MainOK
<1>2. ScanApart /\ RootsApart /\ DirApart
  BY DEF Apart
<1>3. \A n \in Node : WorkCurrent = Rn(n) => Has(front, {Rn(n)})
  <2> SUFFICES ASSUME NEW n \in Node, WorkCurrent = Rn(n) PROVE Has(front, {Rn(n)})
    OBVIOUS
  <2>1. WorkCurrent # NoTask /\ WorkCurrent \in WorkOf(op) /\ WorkCurrent.act = "rename"
    BY RenamingTask, NoTaskAssumption, KindTasks
  <2>2. "rename" \in FrontActs(op) \cup BackActs(op) /\ "rename" \notin BackActs(op)
    BY <2>1 DEF WorkOf, BackActs, Moves
  <2> QED BY <2>1, <2>2, CurrentOrdered
<1>4. \A X : Has(front', X) => Has(front, X)
  BY <1>1, HasWithout DEF WorkQueues
<1>5. \A n \in Node : wcur' = Rn(n) => wcur = Rn(n) \/ WorkCurrent = Rn(n)
  <2>1. \A n \in Node : NoTask # Rn(n)
    BY RenamingTask, NoTaskAssumption
  <2> QED BY <1>1, <2>1 DEF WorkQueues
<1>6. \A n \in Node :
        /\ Renaming(n)' => Renaming(n) /\ Once(scanq', {Rn(n)})
        /\ Has(scanq', {Rn(n)}) /\ Renaming(n)' => ~Has(front', {Rn(n)}) /\ wcur' # Rn(n)
  <2> SUFFICES ASSUME NEW n \in Node, Renaming(n)'
               PROVE  /\ Renaming(n) /\ Once(scanq', {Rn(n)})
                      /\ Has(scanq', {Rn(n)}) => ~Has(front', {Rn(n)}) /\ wcur' # Rn(n)
    OBVIOUS
  <2>1. Renaming(n)
    BY <1>1, <1>3, <1>4, <1>5 DEF Renaming
  <2>2. /\ Once(scanq, {Rn(n)})
        /\ Has(scanq, {Rn(n)}) => ~Has(front, {Rn(n)}) /\ wcur # Rn(n)
    BY <1>2, <2>1 DEF RootsApart
  <2> QED BY <1>1, <1>3, <1>4, <1>5, <2>1, <2>2
<1>7. /\ \A t \in ScanTask : Has(scanq, {t}) => t.node \in src'
      /\ dir => \A m \in ents : m \in src'
  <2>1. CASE src' = src
    BY <1>2, <2>1 DEF ScanApart, DirApart
  <2>2. CASE WorkCurrent # NoTask /\ WorkCurrent.act = "remove"
    <3>1. scanq = <<>>
      BY <2>2, CurrentOrdered
    <3>2. \A X : ~Has(scanq, X)
      BY <3>1, HasEmpty
    <3>3. ~dir
      BY <1>2, <3>2 DEF DirApart, KindsOK
    <3> QED BY <3>2, <3>3
  <2>3. ASSUME NEW n \in Node, WorkCurrent = Rn(n), src' = src \ Below(n)
        PROVE  /\ \A t \in ScanTask : Has(scanq, {t}) => t.node \in src'
               /\ dir => \A m \in ents : m \in src'
    <3>1. Renaming(n) /\ ~Has(scanq, {Rn(n)})
      BY <1>2, <1>3, <2>3 DEF Renaming, RootsApart
    <3> QED BY <1>2, <2>3, <3>1 DEF ScanApart, DirApart
  <2> QED BY <2>1, <2>2, <2>3, WorkLoses
<1> QED BY <1>1, <1>6, <1>7, ApartKept

-----------------------------------------------------------------------------
(* The invariant holds.                                                    *)

-----------------------------------------------------------------------------
(* A copy to where nothing is.                                             *)

LEMMA CopyTasks ==
  ASSUME TypeOK, KindsOK, op = "copy"
  PROVE  /\ type = "copy" /\ front = <<>>
         /\ \A t \in ScanOf(op) : t.node \in Node /\ (t.act = "stat" \/ t = Cp(t.node))
         /\ \A t \in WorkOf(op) : t.node \in Node /\ (t.act = "stat" \/ t = Cp(t.node))
         /\ \A n \in Node : Cp(n) # NoTask /\ Cp(n) \in WorkTask
         /\ \A n, m \in Node : Cp(n) = Cp(m) => n = m
         /\ ~Has(back, RemoveTask)
<1>1. type = "copy"
  BY DEF KindsOK, ScanActs, Moves
<1>2. front = <<>>
  <2>1. front \in Seq({})
    BY DEF KindsOK, FrontOf, FrontActs
  <2>2. front # <<>> => Head(front) \in {}
    BY <2>1, HeadTailProperties
  <2> QED BY <2>2
<1>3. /\ \A t \in ScanOf(op) : t.node \in Node /\ (t.act = "stat" \/ t = Cp(t.node))
      /\ \A t \in WorkOf(op) : t.node \in Node /\ (t.act = "stat" \/ t = Cp(t.node))
  BY DEF ScanOf, WorkOf, ScanActs, FrontActs, BackActs, Moves, Cp
<1>4. \A n \in Node : Cp(n) \in WorkTask
  BY DEF Cp, WorkTask
<1>5. \A n, m \in Node : Cp(n) = Cp(m) => n = m
  BY TaskKinds
<1>6. ~Has(back, RemoveTask)
  <2>1. \A i \in 1..Len(back) : back[i] \in BackOf(op)
    BY ElementOfSeq DEF KindsOK
  <2>2. \A t \in RemoveTask : t \in WorkTask /\ t.act = "remove"
    BY DEF RemoveTask, WorkTask
  <2>3. \A t \in BackOf(op) : t = NoTask \/ t.act # "remove"
    BY DEF BackOf, BackActs, Moves
  <2> QED BY <2>1, <2>2, <2>3, NoTaskAssumption DEF Has
<1> QED BY <1>1, <1>2, <1>3, <1>4, <1>5, <1>6, NoTaskAssumption

\* The current task is in its queue.
LEMMA CopyCurrent ==
  ASSUME TypeOK, KindsOK, OnceAnew, op = "copy"
  PROVE  /\ \A n \in Node : WorkCurrent = Cp(n) => Has(back, {Cp(n)})
         /\ \A n \in Node : ScanCurrent = Cp(n) => Has(scanq, {Cp(n)})
         /\ scur # NoTask => ScanCurrent = scur
<1>1. \A n \in Node : Cp(n) # NoTask
  BY CopyTasks
<1>2. ASSUME NEW n \in Node, WorkCurrent = Cp(n) PROVE Has(back, {Cp(n)})
  <2>1. CASE wcur = NoTask
    BY <1>1, <1>2, <2>1, CopyTasks, KindTasks
  <2>2. CASE wcur # NoTask
    BY <1>2, <2>2 DEF WorkCurrent, OnceAnew
  <2> QED BY <2>1, <2>2
<1>3. ASSUME NEW n \in Node, ScanCurrent = Cp(n) PROVE Has(scanq, {Cp(n)})
  BY <1>1, <1>3, KindTasks
<1> QED BY <1>2, <1>3 DEF ScanCurrent

\* Where nothing is there is nothing to ask.
LEMMA CopyFindsNothing ==
  ASSUME TypeOK, KindsOK, AnewOK, op = "copy", WorkCurrent # NoTask, WorkCurrent.act # "stat",
         ~cur.open
  PROVE  Verdict(WorkCurrent) = "free"
<1>1. PICK n \in Node : WorkCurrent = Cp(n)
  BY CopyTasks, KindTasks
<1>2. dst[n] = "absent"
  BY <1>1, CopyCurrent DEF AnewOK, OnceAnew
<1>3. TaskOverwrite = "none" /\ owResp = "none"
  BY DEF AnewOK, AskedNothing, TaskOverwrite
<1>4. WorkCurrent.node = n
  BY <1>1 DEF Cp
<1> QED BY <1>2, <1>3, <1>4 DEF Verdict

LEMMA MetKept ==
  ASSUME AnewOK, looping, looping',
         UNCHANGED <<dir, ents, listed>>, dir => scur' = scur /\ ~err'["scan"],
         ents \subseteq Node,
         \A n \in Node : Met(n)' => Met(n)
  PROVE  TodoAnew' /\ DirAnew' /\ MetAnew'
BY DEF AnewOK, TodoAnew, DirAnew, MetAnew

LEMMA CopyUnlinks ==
  ASSUME TypeOK, KindsOK, OnceAnew, op = "copy", NEW t, NEW q \in {back, Unlinked(t)}
  PROVE  /\ q \in Seq(BackOf(op))
         /\ \A n \in Node : (Has(q, {Cp(n)}) <=> Has(back, {Cp(n)})) /\ Once(q, {Cp(n)})
<1>1. CASE q = back
  BY <1>1 DEF KindsOK, OnceAnew
<1>2. CASE q # back
  <2> DEFINE u == [act |-> "remove", node |-> t.node]
  <2>1. q = Without(back, u)
    BY <1>2 DEF Unlinked
  <2>2. \A n \in Node : u \notin {Cp(n)}
    BY DEF Cp
  <2>3. back \in Seq(BackOf(op)) /\ \A n \in Node : Once(back, {Cp(n)})
    BY DEF KindsOK, OnceAnew
  <2> HIDE DEF u
  <2> QED BY <2>1, <2>2, <2>3, HasWithout, WithoutType
<1> QED BY <1>1, <1>2

LEMMA StaysAnew ==
  ASSUME TypeOK, KindsOK, AnewOK, op = "copy", looping, looping',
         UNCHANGED <<scanq, dir, ents, listed>>, dir => scur' = scur /\ ~err'["scan"],
         wcur' \in {wcur, WorkCurrent}, back' \in {back, Unlinked(WorkCurrent)},
         cur.open => cur'.open,
         \/ dst' = dst
         \/ \E x : \E n \in Node : /\ WorkCurrent = Cp(n) /\ dst' = [dst EXCEPT ![n] = x]
                               /\ wcur' = Cp(n) /\ cur'.open
  PROVE  TodoAnew' /\ DirAnew' /\ MetAnew' /\ OnceAnew'
<1>1. OnceAnew /\ ents \subseteq Node /\ dst \in [Node -> {"absent", "old", "part", "new"}]
  BY DEF AnewOK, TypeOK, ScanOK, DiskOK
<1>2. \A n \in Node : (Has(back', {Cp(n)}) <=> Has(back, {Cp(n)})) /\ Once(back', {Cp(n)})
  BY <1>1, CopyUnlinks
<1>3. \A n \in Node : \/ dst'[n] = dst[n]
                      \/ WorkCurrent = Cp(n) /\ wcur' = Cp(n) /\ cur'.open
  BY <1>1
<1>4. \A n \in Node : WorkCurrent = Cp(n) => Has(back, {Cp(n)})
  BY <1>1, CopyCurrent
<1>5. \A n \in Node : Met(n)' => Met(n)
  BY <1>2, <1>3, <1>4 DEF Met
<1>6. \A n \in Node : Cp(n) # NoTask
  BY CopyTasks
<1>7. OnceAnew'
  <2> SUFFICES ASSUME NEW n \in Node
               PROVE  /\ Once(scanq', {Cp(n)}) /\ Once(back', {Cp(n)})
                      /\ Has(scanq', {Cp(n)}) => dst'[n] = "absent" /\ ~Has(back', {Cp(n)})
                      /\ Has(back', {Cp(n)}) => dst'[n] = "absent" \/ (wcur' = Cp(n) /\ cur'.open)
                      /\ wcur' = Cp(n) => Has(back', {Cp(n)})
    BY DEF OnceAnew
  <2>1. /\ Once(scanq, {Cp(n)})
        /\ Has(scanq, {Cp(n)}) => dst[n] = "absent" /\ ~Has(back, {Cp(n)})
        /\ Has(back, {Cp(n)}) => dst[n] = "absent" \/ (wcur = Cp(n) /\ cur.open)
        /\ wcur = Cp(n) => Has(back, {Cp(n)})
    BY <1>1 DEF OnceAnew
  <2>2. wcur = Cp(n) => wcur' = Cp(n)
    BY <1>6 DEF WorkCurrent
  <2> QED BY <1>2, <1>3, <1>4, <2>1, <2>2
<1> QED BY <1>1, <1>5, <1>7, MetKept

LEMMA DequeuesAnew ==
  ASSUME TypeOK, KindsOK, AnewOK, op = "copy", looping, looping',
         UNCHANGED <<scanq, dir, ents, listed>>, dir => scur' = scur /\ ~err'["scan"],
         NEW q \in {back, Unlinked(WorkCurrent)}, Dequeues(WorkCurrent, q),
         \/ dst' = dst
         \/ \E x : \E n \in Node : WorkCurrent = Cp(n) /\ dst' = [dst EXCEPT ![n] = x]
  PROVE  TodoAnew' /\ DirAnew' /\ MetAnew' /\ OnceAnew'
<1>1. OnceAnew /\ ents \subseteq Node /\ dst \in [Node -> {"absent", "old", "part", "new"}]
  BY DEF AnewOK, TypeOK, ScanOK, DiskOK
<1>2. /\ q \in Seq(BackOf(op))
      /\ \A n \in Node : (Has(q, {Cp(n)}) <=> Has(back, {Cp(n)})) /\ Once(q, {Cp(n)})
  BY <1>1, CopyUnlinks
<1>3. back' = Without(q, WorkCurrent) /\ wcur' = NoTask
  BY DEF Dequeues
<1>4. \A n \in Node : WorkCurrent = Cp(n) => Has(back, {Cp(n)})
  BY <1>1, CopyCurrent
<1>5. \A n \in Node : /\ Has(back', {Cp(n)}) => Has(back, {Cp(n)}) /\ WorkCurrent # Cp(n)
                      /\ Once(back', {Cp(n)})
  <2> SUFFICES ASSUME NEW n \in Node
               PROVE  /\ Has(back', {Cp(n)}) => Has(back, {Cp(n)}) /\ WorkCurrent # Cp(n)
                      /\ Once(back', {Cp(n)})
    OBVIOUS
  <2>1. /\ Has(back', {Cp(n)}) => Has(q, {Cp(n)})
        /\ Once(back', {Cp(n)})
        /\ WorkCurrent \in {Cp(n)} => (Has(back', {Cp(n)}) => ~Has(q, {WorkCurrent}))
    BY <1>2, <1>3, HasWithout
  <2> QED BY <1>2, <2>1
<1>6. \A n \in Node : dst'[n] = dst[n] \/ WorkCurrent = Cp(n)
  BY <1>1
<1>7. \A n \in Node : Met(n)' => Met(n)
  BY <1>4, <1>5, <1>6 DEF Met
<1>8. \A n \in Node : Cp(n) # NoTask
  BY CopyTasks
<1>9. OnceAnew'
  <2> SUFFICES ASSUME NEW n \in Node
               PROVE  /\ Once(scanq', {Cp(n)}) /\ Once(back', {Cp(n)})
                      /\ Has(scanq', {Cp(n)}) => dst'[n] = "absent" /\ ~Has(back', {Cp(n)})
                      /\ Has(back', {Cp(n)}) => dst'[n] = "absent" \/ (wcur' = Cp(n) /\ cur'.open)
                      /\ wcur' = Cp(n) => Has(back', {Cp(n)})
    BY DEF OnceAnew
  <2>1. /\ Once(scanq, {Cp(n)})
        /\ Has(scanq, {Cp(n)}) => dst[n] = "absent" /\ ~Has(back, {Cp(n)})
        /\ Has(back, {Cp(n)}) => dst[n] = "absent" \/ (wcur = Cp(n) /\ cur.open)
        /\ wcur = Cp(n) => Has(back, {Cp(n)})
    BY <1>1 DEF OnceAnew
  <2>2. wcur = Cp(n) => WorkCurrent = Cp(n)
    BY <1>8 DEF WorkCurrent
  <2> QED BY <1>3, <1>4, <1>5, <1>6, <1>8, <2>1, <2>2
<1> QED BY <1>1, <1>7, <1>9, MetKept

LEMMA AnewWork ==
  ASSUME TypeOK, KindsOK, AnewOK, op = "copy", Work
  PROVE  AnewOK'
<1> DEFINE t == WorkCurrent
<1>1. /\ looping /\ UNCHANGED <<mainVars, scanq, scur, dir, ents, listed>>
      /\ t \in WorkOf(op) \cup {NoTask} /\ NoTask \notin WorkOf(op)
      /\ AskedNothing /\ OnceAnew /\ (dir => ~err["scan"])
      /\ err \in [Idler -> BOOLEAN] /\ "scan" \in Idler /\ "work" \in Idler
  BY WorkSteps, Turned, KindTasks, KindFacts, CtlFacts DEF WorkStep, AnewOK, DirAnew, Idler
<1>2. looping'
  BY <1>1 DEF mainVars
<1>3. \A u \in WorkOf(op) : u.node \in Node /\ (u.act = "stat" \/ u = Cp(u.node))
  BY CopyTasks
<1>4. ASSUME t # NoTask, t.act # "stat", ~cur.open PROVE Verdict(t) = "free"
  BY <1>4, CopyFindsNothing
<1>5. \A u \in WorkOf(op) : u.act \in {"stat", "copy"}
  BY <1>3 DEF Cp
<1>6. dir => ~err'["scan"]
  <2>1. /\ Marks("work") \in [Idler -> BOOLEAN] /\ Marks("work")["scan"] = err["scan"]
    BY <1>1 DEF Marks, AskedNothing
  <2>2. \/ err' = err \/ err' = [err EXCEPT !["work"] = FALSE]
        \/ err' = Marks("work") \/ err' = [Marks("work") EXCEPT !["work"] = TRUE]
        \/ WorkAborts
    BY DEF Work, WorkDropsSeparator, WorkFindsNothing, WorkSleeps, WorkHeld, WorkGivesUp, WorkAsks,
           WorkDeclines, WorkCopiesAtOnce, WorkOpens, WorkCopiesNothing, WorkCopiesChunk, WorkReachesEof,
           WorkFails, WorkStats, WorkRemoves, WorkSymlinks, WorkRenames, WorkWipes, WorkWipesNothing,
           ctlVars, Cleared, SendsError
  <2>3. WorkAborts => err' = err
    BY <1>1 DEF WorkAborts, AskedNothing
  <2> QED BY <1>1, <2>1, <2>2, <2>3
<1>7. ~WorkAsks /\ ~WorkDeclines
  <2>1. ASSUME NEW u \in WorkTask, Works(u, u.act), u.act \in AsksFirst, ~cur.open
        PROVE  Verdict(u) = "free"
    <3>1. u = t /\ u # NoTask /\ u.act # "stat"
      BY <2>1 DEF Works, AsksFirst
    <3> QED BY <1>4, <2>1, <3>1
  <2> QED BY <2>1 DEF WorkAsks, WorkDeclines
<1>8. AskedNothing'
  <2>1. CASE WorkDropsSeparator \/ WorkFindsNothing \/ WorkSleeps \/ WorkHeld
    <3>1. UNCHANGED <<asked, overwrite, owResp, cur>>
      BY <2>1 DEF WorkDropsSeparator, WorkFindsNothing, WorkSleeps, WorkHeld, ctlVars, askVars, workVars
    <3> QED BY <1>1, <3>1 DEF AskedNothing
  <2>2. CASE WorkGivesUp \/ WorkAborts
    BY <1>1, <2>2 DEF WorkGivesUp, WorkAborts, askVars, AskedNothing, Finishes, Dequeues, Fresh
  <2>3. CASE \/ WorkCopiesAtOnce \/ WorkOpens \/ WorkCopiesNothing \/ WorkCopiesChunk \/ WorkReachesEof
             \/ WorkStats \/ WorkRemoves \/ WorkSymlinks \/ WorkRenames \/ WorkWipes \/ WorkWipesNothing
    <3>1. asked' = asked
      BY <2>3 DEF WorkCopiesAtOnce, WorkOpens, WorkCopiesNothing, WorkCopiesChunk, WorkReachesEof,
              WorkStats, WorkRemoves, WorkSymlinks, WorkRenames, WorkWipes, WorkWipesNothing, askVars
    <3>2. UNCHANGED <<overwrite, owResp>> \/ \E u \in WorkTask : Consumed(u)
      BY <2>3 DEF WorkCopiesAtOnce, WorkOpens, WorkCopiesNothing, WorkCopiesChunk, WorkReachesEof,
              WorkStats, WorkRemoves, WorkSymlinks, WorkRenames, WorkWipes, WorkWipesNothing, MayWrite
    <3>3. cur' = Fresh \/ cur'.ovr \in {cur.ovr, TaskOverwrite}
      BY <2>3 DEF WorkCopiesAtOnce, WorkOpens, WorkCopiesNothing, WorkCopiesChunk, WorkReachesEof,
              WorkStats, WorkRemoves, WorkSymlinks, WorkRenames, WorkWipes, WorkWipesNothing,
              Finishes, Dequeues, TypeOK, WorkOK, CurType
    <3> QED BY <1>1, <3>1, <3>2, <3>3 DEF Consumed, AskedNothing, TaskOverwrite, Fresh
  <2>4. CASE WorkFails
    <3>1. PICK u \in WorkTask : \/ u.act = "copy" /\ CopyError(u)
                                \/ u.act = "remove" /\ RemoveError(u)
                                \/ u.act \in {"symlink", "rename"} /\ RelinkError(u)
      BY <2>4 DEF WorkFails
    <3>2. SendsError("work", "error")
      BY <2>4 DEF WorkFails
    <3>3. asked'.overwrite = asked.overwrite
      BY <3>2 DEF SendsError, TypeOK, CtlOK
    <3> QED BY <1>1, <3>1, <3>3 DEF CopyError, RemoveError, RelinkError, MayWrite, Consumed, AskedNothing,
               TaskOverwrite, TypeOK, WorkOK, CurType
  <2> QED BY <1>7, <2>1, <2>2, <2>3, <2>4 DEF Work
<1>9. TodoAnew' /\ DirAnew' /\ MetAnew' /\ OnceAnew'
  <2> USE <1>1, <1>2, <1>6
  <2>1. CASE WorkDropsSeparator \/ WorkFindsNothing \/ WorkSleeps \/ WorkHeld
    <3>1. wcur' \in {wcur, t} /\ UNCHANGED <<back, cur, dst>>
      BY <2>1 DEF WorkDropsSeparator, WorkFindsNothing, WorkSleeps, WorkHeld, workVars, diskVars
    <3> QED BY <3>1, StaysAnew
  <2>2. CASE WorkGivesUp
    <3>1. Dequeues(t, Unlinked(t)) /\ dst' = dst
      BY <2>2 DEF WorkGivesUp, diskVars
    <3> QED BY <3>1, DequeuesAnew
  <2>3. CASE WorkAborts
    <3>1. dst' = dst /\ (Dequeues(t, back) \/ (wcur' = t /\ UNCHANGED <<back, cur>>))
      BY <2>3 DEF WorkAborts, diskVars, Finishes, Stays
    <3> QED BY <3>1, StaysAnew, DequeuesAnew
  <2>4. CASE WorkCopiesNothing \/ WorkCopiesChunk \/ WorkOpens
    <3>1. PICK u \in WorkTask :
            /\ u = t /\ u.act = "copy" /\ wcur' = u /\ back' = back /\ (cur.open => cur'.open)
            /\ dst' = dst \/ (dst' = [dst EXCEPT ![u.node] = "part"] /\ cur'.open)
      BY <2>4 DEF WorkCopiesNothing, WorkCopiesChunk, WorkOpens, Works, Stays, diskVars, TypeOK, WorkOK, CurType
    <3>2. u.node \in Node /\ t = Cp(u.node)
      BY <1>3, <3>1, NoTaskAssumption
    <3> QED BY <3>1, <3>2, StaysAnew
  <2>5. CASE WorkFails
    <3>1. PICK u \in WorkTask :
            /\ u = t /\ wcur' = u /\ back' \in {back, Unlinked(u)} /\ (cur.open => cur'.open) /\ dst' = dst
      BY <2>5 DEF WorkFails, Works, diskVars, CopyError, RemoveError, RelinkError, TypeOK, WorkOK, CurType
    <3> QED BY <3>1, StaysAnew
  <2>6. CASE WorkCopiesAtOnce \/ WorkReachesEof
    <3>1. PICK u \in WorkTask, x \in {"new"} :
            /\ u = t /\ u.act = "copy" /\ Dequeues(u, back)
            /\ dst' = dst \/ dst' = [dst EXCEPT ![u.node] = x]
      BY <2>6 DEF WorkCopiesAtOnce, WorkReachesEof, Works, Finishes
    <3>2. u.node \in Node /\ t = Cp(u.node)
      BY <1>3, <3>1, NoTaskAssumption
    <3> QED BY <3>1, <3>2, DequeuesAnew
  <2>7. CASE WorkStats
    <3>1. PICK u \in WorkTask : u = t /\ Dequeues(u, back) /\ dst' = dst
      BY <2>7 DEF WorkStats, Works, Finishes, diskVars
    <3> QED BY <3>1, DequeuesAnew
  <2>8. CASE WorkRemoves \/ WorkSymlinks \/ WorkRenames \/ WorkWipes \/ WorkWipesNothing
    <3>1. PICK u \in WorkTask : u = t /\ u # NoTask /\ u.act \in {"remove", "symlink", "rename", "destroy"}
      BY <2>8 DEF WorkRemoves, WorkSymlinks, WorkRenames, WorkWipes, WorkWipesNothing, Works
    <3> QED BY <1>5, <3>1
  <2> QED BY <1>7, <2>1, <2>2, <2>3, <2>4, <2>5, <2>6, <2>7, <2>8 DEF Work
<1> QED BY <1>8, <1>9 DEF AnewOK

\* The step that scans: what it leaves, and what it finds.
LEMMA AnewScan ==
  ASSUME TypeOK, KindsOK, AnewOK, op = "copy", Scan
  PROVE  AnewOK'
<1> DEFINE s == ScanCurrent
<1>1. /\ looping /\ UNCHANGED <<mainVars, wcur, cur, overwrite, owResp, dst>>
      /\ s \in ScanOf(op) \cup {NoTask} /\ NoTask \notin ScanOf(op) /\ NoTask \notin WorkOf(op)
      /\ AskedNothing /\ OnceAnew /\ (dir => ~err["scan"])
      /\ err \in [Idler -> BOOLEAN] /\ "scan" \in Idler /\ "work" \in Idler
      /\ scanq \in Seq(ScanOf(op)) /\ back \in Seq(BackOf(op)) /\ ents \subseteq Node
  BY ScanSteps, Turned, KindTasks, KindFacts, CtlFacts
     DEF ScanStep, AnewOK, DirAnew, Idler, diskVars, KindsOK, TypeOK, ScanOK
<1>2. looping'
  BY <1>1 DEF mainVars
<1>3. \A u \in ScanOf(op) : u.node \in Node /\ (u.act = "stat" \/ u = Cp(u.node))
  BY CopyTasks
<1>4. /\ \A n \in Node : Cp(n) # NoTask /\ (s = Cp(n) => Has(scanq, {Cp(n)}))
      /\ \A n, m \in Node : Cp(n) = Cp(m) => n = m
      /\ scur # NoTask => s = scur
  BY <1>1, CopyTasks, CopyCurrent
<1>5. AskedNothing'
  <2>1. asked'.overwrite = asked.overwrite
    BY ScanMarkSteps DEF ScanMarks, SendsError, TypeOK, CtlOK
  <2> QED BY <1>1, <2>1 DEF AskedNothing
<1>6. \A n \in Node :
        /\ Once(scanq, {Cp(n)}) /\ Once(back, {Cp(n)})
        /\ Has(scanq, {Cp(n)}) => dst[n] = "absent" /\ ~Has(back, {Cp(n)})
        /\ Has(back, {Cp(n)}) => dst[n] = "absent" \/ (wcur = Cp(n) /\ cur.open)
        /\ wcur = Cp(n) => Has(back, {Cp(n)})
  BY <1>1 DEF OnceAnew
<1>7. Marks("scan")["scan"] = FALSE /\ err["work"] \in BOOLEAN
  BY <1>1 DEF Marks, AskedNothing
<1>8. CASE ScanEmpty \/ ScanSleeps \/ ScanHeld \/ ScanAborts
  <2>1. UNCHANGED <<scanq, back, dir, ents, listed>> /\ (dir => scur' = scur)
    BY <1>4, <1>8 DEF ScanEmpty, ScanSleeps, ScanHeld, ScanAborts, scanVars, workVars, AnewOK, DirAnew
  <2>2. err' = err
    BY <1>1, <1>8 DEF ScanEmpty, ScanSleeps, ScanHeld, ScanAborts, ctlVars, AskedNothing
  <2>3. TodoAnew' /\ DirAnew' /\ MetAnew'
    <3>1. \A n \in Node : Met(n)' => Met(n)
      BY <1>1, <2>1 DEF Met
    <3> QED BY <1>1, <1>2, <2>1, <2>2, <3>1, MetKept
  <2> QED BY <1>1, <1>5, <2>1, <2>3 DEF AnewOK, OnceAnew
<1>9. CASE ScanFails
  <2>1. UNCHANGED <<scanq, back, dir, ents, listed>> /\ ~dir
    BY <1>9 DEF ScanFails, workVars
  <2>2. TodoAnew' /\ DirAnew' /\ MetAnew'
    <3>1. \A n \in Node : Met(n)' => Met(n)
      BY <1>1, <2>1 DEF Met
    <3> QED BY <1>1, <1>2, <2>1, <3>1, MetKept
  <2> QED BY <1>1, <1>5, <2>1, <2>2 DEF AnewOK, OnceAnew
<1>10. CASE ScanGivesUp
  <2>1. UNCHANGED <<back, dir, ents, listed>> /\ ~dir /\ scanq' = Without(scanq, s)
    <3>1. GivesUp("scan")
      BY <1>10 DEF ScanGivesUp
    <3> QED BY <1>1, <1>10, <3>1 DEF ScanGivesUp, workVars, GivesUp
  <2>2. \A n \in Node : (Has(scanq', {Cp(n)}) => Has(scanq, {Cp(n)})) /\ Once(scanq', {Cp(n)})
    BY <1>1, <1>6, <2>1, HasWithout
  <2>3. TodoAnew' /\ DirAnew' /\ MetAnew'
    <3>1. \A n \in Node : Met(n)' => Met(n)
      BY <1>1, <2>1, <2>2 DEF Met
    <3> QED BY <1>1, <1>2, <2>1, <3>1, MetKept
  <2> QED BY <1>1, <1>5, <1>6, <2>1, <2>2, <2>3 DEF AnewOK, OnceAnew
<1>11. CASE ScanOpens
  <2>1. PICK t \in ScanTask :
          /\ t = s /\ t # NoTask /\ t.act # "stat" /\ ~dir /\ t.node \notin listed
          /\ dir' /\ ents' = Children(t.node) \cap src /\ scur' = t /\ Cleared("scan")
          /\ UNCHANGED <<scanq, listed, back>>
    BY <1>11 DEF ScanOpens, Scans, workVars
  <2>2. t = Cp(t.node) /\ t.node \in Node /\ t.node # NoNode
    BY <1>1, <1>3, <2>1, TreeAssumption
  <2>3. \A n \in Node : Met(n)' <=> Met(n)
    BY <1>1, <2>1 DEF Met
  <2>4. \A n \in ents' : ~Met(n) /\ Parent[n] = t.node
    BY <2>1, <2>2 DEF AnewOK, MetAnew, Children
  <2>5. ~err'["scan"]
    BY <1>7, <2>1 DEF Cleared
  <2>6. ents' \subseteq Node
    BY <2>1 DEF Children
  <2>7. TodoAnew' /\ DirAnew' /\ MetAnew'
    BY <1>2, <2>1, <2>3, <2>4, <2>5, <2>6 DEF AnewOK, TodoAnew, DirAnew, MetAnew
  <2> QED BY <1>1, <1>5, <1>6, <2>1, <2>7 DEF AnewOK, OnceAnew
<1>12. CASE ScanChild
  <2>1. PICK t \in ScanTask, c \in ents :
          /\ t = s /\ t # NoTask /\ t.act # "stat" /\ dir
          /\ scanq' = Queued([act |-> t.act, node |-> c], t.act) /\ ents' = ents \ {c} /\ scur' = t
          /\ Cleared("scan") /\ UNCHANGED <<dir, listed, back>>
    BY <1>12 DEF ScanChild, Scans, workVars
  <2>2. t = Cp(t.node) /\ t.node \in Node /\ c \in Node /\ [act |-> t.act, node |-> c] = Cp(c)
    BY <1>1, <1>3, <2>1 DEF Cp
  <2>3. scur = t /\ ~Met(c) /\ Parent[c] = t.node
    BY <1>4, <2>1 DEF AnewOK, DirAnew
  <2>4. Cp(c) \in ScanOf(op)
    BY <1>1, <2>1, <2>2 DEF ScanOf, ScanActs, Moves, Cp
  <2>5. \A n \in Node : /\ Has(scanq', {Cp(n)}) <=> Has(scanq, {Cp(n)}) \/ n = c
                        /\ Once(scanq', {Cp(n)})
    <3>1. \A X : /\ Has(scanq', X) <=> Has(scanq, X) \/ Cp(c) \in X
                 /\ Once(scanq, X) /\ (Has(scanq, X) => Cp(c) \notin X) => Once(scanq', X)
      BY <1>1, <2>1, <2>2, <2>4, QueuedFacts
    <3>2. ~Has(scanq, {Cp(c)})
      BY <2>3 DEF Met
    <3> QED BY <1>4, <1>6, <2>2, <3>1, <3>2
  <2>6. \A n \in Node : Met(n)' <=> Met(n) \/ n = c
    BY <1>1, <2>1, <2>5 DEF Met
  <2>7. ~err'["scan"]
    BY <1>7, <2>1 DEF Cleared
  <2>8. TodoAnew' /\ DirAnew' /\ MetAnew'
    BY <1>1, <1>2, <2>1, <2>2, <2>3, <2>6, <2>7 DEF AnewOK, TodoAnew, DirAnew, MetAnew
  <2>9. ~Has(back, {Cp(c)}) /\ dst[c] = "absent"
    BY <2>3 DEF Met
  <2>10. OnceAnew'
    BY <1>1, <1>6, <2>1, <2>5, <2>9 DEF OnceAnew
  <2> QED BY <1>5, <2>8, <2>10 DEF AnewOK
<1>13. CASE ScanDirRead
  <2>1. PICK t \in ScanTask :
          /\ t = s /\ t # NoTask /\ t.act # "stat" /\ dir /\ ents = {}
          /\ scanq' = Queued([act |-> "stat", node |-> t.node], t.act)
          /\ listed' = listed \cup {t.node} /\ ~dir' /\ UNCHANGED back
    BY <1>13 DEF ScanDirRead, Scans, workVars
  <2>2. scur = t /\ t.node \in Node
    BY <1>1, <1>3, <1>4, <2>1 DEF AnewOK, DirAnew
  <2>3. \A n \in Node : (Has(scanq', {Cp(n)}) <=> Has(scanq, {Cp(n)})) /\ Once(scanq', {Cp(n)})
    <3> DEFINE u == [act |-> "stat", node |-> t.node]
    <3>1. u \in ScanOf(op) /\ \A n \in Node : u # Cp(n)
      BY <2>2 DEF ScanOf, Cp
    <3>2. scanq' = Queued(u, t.act)
      BY <2>1
    <3> HIDE DEF u
    <3>3. \A X : /\ Has(scanq', X) <=> Has(scanq, X) \/ u \in X
                 /\ Once(scanq, X) /\ (Has(scanq, X) => u \notin X) => Once(scanq', X)
      BY <1>1, <3>1, <3>2, QueuedFacts
    <3> QED BY <1>6, <3>1, <3>3
  <2>4. \A n \in Node : Met(n)' <=> Met(n)
    BY <1>1, <2>1, <2>3 DEF Met
  <2>5. TodoAnew' /\ DirAnew' /\ MetAnew'
    BY <1>2, <2>1, <2>2, <2>4 DEF AnewOK, TodoAnew, DirAnew, MetAnew
  <2>6. OnceAnew'
    BY <1>1, <1>6, <2>1, <2>3 DEF OnceAnew
  <2> QED BY <1>5, <2>5, <2>6 DEF AnewOK
<1>14. CASE ScanPushes
  <2>1. PICK t \in ScanTask :
          /\ t = s /\ t # NoTask /\ ~dir /\ Pushes(t) /\ scanq' = Without(scanq, t)
          /\ UNCHANGED <<dir, ents, listed>>
    BY <1>14 DEF ScanPushes, Scans
  <2>2. t.node \in Node /\ (t.act = "stat" \/ t = Cp(t.node)) /\ t.act \in {"copy", "stat"}
    BY <1>1, <1>3, <2>1 DEF Cp
  <2> DEFINE u == [act |-> t.act, node |-> t.node]
  <2>3. back' = Append(back, u)
    BY <2>1, <2>2 DEF Pushes
  <2>4. \A n \in Node : u = Cp(n) <=> t = Cp(n)
    BY <2>2 DEF Cp, ScanTask
  <2>5. \A n \in Node : /\ Has(back', {Cp(n)}) <=> Has(back, {Cp(n)}) \/ t = Cp(n)
                        /\ t = Cp(n) => Has(scanq, {Cp(n)})
                        /\ Once(back', {Cp(n)})
    <3> HIDE DEF u
    <3>1. \A X : /\ Has(back', X) <=> Has(back, X) \/ u \in X
                 /\ Once(back, X) /\ (Has(back, X) => u \notin X) => Once(back', X)
      BY <1>1, <2>3, HasAppend
    <3> QED BY <1>4, <1>6, <2>1, <2>4, <3>1
  <2>6. \A n \in Node : /\ Has(scanq', {Cp(n)}) => Has(scanq, {Cp(n)}) /\ t # Cp(n)
                        /\ Once(scanq', {Cp(n)})
    <3> SUFFICES ASSUME NEW n \in Node
                 PROVE  /\ Has(scanq', {Cp(n)}) => Has(scanq, {Cp(n)}) /\ t # Cp(n)
                        /\ Once(scanq', {Cp(n)})
      OBVIOUS
    <3>1. /\ Has(scanq', {Cp(n)}) => Has(scanq, {Cp(n)})
          /\ Once(scanq', {Cp(n)})
          /\ t \in {Cp(n)} => (Has(scanq', {Cp(n)}) => ~Has(scanq, {t}))
      BY <1>1, <1>6, <2>1, HasWithout
    <3> QED BY <3>1
  <2>7. \A n \in Node : Met(n)' => Met(n)
    BY <1>1, <2>5, <2>6 DEF Met
  <2>8. TodoAnew' /\ DirAnew' /\ MetAnew'
    BY <1>1, <1>2, <2>1, <2>7, MetKept
  <2>9. OnceAnew'
    BY <1>1, <1>6, <2>5, <2>6 DEF OnceAnew
  <2> QED BY <1>5, <2>8, <2>9 DEF AnewOK
<1> QED BY <1>8, <1>9, <1>10, <1>11, <1>12, <1>13, <1>14 DEF Scan

LEMMA AnewUser ==
  ASSUME TypeOK, AnewOK, User
  PROVE  AnewOK'
<1>1. AskedNothing /\ asked \in [{"error", "overwrite"} -> Nat]
  BY CtlFacts DEF AnewOK
<1>2. /\ UNCHANGED <<mainVars, scanVars, workVars, diskVars, err, overwrite, owResp>>
      /\ asked'.overwrite = asked.overwrite
  BY <1>1 DEF User, AnswerError, AnswerOverwrite, AbortArrives, AskedNothing, askVars
<1>3. \A n \in Node : (Met(n)' <=> Met(n)) /\ (Todo(n)' <=> Todo(n))
  BY <1>2 DEF Met, Todo, mainVars, scanVars, workVars, diskVars
<1>4. TodoAnew' /\ DirAnew' /\ MetAnew'
  BY <1>2, <1>3 DEF AnewOK, TodoAnew, DirAnew, MetAnew, mainVars, scanVars, TypeOK, ScanOK
<1>5. OnceAnew' /\ AskedNothing'
  BY <1>2 DEF AnewOK, OnceAnew, AskedNothing, scanVars, workVars, diskVars
<1> QED BY <1>4, <1>5 DEF AnewOK

LEMMA AnewMain ==
  ASSUME TypeOK, KindsOK, Before, AnewOK, op = "copy", Main
  PROVE  AnewOK'
<1>1. /\ ~looping /\ ~dir /\ wcur = NoTask /\ type = "copy"
      /\ scanq \in Seq(ScanOf(op)) /\ AskedNothing /\ OnceAnew
  BY CopyTasks DEF Before, Main, MainLinks, MainRenames, MainGivesUp, MainQueues, MainLoops, AnewOK, KindsOK
<1>2. CASE MainLoops
  <2>1. UNCHANGED <<scanVars, workVars, diskVars, ctlVars, asked>> /\ looping'
    BY <1>2 DEF MainLoops, askVars
  <2>2. \A n \in Node : Met(n)' <=> Met(n)
    BY <2>1 DEF Met, scanVars, workVars, diskVars
  <2>3. TodoAnew' /\ DirAnew' /\ MetAnew'
    BY <1>1, <2>1, <2>2 DEF AnewOK, TodoAnew, DirAnew, MetAnew, scanVars
  <2>4. OnceAnew'
    BY <1>1, <2>1 DEF OnceAnew, scanVars, workVars, diskVars
  <2>5. AskedNothing'
    BY <1>1, <2>1 DEF AskedNothing, ctlVars, workVars
  <2> QED BY <2>3, <2>4, <2>5 DEF AnewOK
<1>3. CASE MainQueues
  <2> DEFINE n == Head(todo)
  <2>1. /\ todo # <<>> /\ scanq' = Append(scanq, Cp(n)) /\ todo' = Tail(todo) /\ ~looping'
        /\ UNCHANGED <<back, dst, wcur, cur, dir, ents, listed, err, overwrite, owResp, asked>>
    BY <1>1, <1>3 DEF MainQueues, ArgType, Cp, diskVars, ctlVars
  <2>2. /\ n \in Node /\ Todo(n)
        /\ \A m \in Node : Todo(m)' => Todo(m) /\ m # n
        /\ \A i, j \in 1..Len(todo') : todo'[i] = todo'[j] => i = j
    <3>1. \A i, j \in 1..Len(todo) : todo[i] = todo[j] => i = j
      BY <1>1 DEF AnewOK, TodoAnew
    <3> QED BY <1>1, <2>1, <3>1, TodoTail
  <2> HIDE DEF n
  <2>3. ~Met(n) /\ Parent[n] = NoNode
    BY <1>1, <2>2 DEF AnewOK, TodoAnew
  <2>4. \A m \in Node : /\ Has(scanq', {Cp(m)}) <=> Has(scanq, {Cp(m)}) \/ m = n
                        /\ Once(scanq', {Cp(m)})
    <3>1. \A X : /\ Has(scanq', X) <=> Has(scanq, X) \/ Cp(n) \in X
                 /\ Once(scanq, X) /\ (Has(scanq, X) => Cp(n) \notin X) => Once(scanq', X)
      BY <1>1, <2>1, HasAppend
    <3>2. \A m \in Node : Cp(n) \in {Cp(m)} <=> m = n
      BY <2>2, TaskKinds
    <3>3. ~Has(scanq, {Cp(n)}) /\ \A m \in Node : Once(scanq, {Cp(m)})
      BY <1>1, <2>3 DEF Met, OnceAnew
    <3> QED BY <3>1, <3>2, <3>3
  <2>5. \A m \in Node : Met(m)' <=> Met(m) \/ m = n
    BY <2>1, <2>4 DEF Met
  <2>6. TodoAnew' /\ DirAnew' /\ MetAnew'
    BY <1>1, <2>1, <2>2, <2>3, <2>5 DEF AnewOK, TodoAnew, DirAnew, MetAnew
  <2>7. ~Has(back, {Cp(n)}) /\ dst[n] = "absent"
    BY <2>3 DEF Met
  <2>8. OnceAnew'
    BY <1>1, <2>1, <2>4, <2>7 DEF OnceAnew
  <2>9. AskedNothing'
    BY <1>1, <2>1 DEF AskedNothing
  <2> QED BY <2>6, <2>8, <2>9 DEF AnewOK
<1> QED BY <1>1, <1>2, <1>3 DEF Main, MainLinks, MainRenames, MainGivesUp

LEMMA AnewInit == Init /\ Anew => AnewOK
<1> SUFFICES ASSUME Init, Anew PROVE AnewOK
  OBVIOUS
<1>1. /\ todo = Args /\ scanq = <<>> /\ ~dir /\ back = <<>> /\ wcur = NoTask /\ ~overwrite
      /\ owResp = "none" /\ asked.overwrite = 0 /\ cur = Fresh /\ \A n \in Node : dst[n] = "absent"
  BY DEF Init, Anew
<1>2. /\ \A X : ~Has(<<>>, X) /\ Once(<<>>, X)
      /\ \A n \in Node : Cp(n) # NoTask
  BY HasEmpty, NoTaskAssumption DEF Cp, WorkTask, OpType
<1>3. \A n \in Node : ~Met(n)
  BY <1>1, <1>2 DEF Met
<1>4. TodoAnew
  <2>1. \A n \in Node : Todo(n) => Parent[n] = NoNode
    BY <1>1, ArgsAssumption DEF Todo
  <2> QED BY <1>1, <1>3, <2>1, ArgsAssumption DEF TodoAnew
<1> QED BY <1>1, <1>2, <1>3, <1>4 DEF AnewOK, DirAnew, MetAnew, OnceAnew, AskedNothing, Fresh

-----------------------------------------------------------------------------
(* The invariant is kept.                                                  *)

LEMMA IdlerInit == Init => IdlerInv
<1> SUFFICES ASSUME Init PROVE IdlerInv
  OBVIOUS
<1>1. /\ op \in OpType /\ todo = Args /\ type = op /\ ~looping /\ scanq = <<>> /\ scur = NoTask
      /\ ~dir /\ listed = {} /\ front = <<>> /\ back = <<>> /\ wcur = NoTask /\ sep # "freed"
      /\ idlers = <<>> /\ left = <<>> /\ ~quit /\ err = [i \in Idler |-> FALSE] /\ ~overwrite
      /\ errResp = "none" /\ owResp = "none" /\ asked = [error |-> 0, overwrite |-> 0]
      /\ src = Node
  BY ArgsAssumption DEF Init
<1>2. op \in ScanActs(op)
  BY DEF ScanActs, Moves
<1>3. KindsOK
  BY <1>1, <1>2 DEF KindsOK
<1>4. Before
  BY <1>1 DEF Before
<1>5. Marked /\ Sleeping
  BY <1>1 DEF Marked, Failing, Sleeping, Idler
<1>6. \A X : ~Has(<<>>, X)
  BY HasEmpty
<1>7. Scanned /\ Ordered
  BY <1>1, <1>6 DEF Scanned, Ordered, Idler
<1>8. Apart
  <2>1. TodoApart
    <3>1. \A n \in Node : Todo(n) => Parent[n] = NoNode
      BY <1>1, ArgsAssumption DEF Todo
    <3> QED BY <1>1, <1>6, <3>1, ArgsAssumption DEF TodoApart
  <2>2. \A n \in Node : NoTask # Rn(n)
    BY RenamingTask, NoTaskAssumption
  <2> QED BY <1>1, <1>6, <2>1, <2>2 DEF Apart, ScanApart, RootsApart, DirApart, Renaming
<1>9. Anew => AnewOK
  BY AnewInit
<1> QED BY <1>3, <1>4, <1>5, <1>7, <1>8, <1>9 DEF IdlerInv

LEMMA IdlerStep ==
  ASSUME TypeOK, IdlerInv, [Next]_vars
  PROVE  IdlerInv'
<1>1. CASE UNCHANGED vars
  <2>1. AnewOK => AnewOK'
    BY <1>1 DEF vars, argVars, mainVars, scanVars, workVars, ctlVars, askVars, diskVars,
                AnewOK, TodoAnew, DirAnew, MetAnew, OnceAnew, AskedNothing, Met, Todo
  <2>2. /\ (KindsOK => KindsOK') /\ (Before => Before') /\ (Anew' <=> Anew) /\ (Surely' <=> Surely)
        /\ (Quietly' <=> Quietly)
    BY <1>1 DEF vars, argVars, mainVars, scanVars, workVars, passVars, ctlVars, askVars,
                KindsOK, Before, Anew, Surely, Quietly
  <2>3. (Marked => Marked') /\ (Sleeping => Sleeping') /\ (Scanned => Scanned') /\ (Ordered => Ordered')
    BY <1>1 DEF vars, argVars, mainVars, scanVars, workVars, passVars, ctlVars, askVars,
                Marked, Live, Asking, Failing, Sleeping, Sleeps, Scanned, Ordered, Registered
  <2>4. Apart => Apart'
    BY <1>1 DEF vars, argVars, mainVars, scanVars, workVars, passVars, ctlVars, diskVars,
                Live, Apart, TodoApart, ScanApart, RootsApart, DirApart, Renaming, Todo
  <2> QED BY <2>1, <2>2, <2>3, <2>4 DEF IdlerInv
<1>2. CASE Exited
  BY <1>1, <1>2 DEF Exited
<1>3. ASSUME Main \/ Scan \/ Work \/ User
      PROVE  IdlerInv'
  <2>1. op' = op /\ KindsOK /\ Before /\ Before'
    <3>1. op' = op
      <4>1. CASE Scan \/ Work
        BY <4>1, ScanSteps, WorkSteps DEF ScanStep, WorkStep, mainVars, argVars
      <4>2. CASE Main \/ User
        BY <4>2 DEF Main, MainLinks, MainRenames, MainGivesUp, MainQueues, MainLoops, User, AnswerError,
                    AnswerOverwrite, AbortArrives, mainVars, argVars
      <4> QED BY <1>3, <4>1, <4>2
    <3> QED BY <3>1, BeforeStep DEF IdlerInv
  <2>2. KindsOK'
    <3>1. CASE User
      BY <2>1, <3>1 DEF User, AnswerError, AnswerOverwrite, AbortArrives, KindsOK, mainVars, scanVars, workVars
    <3> QED BY <1>3, <2>1, <3>1, KindsMain, KindsScan, KindsWork
  <2>6. Anew' => AnewOK'
    <3>1. Anew => op = "copy" /\ AnewOK
      BY DEF Anew, IdlerInv
    <3>2. Anew' <=> Anew
      BY <2>1 DEF Anew
    <3> QED BY <1>3, <2>1, <3>1, <3>2, AnewMain, AnewUser, AnewScan, AnewWork
  <2>3. /\ (Surely' <=> Surely) /\ (Quietly' <=> Quietly)
        /\ Quietly => Surely /\ ScanSucceeds /\ op # "remove"
        /\ Surely => ScanSucceeds \/ op \in {"remove", "srm"} \/ Anew
        /\ ScanSucceeds /\ op \notin {"remove", "srm"} => Quietly
    BY <2>1 DEF Surely, Quietly, Anew
  <2>4. ASSUME Surely PROVE Marked' /\ Sleeping'
    <3>1. Marked /\ Sleeping
      BY <2>4 DEF IdlerInv
    <3>2. CASE Main
      BY <2>1, <3>2, MarkedMain, SleepingMain
    <3>3. CASE User
      BY <3>1, <3>3, MarkedUser, SleepingUser
    <3>4. CASE Scan \/ Work
      <4>1. Sleeping'
        BY <2>1, <3>1, <3>4, SleepingIdlers
      <4>2. CASE ~Live
        BY <3>1, <3>4, <4>1, <4>2, MarkedEnding
      <4>3. CASE Live /\ Work
        BY <2>1, <3>1, <4>1, <4>3, MarkedWork
      <4>4. CASE Live /\ Scan
        <5>1. ScanFails => ~overwrite
          <6>1. CASE op \in {"remove", "srm"}
            BY <2>1, <3>1, <4>4, <6>1, AskingFacts DEF TypeOK, CtlOK
          <6>3. CASE Anew
            BY <6>3 DEF IdlerInv, AnewOK, AskedNothing
          <6>2. CASE op \notin {"remove", "srm"} /\ ~Anew
            <7>1. Quietly /\ ScanSucceeds
              BY <2>3, <2>4, <6>2
            <7>2. Apart
              BY <7>1 DEF IdlerInv
            <7> QED BY <2>1, <4>4, <7>1, <7>2, NoScanFails
          <6> QED BY <6>1, <6>2, <6>3
        <5> QED BY <2>1, <3>1, <4>1, <4>4, <5>1, MarkedScan
      <4> QED BY <3>4, <4>1, <4>2, <4>3, <4>4
    <3> QED BY <1>3, <3>2, <3>3, <3>4
  <2>5. ASSUME Quietly PROVE Scanned' /\ Ordered' /\ Apart'
    <3>1. Marked /\ Scanned /\ Ordered /\ Apart /\ ScanSucceeds /\ op # "remove"
      BY <2>3, <2>5 DEF IdlerInv
    <3>2. CASE Main
      BY <2>1, <3>1, <3>2, ScannedMain, OrderedMain, ApartMain
    <3>3. CASE User
      BY <3>1, <3>3, ScannedUser, OrderedUser, ApartUser
    <3>4. CASE Scan
      <4>1. Scanned' /\ Ordered'
        BY <2>1, <3>1, <3>4, ScannedIdlers, OrderedScan
      <4>2. Live => Apart'
        BY <2>1, <3>1, <3>4, ApartScan
      <4>3. ~Live => ~Live'
        BY <3>4, ScanSteps, Turned DEF ScanStep
      <4> QED BY <4>1, <4>2, <4>3 DEF Apart
    <3>5. CASE Work
      <4>1. Scanned' /\ Ordered'
        BY <2>1, <3>1, <3>5, ScannedIdlers, OrderedWork
      <4>2. Live => Apart'
        BY <2>1, <3>1, <3>5, ApartWork
      <4>3. ~Live => ~Live'
        BY <3>5, WorkSteps, Turned DEF WorkStep
      <4> QED BY <4>1, <4>2, <4>3 DEF Apart
    <3> QED BY <1>3, <3>2, <3>3, <3>4, <3>5
  <2> QED BY <2>1, <2>2, <2>3, <2>4, <2>5, <2>6 DEF IdlerInv
<1> QED BY <1>1, <1>2, <1>3 DEF Next

LEMMA IdlersAgree == Spec => []IdlerInv
<1>1. TypeOK /\ TypeOK' /\ IdlerInv /\ [Next]_vars => IdlerInv'
  BY IdlerStep
<1> QED BY <1>1, IdlerInit, TypeCorrect, PTL DEF Spec

\* No operation asks about a target: it only removes, or it copies to where
\* nothing is.
OverwritesNothing ==
  \/ Ops \subseteq {"remove", "srm"}
  \/ Ops \subseteq {"remove", "srm", "copy"} /\ Exists = {}

\* A copy to where nothing is never asks whether to overwrite, whatever fails and
\* is retried: no file is scanned or copied twice, and what is half written is
\* not taken for a target that was there (_e_fm_op_handle_overwrite).
THEOREM CopyAnewNeverAsks ==
  ASSUME Exists = {}
  PROVE  Spec => [](op = "copy" => ~overwrite)
<1>1. IdlerInv => (op = "copy" => ~overwrite)
  BY DEF IdlerInv, Anew, AnewOK, AskedNothing
<1> QED BY <1>1, IdlersAgree, PTL

\* The user never faces two questions at once, in whatever order the idlers
\* and the answers come, as long as no scan fails; whatever fails if nothing is
\* asked about a target.  An overwrite answer clears the marks of both idlers
\* (_e_fm_op_idler_handle_error), so a scan that fails while the question is
\* open is asked about a second time.
THEOREM OneQuestionAtATime ==
  ASSUME ScanSucceeds \/ OverwritesNothing
  PROVE  Spec => []OneQuestion
<1>1. TypeOK /\ IdlerInv => OneQuestion
  BY DEF IdlerInv, Surely, Anew, OverwritesNothing, Marked, OneQuestion, TypeOK, MainOK
<1> QED BY <1>1, IdlersAgree, TypeCorrect, PTL

\* The work idler is unregistered only while there is a question to answer, if
\* no scan fails and the user cannot choose to ignore all errors: the overwrite
\* question is then not sent, and both idlers wait for its answer for ever.
\* Whatever fails and is answered if nothing is asked about a target.
THEOREM SleepersHaveAsked ==
  ASSUME \/ ScanSucceeds /\ "ignoreAll" \notin ErrorAnswers
         \/ OverwritesNothing
  PROVE  Spec => []SleepsOnlyOnQuestion
<1>1. TypeOK /\ IdlerInv => SleepsOnlyOnQuestion
  <2> SUFFICES ASSUME TypeOK, IdlerInv, Running, ~quit, ~Registered("work")
               PROVE  asked.error + asked.overwrite > 0
    BY DEF SleepsOnlyOnQuestion
  <2>0. OverwritesNothing => op \in {"remove", "srm"} \/ Anew
    BY DEF OverwritesNothing, Anew, TypeOK, MainOK
  <2>1. KindsOK /\ Marked /\ Sleeping /\ Live /\ Sleeps("work")
    BY <2>0 DEF IdlerInv, Surely, Sleeping, Running, Live, TypeOK, MainOK
  <2>2. asked.error \in Nat /\ asked.overwrite \in Nat
    BY CtlFacts
  <2>3. CASE overwrite
    <3>1. Asking /\ owResp = "none" /\ op \notin {"remove", "srm"}
      BY <2>1, <2>3, AskingFacts DEF Sleeps
    <3>2. errResp # "ignoreAll"
      <4>1. ~Anew
        BY <2>3 DEF IdlerInv, AnewOK, AskedNothing
      <4> QED BY <2>0, <2>1, <3>1, <4>1 DEF Sleeping
    <3> QED BY <2>2, <3>1, <3>2 DEF Asking
  <2>4. CASE ~overwrite
    BY <2>1, <2>2, <2>4 DEF Sleeps, Marked, Failing
  <2> QED BY <2>3, <2>4
<1> QED BY <1>1, IdlersAgree, TypeCorrect, PTL

\* A remove of a move runs when there is nothing left to scan and nothing left
\* to copy: the work idler passes the separator only when the queue before it
\* is empty and no scan idler is registered, which the scan idler is not only
\* when it is done, or while an overwrite is asked, by the copy that waits.
THEOREM RemovesWait ==
  ASSUME ScanSucceeds
  PROVE  Spec => RemovesComeLast
<1>1. TypeOK /\ IdlerInv /\ [Next]_vars =>
        [type = "move" /\ WorkRemoves
           => scanq = <<>> /\ \A i \in 1..Len(front) : front[i].act # "copy"]_vars
  <2> SUFFICES ASSUME TypeOK, IdlerInv, type = "move", WorkRemoves
               PROVE  scanq = <<>> /\ front = <<>>
    OBVIOUS
  <2>1. KindsOK /\ op # "remove" /\ Quietly
    BY DEF IdlerInv, KindsOK, ScanActs, Moves, Quietly
  <2>2. PICK t \in WorkTask : Works(t, "remove")
    BY DEF WorkRemoves
  <2>3. WorkCurrent # NoTask /\ WorkCurrent.act = "remove" /\ Live
    BY <2>2, Turned DEF Works, Live
  <2> QED BY <2>1, <2>3, CurrentOrdered DEF IdlerInv
<1> QED BY <1>1, IdlersAgree, TypeCorrect, PTL DEF Spec, RemovesComeLast

-----------------------------------------------------------------------------
(* A secure remove.                                                        *)

Sr(n) == [act |-> "srm", node |-> n]
Ds(n) == [act |-> "destroy", node |-> n]

\* Overwritten, if there is anything to overwrite, and scanned.
Shredded(n) == (Kind[n] = "file" => n \in wiped) /\ (Kind[n] = "dir" => n \in listed)

\* To be scanned, to be overwritten, or both done.
Shredding(n) == Has(front, {Ds(n)}) \/ Shredded(n)
Known(n) == Has(scanq, {Sr(n)}) \/ Shredding(n)

\* What leaves the source was overwritten.
GoneShredded == \A n \in Node \ src : Kind[n] = "file" => n \in wiped

\* Every entry of a directory that is read gets its tasks, the remove of a file
\* comes with the task that overwrites it, and goes after it.
TasksPaired ==
  /\ src # Node => sep = "freed"
  /\ \A n \in Node : /\ Has(front, {Ds(n)}) /\ Kind[n] = "dir" => n \in listed
                     /\ Has(back, {Rm(n)}) \/ wcur = Rm(n) => Shredding(n)
                     /\ Parent[n] \in listed => Known(n)
                     /\ dir /\ Parent[n] = scur.node => n \in ents \/ Known(n)

ShredInv == op = "srm" => GoneShredded /\ (Live /\ ~abort => TasksPaired)

LEMMA ShredTasks ==
  \A n \in Node : /\ Sr(n) \in ScanTask /\ Sr(n).node = n /\ Sr(n).act = "srm"
                  /\ Ds(n) \in WorkTask /\ Ds(n).node = n /\ Ds(n).act = "destroy"
                  /\ Rm(n) \in WorkTask /\ Rm(n).node = n /\ Rm(n).act = "remove"
BY DEF Sr, Ds, Rm, ScanTask, WorkTask, OpType

\* When nothing is left to scan and to overwrite, everything below a directory
\* that is to be removed is overwritten.
LEMMA BelowShredded ==
  ASSUME TypeOK, TasksPaired, scanq = <<>>, front = <<>>, NEW n \in Node, Shredding(n)
  PROVE  \A m \in Below(n) : Shredded(m)
<1> DEFINE S == {m \in Node : Shredded(m)}
<1>1. \A X : ~Has(scanq, X) /\ ~Has(front, X)
  BY HasEmpty
<1>2. n \in S
  BY <1>1 DEF Shredding
<1>3. ASSUME NEW x \in Node, Parent[x] \in S
      PROVE  x \in S
  <2>1. Parent[x] \in Node /\ Kind[Parent[x]] = "dir"
    BY <1>3, TreeAssumption
  <2>2. Parent[x] \in listed
    BY <1>3, <2>1 DEF Shredded
  <2>3. Known(x)
    BY <2>2 DEF TasksPaired
  <2> QED BY <1>1, <2>3 DEF Known, Shredding
<1>4. S \in SUBSET Node
  OBVIOUS
<1>5. \A m \in Below(n) : m \in S
  <2> HIDE DEF S
  <2> QED BY <1>2, <1>3, <1>4 DEF Below
<1> QED BY <1>5

\* The pairing is kept when each task moves on to the next stage.
LEMMA PairedKept ==
  ASSUME TypeOK, TasksPaired,
         src' # Node => sep' = "freed", listed \subseteq listed', wiped \subseteq wiped',
         \A n \in Node :
           /\ Has(scanq, {Sr(n)}) => Known(n)'
           /\ Has(front, {Ds(n)}) => Shredding(n)'
           /\ Has(front', {Ds(n)}) => Has(front, {Ds(n)}) \/ (Kind[n] = "dir" => n \in listed')
           /\ Has(back', {Rm(n)}) \/ wcur' = Rm(n) =>
                Has(back, {Rm(n)}) \/ wcur = Rm(n) \/ Shredding(n)'
           /\ Parent[n] \in listed' => Parent[n] \in listed \/ Known(n)'
           /\ dir' /\ Parent[n] = scur'.node =>
                n \in ents' \/ Known(n)' \/ (dir /\ scur' = scur /\ (n \in ents => n \in ents'))
  PROVE  TasksPaired'
<1> SUFFICES ASSUME NEW n \in Node
             PROVE  /\ Has(front', {Ds(n)}) /\ Kind[n] = "dir" => n \in listed'
                    /\ Has(back', {Rm(n)}) \/ wcur' = Rm(n) => Shredding(n)'
                    /\ Parent[n] \in listed' => Known(n)'
                    /\ dir' /\ Parent[n] = scur'.node => n \in ents' \/ Known(n)'
  BY DEF TasksPaired
<1>1. Shredding(n) => Shredding(n)'
  BY DEF Shredding, Shredded
<1>2. Known(n) => Known(n)'
  BY <1>1 DEF Known
<1> QED BY <1>1, <1>2 DEF TasksPaired

LEMMA ShredMain ==
  ASSUME TypeOK, KindsOK, Before, op = "srm", TasksPaired, Main
  PROVE  TasksPaired' /\ UNCHANGED <<src, wiped>>
<1>1. ~looping /\ ~dir /\ type = "srm" /\ back \in Seq(BackOf(op)) /\ scanq \in Seq(ScanOf(op))
  <2>1. ~looping
    BY DEF Main, MainLinks, MainRenames, MainGivesUp, MainQueues, MainLoops
  <2> QED BY <2>1 DEF Before, KindsOK, ScanActs, Moves
<1>2. MainQueues \/ MainLoops
  BY <1>1 DEF Main, MainLinks, MainRenames, MainGivesUp
<1>3. /\ UNCHANGED <<src, wiped, listed, front, wcur, dir>>
      /\ sep' \in {sep, "live"} /\ \E u : scanq' \in {scanq, Append(scanq, u)}
      /\ back' \in {back, Append(back, NoTask)}
  <2>1. CASE MainQueues
    BY <2>1 DEF MainQueues, diskVars
  <2>2. CASE MainLoops
    BY <2>2 DEF MainLoops, scanVars, workVars, diskVars
  <2> QED BY <1>2, <2>1, <2>2
<1>4. src = Node
  BY <1>1 DEF TasksPaired, Before
<1>5. \A n \in Node : /\ Has(scanq, {Sr(n)}) => Has(scanq', {Sr(n)})
                      /\ Has(back', {Rm(n)}) => Has(back, {Rm(n)})
  <2>1. \A n \in Node : NoTask # Rm(n)
    BY ShredTasks, NoTaskAssumption
  <2>2. \A u, n : Has(Append(scanq, u), {Sr(n)}) <=> Has(scanq, {Sr(n)}) \/ u = Sr(n)
    BY <1>1, HasAppend
  <2>3. \A n : Has(Append(back, NoTask), {Rm(n)}) <=> Has(back, {Rm(n)}) \/ NoTask = Rm(n)
    BY <1>1, HasAppend
  <2> QED BY <1>3, <2>1, <2>2, <2>3
<1>6. \A n \in Node : Shredding(n) => Shredding(n)'
  BY <1>3 DEF Shredding, Shredded
<1>7. TasksPaired'
  BY <1>1, <1>3, <1>4, <1>5, <1>6, PairedKept DEF Known, Shredding
<1> QED BY <1>3, <1>7

LEMMA ShredScan ==
  ASSUME TypeOK, KindsOK, Scanned, Ordered, Apart, Live, ScanSucceeds, op = "srm",
         TasksPaired, Scan, ~abort'
  PROVE  TasksPaired'
<1>1. /\ wcur' = wcur /\ src' = src /\ sep' = sep /\ wiped' = wiped
      /\ scanq \in Seq(ScanOf(op)) /\ front \in Seq(FrontOf(op)) /\ back \in Seq(BackOf(op))
      /\ ~ScanFails /\ ~err["scan"] /\ looping
  BY ScanSteps, Turned, NoScanFails DEF ScanStep, diskVars, KindsOK, Scanned
<1>2. \A t \in ScanTask : t = ScanCurrent =>
        /\ t.node \in Node /\ Has(scanq, {t}) /\ t.act \in {"srm", "stat"}
        /\ dir => scur = t
        /\ sep # "freed" /\ src = Node
  <2> SUFFICES ASSUME NEW t \in ScanTask, t = ScanCurrent
               PROVE  /\ t.node \in Node /\ Has(scanq, {t}) /\ t.act \in {"srm", "stat"}
                      /\ dir => scur = t
                      /\ sep # "freed" /\ src = Node
    OBVIOUS
  <2>1. t.node \in Node /\ Has(scanq, {t}) /\ t \in ScanOf(op) /\ (dir => scur = t)
    BY ApartCurrent
  <2>2. scanq # <<>>
    BY <2>1, HasEmpty
  <2> QED BY <2>1, <2>2 DEF ScanOf, ScanActs, Moves, Ordered, TasksPaired
<1>3. \A n \in Node : Shredded(n) /\ listed \subseteq listed' => Shredded(n)'
  BY <1>1 DEF Shredded
<1>4. CASE ScanEmpty \/ ScanSleeps \/ ScanHeld
  <2>1. UNCHANGED <<scanq, front, back, listed, dir, ents>> /\ (dir => scur' = scur)
    BY <1>4 DEF ScanEmpty, ScanSleeps, ScanHeld, scanVars, workVars, ScanCurrent, Apart, DirApart
  <2> QED BY <1>1, <1>3, <2>1, PairedKept DEF Known, Shredding, TasksPaired
<1>5. ~ScanGivesUp /\ ~ScanAborts
  BY <1>1 DEF ScanGivesUp, GivesUp, ScanAborts
<1>6. CASE ScanOpens
  <2>1. PICK t \in ScanTask :
          /\ t = ScanCurrent /\ scur' = t /\ dir' /\ ents' = Children(t.node) \cap src
          /\ UNCHANGED <<scanq, front, back, listed>>
    BY <1>6 DEF ScanOpens, Scans, workVars
  <2>2. \A n \in Node : Parent[n] = t.node => n \in ents'
    BY <1>2, <2>1 DEF Children
  <2> QED BY <1>1, <1>3, <2>1, <2>2, PairedKept DEF Known, Shredding, TasksPaired
<1>7. CASE ScanChild
  <2>1. PICK t \in ScanTask, c \in ents :
          /\ t = ScanCurrent /\ t.act # "stat" /\ dir
          /\ scanq' = Queued([act |-> t.act, node |-> c], t.act)
          /\ ents' = ents \ {c} /\ scur' = t /\ UNCHANGED <<front, back, dir, listed>>
    BY <1>7, Zenon DEF ScanChild, Scans, workVars
  <2>2. t.act = "srm" /\ scur = t /\ c \in Node
    BY <1>2, <2>1 DEF TypeOK, ScanOK
  <2> DEFINE u == Sr(c)
  <2>3. scanq' = Queued(u, t.act) /\ u \in ScanOf(op)
    BY <2>1, <2>2 DEF Sr, ScanOf, ScanActs, Moves
  <2>4. u = Sr(c)
    OBVIOUS
  <2> HIDE DEF u
  <2>5. \A n \in Node : /\ Has(scanq, {Sr(n)}) => Has(scanq', {Sr(n)})
                        /\ n = c => Has(scanq', {Sr(n)})
    BY <1>1, <2>3, <2>4, QueuedFacts
  <2> QED BY <1>1, <1>3, <2>1, <2>2, <2>5, PairedKept DEF Known, Shredding, TasksPaired
<1>8. CASE ScanDirRead
  <2>1. PICK t \in ScanTask :
          /\ t = ScanCurrent /\ dir /\ ents = {}
          /\ scanq' = Queued([act |-> "stat", node |-> t.node], t.act)
          /\ listed' = listed \cup {t.node} /\ ~dir' /\ UNCHANGED <<front, back>>
    BY <1>8 DEF ScanDirRead, Scans, workVars
  <2> DEFINE u == [act |-> "stat", node |-> t.node]
  <2>2. scanq' = Queued(u, t.act) /\ u \in ScanOf(op) /\ scur = t
    BY <1>2, <2>1 DEF ScanOf
  <2> HIDE DEF u
  <2>3. \A n \in Node : Has(scanq, {Sr(n)}) => Has(scanq', {Sr(n)})
    BY <1>1, <2>2, QueuedFacts
  <2>4. \A n \in Node : Shredded(n) => Shredded(n)'
    BY <1>3, <2>1
  <2>5. \A n \in Node : Known(n) => Known(n)'
    BY <2>1, <2>3, <2>4 DEF Known, Shredding
  <2>6. \A n \in Node : Parent[n] = t.node => Known(n)
    BY <2>1, <2>2 DEF TasksPaired
  <2> QED BY <1>1, <2>1, <2>4, <2>5, <2>6, PairedKept DEF Known, Shredding, TasksPaired
<1>9. CASE ScanPushes
  <2>1. PICK t \in ScanTask :
          /\ t = ScanCurrent /\ ~dir /\ ~dir' /\ Pushes(t) /\ scanq' = Without(scanq, t)
          /\ t.act = "stat" \/ t.node \in listed \/ ~IsDirScan(t)
          /\ listed' = listed
    BY <1>9 DEF ScanPushes, Scans
  <2>2. \A n \in Node : Has(scanq, {Sr(n)}) /\ t # Sr(n) => Has(scanq', {Sr(n)})
    BY <1>1, <2>1, HasWithout
  <2>3. CASE t.act = "stat"
    <3> DEFINE u == [act |-> "stat", node |-> t.node]
    <3>1. front' = front /\ back' = Append(back, u) /\ \A n \in Node : u # Rm(n) /\ t # Sr(n)
      BY <2>1, <2>3, ShredTasks DEF Pushes, Rm
    <3> HIDE DEF u
    <3>2. \A n \in Node : Has(back', {Rm(n)}) => Has(back, {Rm(n)})
      BY <1>1, <3>1, HasAppend
    <3> QED BY <1>1, <1>3, <2>1, <2>2, <3>1, <3>2, PairedKept DEF Known, Shredding, TasksPaired
  <2>4. CASE t.act = "srm"
    <3> DEFINE m == t.node
               u == Ds(m)
               v == Rm(m)
    <3>1. /\ front' = <<u>> \o front /\ back' \in {back, <<v>> \o back}
          /\ m \in Node /\ (Kind[m] = "dir" => m \in listed)
          /\ \A n \in Node : (t = Sr(n) <=> n = m) /\ (v = Rm(n) <=> n = m) /\ (u = Ds(n) <=> n = m)
      <4>1. front' = <<[act |-> "destroy", node |-> m]>> \o front /\ back' \in {back, <<Rm(m)>> \o back}
        BY <2>1, <2>4 DEF Pushes, LinksRemove, Rm
      <4>2. m \in Node /\ (Kind[m] = "dir" => m \in listed)
        BY <1>2, <2>1, <2>4 DEF IsDirScan
      <4>3. \A n \in Node : (t = Sr(n) <=> n = m)
        BY <2>4 DEF Sr, ScanTask
      <4>4. \A n \in Node : (Rm(m) = Rm(n) <=> n = m) /\ (Ds(m) = Ds(n) <=> n = m)
        BY <4>2, ShredTasks
      <4> QED BY <4>1, <4>2, <4>3, <4>4 DEF Ds
    <3>2. u = Ds(m)
      OBVIOUS
    <3> HIDE DEF u, v, m
    <3>3. \A n \in Node : Has(front', {Ds(n)}) <=> Has(front, {Ds(n)}) \/ n = m
      BY <1>1, <3>1, HasCons
    <3>4. \A n \in Node : Has(back', {Rm(n)}) => Has(back, {Rm(n)}) \/ n = m
      <4>1. \A n \in Node : Has(<<v>> \o back, {Rm(n)}) <=> Has(back, {Rm(n)}) \/ v = Rm(n)
        BY <1>1, HasCons
      <4> QED BY <3>1, <4>1
    <3> QED BY <1>1, <1>3, <2>1, <2>2, <3>1, <3>3, <3>4, PairedKept DEF Known, Shredding, TasksPaired
  <2> QED BY <1>2, <2>1, <2>3, <2>4
<1> QED BY <1>1, <1>4, <1>5, <1>6, <1>7, <1>8, <1>9 DEF Scan

\* What leaves the source in a step of the work idler.
LEMMA WorkDisk ==
  ASSUME TypeOK, Work
  PROVE  /\ wiped \subseteq wiped' /\ listed' = listed /\ dir' = dir /\ scur' = scur /\ ents' = ents
         /\ src' = src \/ WorkRemoves \/ WorkRenames
<1> USE DEF diskVars
<1>0. listed' = listed /\ dir' = dir /\ scur' = scur /\ ents' = ents
  BY WorkSteps DEF WorkStep
<1>1. CASE \/ WorkDropsSeparator \/ WorkFindsNothing \/ WorkSleeps \/ WorkHeld \/ WorkGivesUp \/ WorkAborts
           \/ WorkAsks \/ WorkDeclines \/ WorkCopiesAtOnce \/ WorkOpens \/ WorkCopiesNothing
  BY <1>0, <1>1 DEF WorkDropsSeparator, WorkFindsNothing, WorkSleeps, WorkHeld, WorkGivesUp, WorkAborts,
              WorkAsks, WorkDeclines, WorkCopiesAtOnce, WorkOpens, WorkCopiesNothing
<1>2. CASE \/ WorkCopiesChunk \/ WorkReachesEof \/ WorkFails \/ WorkStats \/ WorkSymlinks
           \/ WorkWipes \/ WorkWipesNothing
  BY <1>0, <1>2 DEF WorkCopiesChunk, WorkReachesEof, WorkFails, WorkStats, WorkSymlinks, WorkWipes, WorkWipesNothing
<1>3. CASE WorkRemoves \/ WorkRenames
  BY <1>0, <1>3 DEF WorkRemoves, WorkRenames, Renamed
<1> QED BY <1>0, <1>1, <1>2, <1>3 DEF Work

\* A task that overwrites leaves the queue when it has done so, or has nothing
\* to overwrite.
LEMMA WorkShreds ==
  ASSUME TypeOK, "wipe" \notin Faulty, Work, ~abort', ~GivesUp("work"),
         NEW n \in Node, WorkCurrent = Ds(n), front' # front
  PROVE  Kind[n] = "file" => n \in wiped' \/ n \notin src
<1>1. WorkCurrent.act = "destroy" /\ WorkCurrent.node = n /\ WorkCurrent # NoTask
  BY ShredTasks, NoTaskAssumption
<1>2. \A f : ~(f = "wipe" /\ CanFail(f))
  BY DEF CanFail
<1>3. CASE WorkDropsSeparator \/ WorkFindsNothing \/ WorkSleeps \/ WorkHeld \/ WorkGivesUp \/ WorkAborts
  BY <1>1, <1>3 DEF WorkDropsSeparator, WorkFindsNothing, WorkSleeps, WorkHeld, WorkGivesUp, WorkAborts, workVars
<1>4. CASE WorkWipes
  BY <1>1, <1>4 DEF WorkWipes, Works, Stays
<1>5. CASE WorkWipesNothing
  BY <1>1, <1>2, <1>5 DEF WorkWipesNothing, Works
<1>6. CASE \/ WorkAsks \/ WorkDeclines \/ WorkCopiesAtOnce \/ WorkOpens \/ WorkCopiesNothing
           \/ WorkCopiesChunk \/ WorkReachesEof \/ WorkFails
  BY <1>1, <1>6 DEF WorkAsks, WorkDeclines, WorkCopiesAtOnce, WorkOpens, WorkCopiesNothing,
                    WorkCopiesChunk, WorkReachesEof, WorkFails, Works, AsksFirst, Stays
<1>7. CASE WorkStats \/ WorkRemoves \/ WorkSymlinks \/ WorkRenames
  BY <1>1, <1>7 DEF WorkStats, WorkRemoves, WorkSymlinks, WorkRenames, Works
<1> QED BY <1>3, <1>4, <1>5, <1>6, <1>7 DEF Work

LEMMA GoneWork ==
  ASSUME TypeOK, KindsOK, Ordered, op = "srm", GoneShredded, Live /\ ~abort => TasksPaired, Work
  PROVE  /\ GoneShredded'
         /\ src' # src => sep' = "freed"
<1>1. CASE src' = src
  BY <1>1, WorkDisk DEF GoneShredded
<1>2. CASE WorkRenames
  <2>1. PICK t \in WorkTask : WorkCurrent = t /\ t.act = "rename"
    BY <1>2 DEF WorkRenames, Works
  <2>2. t \in WorkOf(op)
    BY <2>1, KindTasks, NoTaskAssumption
  <2> QED BY <2>1, <2>2 DEF WorkOf, FrontActs, BackActs, Moves
<1>3. CASE WorkRemoves
  <2>1. PICK t \in WorkTask :
          /\ Works(t, "remove") /\ WorkCurrent = t /\ t.act = "remove" /\ t.node \in src /\ ~abort
          /\ \/ src' = src \ {t.node} \/ src' = src \ Below(t.node)
          /\ sep' = sep
    BY <1>3 DEF WorkRemoves, Works, Finishes, Dequeues
  <2> DEFINE n == t.node
  <2>2. t = Rm(n) /\ n \in Node /\ t # NoTask
    BY <2>1, NoTaskAssumption DEF WorkTask, Rm
  <2>3. Live /\ TasksPaired
    BY <2>1, Turned DEF Works, Live
  <2>4. sep = "freed" /\ scanq = <<>> /\ front = <<>>
    BY <2>1, <2>2, <2>3, CurrentOrdered
  <2>5. Has(back, {Rm(n)}) \/ wcur = Rm(n)
    <3>1. CASE wcur # NoTask
      BY <2>1, <2>2, <3>1 DEF WorkCurrent
    <3>2. CASE wcur = NoTask
      BY <2>1, <2>2, <2>4, <3>2, KindTasks
    <3> QED BY <3>1, <3>2
  <2>6. Shredding(n)
    BY <2>2, <2>3, <2>5 DEF TasksPaired
  <2> HIDE DEF n
  <2>7. Shredded(n) /\ \A m \in Below(n) : Shredded(m)
    <3>1. ~Has(front, {Ds(n)})
      BY <2>4, HasEmpty
    <3> QED BY <2>2, <2>3, <2>4, <2>6, <3>1, BelowShredded DEF Shredding
  <2>8. \A m \in Node \ src' : m \in src => m = n \/ m \in Below(n)
    BY <2>1 DEF n
  <2> QED BY <2>1, <2>4, <2>7, <2>8, WorkDisk DEF GoneShredded, Shredded
<1> QED BY <1>1, <1>2, <1>3, WorkDisk

LEMMA ShredWork ==
  ASSUME TypeOK, KindsOK, Marked, Ordered, Live, op = "srm", "wipe" \notin Faulty,
         GoneShredded, TasksPaired, Work, ~abort, ~abort'
  PROVE  TasksPaired'
<1>1. /\ wiped \subseteq wiped' /\ listed' = listed /\ dir' = dir /\ scur' = scur /\ ents' = ents
      /\ scanq' = scanq /\ WorkQueues
      /\ front \in Seq(FrontOf(op)) /\ back \in Seq(BackOf(op))
  BY WorkDisk, WorkSteps DEF KindsOK, WorkStep
<1>2. src' # Node => sep' = "freed"
  BY GoneWork, WorkSeparator DEF TasksPaired
<1>3. \A n \in Node : Shredded(n) => Shredded(n)'
  BY <1>1 DEF Shredded
<1>4. ASSUME NEW n \in Node, Has(front, {Ds(n)}) PROVE Shredding(n)'
  <2>1. CASE front' = front
    BY <1>4, <2>1 DEF Shredding
  <2>2. CASE front' # front
    <3>1. front' = Without(front, WorkCurrent) /\ WorkCurrent # NoTask
      BY <1>1, <2>2 DEF WorkQueues
    <3>2. CASE WorkCurrent # Ds(n)
      BY <1>1, <1>4, <3>1, <3>2, HasWithout DEF Shredding
    <3>3. CASE WorkCurrent = Ds(n)
      <4>1. ~GivesUp("work")
        <5>1. WorkCurrent.act = "destroy"
          BY <3>3, ShredTasks
        <5> QED BY <5>1 DEF GivesUp, Marked, Failing, WorkCurrent
      <4>2. src = Node
        BY <1>4, HasEmpty DEF TasksPaired, Ordered
      <4>3. Kind[n] = "file" => n \in wiped'
        BY <1>4, <2>2, <3>3, <4>1, <4>2, WorkShreds
      <4>4. Kind[n] = "dir" => n \in listed'
        BY <1>1, <1>4 DEF TasksPaired
      <4> QED BY <4>3, <4>4 DEF Shredding, Shredded
    <3> QED BY <3>2, <3>3
  <2> QED BY <2>1, <2>2
<1>5. \A X : Has(front', X) => Has(front, X)
  BY <1>1, HasWithout DEF WorkQueues
<1>6. \A X : Has(back', X) => Has(back, X)
  <2>1. /\ \A X : Has(Unlinked(WorkCurrent), X) => Has(back, X)
        /\ Unlinked(WorkCurrent) \in Seq(BackOf(op))
    BY <1>1, HasWithout, WithoutType DEF Unlinked
  <2>2. /\ \A X : Has(Without(back, WorkCurrent), X) => Has(back, X)
        /\ \A X : Has(Without(Unlinked(WorkCurrent), WorkCurrent), X) => Has(Unlinked(WorkCurrent), X)
    BY <1>1, <2>1, HasWithout
  <2>3. back' \in {back, Unlinked(WorkCurrent), Without(back, WorkCurrent),
                   Without(Unlinked(WorkCurrent), WorkCurrent)}
    BY <1>1 DEF WorkQueues
  <2> QED BY <2>1, <2>2, <2>3
<1>7. \A n \in Node : wcur' = Rm(n) => wcur = Rm(n) \/ Has(back, {Rm(n)})
  <2> SUFFICES ASSUME NEW n \in Node, wcur' = Rm(n), wcur # Rm(n)
               PROVE  Has(back, {Rm(n)})
    OBVIOUS
  <2>1. Rm(n) # NoTask /\ Rm(n).act = "remove"
    BY ShredTasks, NoTaskAssumption
  <2>2. WorkCurrent = Rm(n) /\ wcur = NoTask
    BY <1>1, <2>1 DEF WorkQueues, WorkCurrent
  <2>3. front = <<>>
    BY <2>1, <2>2, CurrentOrdered
  <2> QED BY <2>1, <2>2, <2>3, KindTasks
<1> QED BY <1>1, <1>2, <1>3, <1>4, <1>5, <1>6, <1>7, PairedKept DEF Known, Shredding

LEMMA ShredStep ==
  ASSUME TypeOK, IdlerInv, ScanSucceeds, "wipe" \notin Faulty, ShredInv, [Next]_vars
  PROVE  ShredInv'
<1> SUFFICES ASSUME op = "srm" \/ op' = "srm"
             PROVE  op' = "srm" => GoneShredded' /\ (Live' /\ ~abort' => TasksPaired')
  BY DEF ShredInv
<1>1. CASE Exited \/ UNCHANGED vars
  <2>1. UNCHANGED vars
    BY <1>1 DEF Exited
  <2> QED BY <2>1 DEF vars, mainVars, argVars, scanVars, workVars, passVars, ctlVars, diskVars, ShredInv,
                      GoneShredded, Live, TasksPaired, Known, Shredding, Shredded
<1>2. CASE User
  BY <1>2 DEF User, AnswerError, AnswerOverwrite, AbortArrives, mainVars, argVars, scanVars, workVars,
              passVars, diskVars, ShredInv, GoneShredded, Live, TasksPaired, Known, Shredding, Shredded
<1>3. CASE Main
  <2>1. op' = op
    BY <1>3 DEF Main, MainLinks, MainRenames, MainGivesUp, MainQueues, MainLoops, mainVars, argVars
  <2>2. Live /\ KindsOK /\ Before /\ abort' = abort
    <3>1. ~looping /\ abort' = abort
      BY <1>3 DEF Main, MainLinks, MainRenames, MainGivesUp, MainQueues, MainLoops, ctlVars
    <3> QED BY <3>1 DEF IdlerInv, Before, Live
  <2>3. CASE ~abort
    <3>1. TasksPaired' /\ UNCHANGED <<src, wiped>>
      BY <1>3, <2>1, <2>2, <2>3, ShredMain DEF ShredInv
    <3> QED BY <2>1, <3>1 DEF ShredInv, GoneShredded
  <2>4. CASE abort
    <3>1. UNCHANGED <<src, wiped>>
      <4>1. type = "srm"
        BY <2>1, <2>2 DEF KindsOK, ScanActs, Moves
      <4> QED BY <1>3, <4>1 DEF Main, MainLinks, MainRenames, MainGivesUp, MainQueues, MainLoops, diskVars
    <3> QED BY <2>1, <2>2, <2>4, <3>1 DEF ShredInv, GoneShredded
  <2> QED BY <2>3, <2>4 DEF TypeOK, CtlOK
<1>4. CASE Scan
  <2>1. op' = op /\ (Live' => Live) /\ (abort => abort') /\ UNCHANGED <<src, wiped>>
    BY <1>4, ScanSteps, Turned DEF ScanStep, mainVars, argVars, diskVars
  <2>2. Quietly
    BY <2>1 DEF Quietly
  <2>3. Live' /\ ~abort' => TasksPaired'
    BY <1>4, <2>1, <2>2, ShredScan DEF IdlerInv, ShredInv
  <2> QED BY <2>1, <2>3 DEF ShredInv, GoneShredded
<1>5. CASE Work
  <2>1. op' = op /\ (Live' => Live) /\ (abort => abort')
    BY <1>5, WorkSteps, Turned DEF WorkStep, mainVars, argVars
  <2>2. Quietly /\ Surely
    BY <2>1 DEF Quietly, Surely
  <2>3. Live' /\ ~abort' => TasksPaired'
    BY <1>5, <2>1, <2>2, ShredWork DEF IdlerInv, ShredInv
  <2>4. GoneShredded'
    BY <1>5, <2>1, <2>2, GoneWork DEF IdlerInv, ShredInv
  <2> QED BY <2>1, <2>3, <2>4
<1> QED BY <1>1, <1>2, <1>3, <1>4, <1>5 DEF Next

LEMMA ShredInit == Init => ShredInv
<1> SUFFICES ASSUME Init PROVE GoneShredded /\ TasksPaired
  BY DEF ShredInv
<1>1. /\ src = Node /\ front = <<>> /\ back = <<>> /\ wcur = NoTask /\ listed = {} /\ ~dir
  BY DEF Init
<1>2. /\ \A X : ~Has(<<>>, X)
      /\ \A n \in Node : NoTask # Rm(n)
  BY HasEmpty, ShredTasks, NoTaskAssumption
<1> QED BY <1>1, <1>2 DEF GoneShredded, TasksPaired

\* A secure remove has overwritten every file it removed, in every tree and in
\* every order of the idlers, the answers and the failing removes, as long as
\* no scan and no overwriting fails: neither a remove that fails and is retried
\* or ignored, nor one of a directory that is not empty and takes everything
\* below with it, takes a file before its turn.
THEOREM RemovedIsShredded ==
  ASSUME ScanSucceeds, "wipe" \notin Faulty
  PROVE  Spec => []ShreddedFirst
<1>1. Init => ShredInv
  BY ShredInit
<1>2. TypeOK /\ IdlerInv /\ ShredInv /\ [Next]_vars => ShredInv'
  BY ShredStep
<1>3. ShredInv => ShreddedFirst
  BY DEF ShredInv, GoneShredded, ShreddedFirst
<1> QED BY <1>1, <1>2, <1>3, IdlersAgree, TypeCorrect, PTL DEF Spec

-----------------------------------------------------------------------------
(* A secure remove in which scans fail.                                    *)

\* Overwritten, or taken by the recursive remove of a directory above.
Taken(n) == Kind[n] = "file" => n \in wiped \/ \E m \in recursed : n \in Below(m)

GoneTaken == \A n \in Node \ src : Taken(n)

\* The removes are behind the separator, and each after its partner.
Separated ==
  /\ sep # "none" /\ (sep = "freed" => front = <<>>)
  /\ \A n \in Node : /\ wcur = Rm(n) => sep = "freed"
                     /\ wcur = Ds(n) => Has(front, {Ds(n)})
                     /\ Has(back, {Rm(n)}) \/ wcur = Rm(n) => Has(front, {Ds(n)}) \/ Taken(n)

TakenInv == op = "srm" => GoneTaken /\ (Live /\ ~abort /\ ~crashed => Separated)

LEMMA TakenScan ==
  ASSUME TypeOK, KindsOK, op = "srm", Separated, Scan, ~crashed'
  PROVE  Separated'
<1>1. /\ wcur' = wcur /\ sep' = sep /\ wiped' = wiped /\ ScanQueues
      /\ front \in Seq(FrontOf(op)) /\ back \in Seq(BackOf(op))
      /\ ScanCurrent \in ScanOf(op) \cup {NoTask}
  BY ScanSteps, KindTasks DEF ScanStep, diskVars, KindsOK
<1>2. recursed' = recursed
  BY DEF Scan, ScanEmpty, ScanSleeps, ScanHeld, ScanGivesUp, ScanAborts, ScanFails, ScanOpens, ScanChild,
         ScanDirRead, ScanPushes, histVars
<1>3. CASE UNCHANGED <<front, back>>
  BY <1>1, <1>2, <1>3 DEF Separated, Taken
<1>4. ASSUME NEW t \in ScanTask, t = ScanCurrent, Pushes(t) PROVE Separated'
  <2>1. t.act \in {"srm", "stat"} /\ t.node \in Node
    BY <1>1, <1>4, NoTaskAssumption DEF ScanOf, ScanActs, Moves
  <2>2. CASE t.act = "stat"
    <3> DEFINE u == [act |-> "stat", node |-> t.node]
    <3>1. front' = front /\ back' = Append(back, u) /\ \A n \in Node : u # Rm(n)
      BY <1>4, <2>2 DEF Pushes, Rm
    <3> HIDE DEF u
    <3>2. \A n \in Node : Has(back', {Rm(n)}) => Has(back, {Rm(n)})
      BY <1>1, <3>1, HasAppend
    <3> QED BY <1>1, <1>2, <3>1, <3>2 DEF Separated, Taken
  <2>3. CASE t.act = "srm"
    <3> DEFINE m == t.node
               u == Ds(m)
               v == Rm(m)
    <3>1. front' = <<u>> \o front /\ back' = <<v>> \o back /\ sep = "live"
      BY <1>4, <2>3 DEF Pushes, LinksRemove, Rm, Ds
    <3>2. \A n \in Node : (v = Rm(n) <=> n = m) /\ (u = Ds(n) <=> n = m)
      BY <2>1, ShredTasks
    <3> HIDE DEF u, v, m
    <3>3. \A n \in Node : Has(front', {Ds(n)}) <=> Has(front, {Ds(n)}) \/ n = m
      BY <1>1, <3>1, <3>2, HasCons
    <3>4. \A n \in Node : Has(back', {Rm(n)}) => Has(back, {Rm(n)}) \/ n = m
      <4>1. \A n \in Node : Has(<<v>> \o back, {Rm(n)}) <=> Has(back, {Rm(n)}) \/ v = Rm(n)
        BY <1>1, HasCons
      <4> QED BY <3>1, <3>2, <4>1
    <3> QED BY <1>1, <1>2, <3>1, <3>3, <3>4 DEF Separated, Taken
  <2> QED BY <2>1, <2>2, <2>3
<1> QED BY <1>1, <1>3, <1>4 DEF ScanQueues

\* The task at the work idler, of a secure remove.
LEMMA TakenCurrent ==
  ASSUME TypeOK, KindsOK, op = "srm", Separated, NEW n \in Node
  PROVE  /\ WorkCurrent = Rm(n) => /\ sep = "freed" /\ front = <<>> /\ Taken(n)
                                   /\ Has(back, {Rm(n)}) \/ wcur = Rm(n)
         /\ WorkCurrent = Ds(n) => Has(front, {Ds(n)})
<1>1. Rm(n) # NoTask /\ Ds(n) # NoTask /\ Rm(n).act = "remove" /\ Ds(n).act = "destroy"
  BY ShredTasks, NoTaskAssumption
<1>2. front = <<>> => ~Has(front, {Ds(n)})
  BY HasEmpty
<1>3. CASE wcur # NoTask
  BY <1>2, <1>3 DEF WorkCurrent, Separated
<1>4. CASE wcur = NoTask /\ front # <<>>
  <2>1. WorkCurrent # NoTask => WorkCurrent \in FrontOf(op) /\ Has(front, {WorkCurrent})
    BY <1>4, KindTasks
  <2> QED BY <1>1, <2>1 DEF FrontOf, FrontActs, Moves
<1>5. CASE wcur = NoTask /\ front = <<>>
  <2>1. WorkCurrent # NoTask => WorkCurrent \in BackOf(op) /\ Has(back, {WorkCurrent}) /\ sep # "live"
    BY <1>5, KindTasks
  <2>2. WorkCurrent # Ds(n)
    BY <1>1, <2>1 DEF BackOf, BackActs, Moves
  <2> QED BY <1>1, <1>2, <1>5, <2>1, <2>2 DEF Separated, TypeOK, WorkOK
<1> QED BY <1>3, <1>4, <1>5

LEMMA TakenGrows == TypeOK /\ Work => wiped \subseteq wiped' /\ recursed \subseteq recursed'
<1> SUFFICES ASSUME TypeOK, Work PROVE recursed \subseteq recursed'
  BY WorkDisk
<1> USE DEF histVars
<1>1. CASE \/ WorkDropsSeparator \/ WorkFindsNothing \/ WorkSleeps \/ WorkHeld \/ WorkGivesUp \/ WorkAborts
           \/ WorkAsks \/ WorkDeclines \/ WorkCopiesAtOnce \/ WorkOpens \/ WorkCopiesNothing
  BY <1>1 DEF WorkDropsSeparator, WorkFindsNothing, WorkSleeps, WorkHeld, WorkGivesUp, WorkAborts,
              WorkAsks, WorkDeclines, WorkCopiesAtOnce, WorkOpens, WorkCopiesNothing
<1>2. CASE \/ WorkCopiesChunk \/ WorkReachesEof \/ WorkFails \/ WorkStats \/ WorkSymlinks
           \/ WorkRemoves \/ WorkRenames \/ WorkWipes \/ WorkWipesNothing
  BY <1>2 DEF WorkCopiesChunk, WorkReachesEof, WorkFails, WorkStats, WorkSymlinks, WorkRemoves, WorkRenames,
              WorkWipes, WorkWipesNothing
<1> QED BY <1>1, <1>2 DEF Work

LEMMA GoneTakenWork ==
  ASSUME TypeOK, KindsOK, op = "srm", GoneTaken, Live /\ ~abort /\ ~crashed => Separated, Work
  PROVE  GoneTaken'
<1>0. \A n \in Node : Taken(n) => Taken(n)'
  BY TakenGrows DEF Taken
<1>1. CASE src' = src
  BY <1>0, <1>1 DEF GoneTaken
<1>2. CASE WorkRenames
  <2>1. PICK t \in WorkTask : WorkCurrent = t /\ t.act = "rename"
    BY <1>2 DEF WorkRenames, Works
  <2>2. t \in WorkOf(op)
    BY <2>1, KindTasks, NoTaskAssumption
  <2> QED BY <2>1, <2>2 DEF WorkOf, FrontActs, BackActs, Moves
<1>3. CASE WorkRemoves
  <2>1. PICK t \in WorkTask :
          /\ Works(t, "remove") /\ WorkCurrent = t /\ t.act = "remove" /\ ~abort
          /\ \/ src' = src \ {t.node}
             \/ src' = src \ Below(t.node) /\ recursed' = recursed \cup {t.node}
    BY <1>3 DEF WorkRemoves, Works
  <2> DEFINE n == t.node
  <2>2. WorkCurrent = Rm(n) /\ n \in Node
    BY <2>1 DEF WorkTask, Rm
  <2>3. Separated
    BY <2>1, Turned DEF Works, Live, Turn, Running
  <2>4. Taken(n)
    BY <2>2, <2>3, TakenCurrent
  <2> HIDE DEF n
  <2>5. \A m \in Node \ src' : m \notin src \/ m = n \/ \E x \in recursed' : m \in Below(x)
    BY <2>1 DEF n
  <2> QED BY <1>0, <2>4, <2>5 DEF GoneTaken, Taken
<1> QED BY <1>1, <1>2, <1>3, WorkDisk

LEMMA TakenWork ==
  ASSUME TypeOK, KindsOK, Marked, Live, op = "srm", "wipe" \notin Faulty,
         GoneTaken, Separated, Work, ~abort, ~abort'
  PROVE  Separated'
<1>1. /\ WorkQueues /\ front \in Seq(FrontOf(op)) /\ back \in Seq(BackOf(op))
  BY WorkSteps DEF KindsOK
<1>2. \A n \in Node : Taken(n) => Taken(n)'
  BY TakenGrows DEF Taken
<1>3. ASSUME NEW n \in Node, Has(front, {Ds(n)}) PROVE Has(front', {Ds(n)}) \/ Taken(n)'
  <2>1. CASE front' = front
    BY <1>3, <2>1
  <2>2. CASE front' # front
    <3>1. front' = Without(front, WorkCurrent) /\ WorkCurrent # NoTask
      BY <1>1, <2>2 DEF WorkQueues
    <3>2. CASE WorkCurrent # Ds(n)
      BY <1>1, <1>3, <3>1, <3>2, HasWithout
    <3>3. CASE WorkCurrent = Ds(n)
      <4>1. ~GivesUp("work")
        <5>1. WorkCurrent.act = "destroy"
          BY <3>3, ShredTasks
        <5> QED BY <5>1 DEF GivesUp, Marked, Failing, WorkCurrent
      <4>2. Kind[n] = "file" => n \in wiped' \/ n \notin src
        BY <2>2, <3>3, <4>1, WorkShreds
      <4>3. n \notin src => Taken(n)
        BY DEF GoneTaken
      <4> QED BY <1>2, <4>2, <4>3 DEF Taken
    <3> QED BY <3>2, <3>3
  <2> QED BY <2>1, <2>2
<1>4. \A X : Has(back', X) => Has(back, X)
  <2>1. /\ \A X : Has(Unlinked(WorkCurrent), X) => Has(back, X)
        /\ Unlinked(WorkCurrent) \in Seq(BackOf(op))
    BY <1>1, HasWithout, WithoutType DEF Unlinked
  <2>2. /\ \A X : Has(Without(back, WorkCurrent), X) => Has(back, X)
        /\ \A X : Has(Without(Unlinked(WorkCurrent), WorkCurrent), X) => Has(Unlinked(WorkCurrent), X)
    BY <1>1, <2>1, HasWithout
  <2>3. back' \in {back, Unlinked(WorkCurrent), Without(back, WorkCurrent),
                   Without(Unlinked(WorkCurrent), WorkCurrent)}
    BY <1>1 DEF WorkQueues
  <2> QED BY <2>1, <2>2, <2>3
<1>5. sep' # "none" /\ (sep' = "freed" => front' = <<>>) /\ (sep = "freed" => sep' = "freed")
  <2>1. Without(<<>>, WorkCurrent) = <<>>
    BY DEF Without
  <2> QED BY <1>1, <2>1, WorkSeparator DEF Separated, WorkQueues
<1>6. ASSUME NEW n \in Node
      PROVE  /\ wcur' = Rm(n) => sep = "freed" /\ (Has(back, {Rm(n)}) \/ wcur = Rm(n))
             /\ wcur' = Ds(n) => Has(front', {Ds(n)})
  <2>1. Rm(n) # NoTask /\ Ds(n) # NoTask
    BY ShredTasks, NoTaskAssumption
  <2>2. wcur' # NoTask => front' = front /\ wcur' \in {wcur, WorkCurrent}
    BY <1>1 DEF WorkQueues
  <2>3. CASE wcur' = wcur
    BY <2>1, <2>2, <2>3 DEF Separated
  <2>4. CASE wcur' = WorkCurrent
    BY <2>1, <2>2, <2>4, TakenCurrent
  <2> QED BY <2>1, <2>2, <2>3, <2>4
<1> QED BY <1>2, <1>3, <1>4, <1>5, <1>6 DEF Separated

LEMMA TakenStep ==
  ASSUME TypeOK, IdlerInv, "wipe" \notin Faulty, TakenInv, [Next]_vars
  PROVE  TakenInv'
<1> SUFFICES ASSUME op = "srm" \/ op' = "srm"
             PROVE  op' = "srm" => GoneTaken' /\ (Live' /\ ~abort' /\ ~crashed' => Separated')
  BY DEF TakenInv
<1>1. CASE Exited \/ UNCHANGED vars
  <2>1. UNCHANGED vars
    BY <1>1 DEF Exited
  <2> QED BY <2>1 DEF vars, mainVars, argVars, scanVars, workVars, passVars, ctlVars, diskVars, histVars,
                      TakenInv, GoneTaken, Live, Separated, Taken
<1>2. CASE User
  BY <1>2 DEF User, AnswerError, AnswerOverwrite, AbortArrives, mainVars, argVars, scanVars, workVars,
              passVars, diskVars, histVars, TakenInv, GoneTaken, Live, Separated, Taken
<1>3. CASE Main
  <2>1. /\ op' = op /\ ~looping /\ abort' = abort /\ crashed' = crashed
        /\ recursed' = recursed /\ wcur' = wcur /\ front' = front
    BY <1>3 DEF Main, MainLinks, MainRenames, MainGivesUp, MainQueues, MainLoops, argVars, mainVars,
                ctlVars, passVars, histVars, workVars
  <2>2. /\ Live /\ wcur = NoTask /\ front = <<>> /\ type = "srm"
        /\ back \in Seq(BackOf(op)) /\ sep # "freed"
    BY <2>1 DEF IdlerInv, Before, Live, KindsOK, ScanActs, Moves
  <2>3. UNCHANGED <<src, wiped, sep, back>>
    BY <1>3, <2>2 DEF Main, MainLinks, MainRenames, MainGivesUp, MainQueues, MainLoops, ArgType, diskVars, workVars
  <2> QED BY <2>1, <2>2, <2>3 DEF TakenInv, GoneTaken, Separated, Taken
<1>4. CASE Scan
  <2>1. op' = op /\ (Live' => Live) /\ (abort => abort') /\ UNCHANGED <<src, wiped>> /\ ~crashed
    BY <1>4, ScanSteps, Turned DEF ScanStep, mainVars, argVars, diskVars, Turn, Running
  <2>2. recursed' = recursed
    BY <1>4 DEF Scan, ScanEmpty, ScanSleeps, ScanHeld, ScanGivesUp, ScanAborts, ScanFails, ScanOpens, ScanChild,
           ScanDirRead, ScanPushes, histVars
  <2>3. Live' /\ ~abort' /\ ~crashed' => Separated'
    BY <1>4, <2>1, TakenScan DEF IdlerInv, TakenInv
  <2> QED BY <2>1, <2>2, <2>3 DEF TakenInv, GoneTaken, Taken
<1>5. CASE Work
  <2>1. op' = op /\ (Live' => Live) /\ (abort => abort') /\ ~crashed
    BY <1>5, WorkSteps, Turned DEF WorkStep, mainVars, argVars, Turn, Running
  <2>2. Surely
    BY <2>1 DEF Surely
  <2>3. Live' /\ ~abort' => Separated'
    BY <1>5, <2>1, <2>2, TakenWork DEF IdlerInv, TakenInv
  <2>4. GoneTaken'
    BY <1>5, <2>1, <2>2, GoneTakenWork DEF IdlerInv, TakenInv
  <2> QED BY <2>1, <2>3, <2>4
<1> QED BY <1>1, <1>2, <1>3, <1>4, <1>5 DEF Next

LEMMA TakenInit == Init => TakenInv
<1> SUFFICES ASSUME Init, op = "srm" PROVE GoneTaken /\ Separated
  BY DEF TakenInv
<1>1. /\ src = Node /\ front = <<>> /\ back = <<>> /\ wcur = NoTask /\ sep = "live"
  BY DEF Init
<1>2. /\ \A X : ~Has(<<>>, X)
      /\ \A n \in Node : NoTask # Rm(n) /\ NoTask # Ds(n)
  BY HasEmpty, ShredTasks, NoTaskAssumption
<1> QED BY <1>1, <1>2 DEF GoneTaken, Separated

\* A file that a secure remove has taken away without overwriting it was below a
\* directory that was removed with what was left in it: another program, or a
\* scan that failed, had kept it from being listed.
ShreddedOrTaken ==
  op = "srm" =>
    \A n \in Node \ src : Kind[n] = "file" => n \in wiped \/ \E m \in recursed : n \in Below(m)

\* Whatever scans, openings and removals fail, a secure remove shreds each file
\* it takes away or takes it away with a directory (_e_fm_op_destroy_atom before
\* _e_fm_op_remove_atom, ecore_file_recursive_rm).
THEOREM ShreddedUnlessTaken ==
  ASSUME "wipe" \notin Faulty
  PROVE  Spec => []ShreddedOrTaken
<1>1. Init => TakenInv
  BY TakenInit
<1>2. TypeOK /\ IdlerInv /\ TakenInv /\ [Next]_vars => TakenInv'
  BY TakenStep
<1>3. TakenInv => ShreddedOrTaken
  BY DEF TakenInv, GoneTaken, Taken, ShreddedOrTaken
<1> QED BY <1>1, <1>2, <1>3, IdlersAgree, TypeCorrect, PTL DEF Spec

\* Arguments that are all files are all shredded before they are removed, also
\* where scans fail.
THEOREM FlatRemovedIsShredded ==
  ASSUME "wipe" \notin Faulty, \A n \in Node : Parent[n] = NoNode
  PROVE  Spec => []ShreddedFirst
<1>1. ShreddedOrTaken /\ recursed = {} => ShreddedFirst
  BY DEF ShreddedOrTaken, ShreddedFirst
<1>2. Spec => [](recursed = {})
  BY FlatRecursesNowhere
<1>3. Spec => []ShreddedOrTaken
  BY ShreddedUnlessTaken
<1> QED BY <1>1, <1>2, <1>3, PTL


-----------------------------------------------------------------------------
(* What an operation has done when it ends by itself: everything that the   *)
(* user did not skip.  A node is met at the latest when its directory is    *)
(* read, a directory is read before it is done, and the process ends only   *)
(* when nothing is left to do.                                              *)

\* The operations this is about, and what may not fail in them: the result of
\* a flush is not looked at, a chunk whose write was retried is lost, and a scan
\* error that meets an overwrite question may end the operation early.
Sure ==
  \/ op \in {"remove", "srm"}
  \/ op = "copy" /\ {"write", "flush"} \cap Faulty = {} /\ (ScanSucceeds \/ Exists = {})
  \/ op = "symlink" /\ ScanSucceeds

\* The scan task of n, the work task that does what the operation is for, and
\* the half of the work queue it goes to.
Sc(n) == [act |-> op, node |-> n]
Wk(n) == [act |-> IF op = "srm" THEN "remove" ELSE op, node |-> n]
Lane == IF op \in {"copy", "srm"} THEN back ELSE front
Doing(n) == Has(Lane, {Wk(n)})
Done(n) == IF op \in {"copy", "symlink"} THEN dst[n] = "new" ELSE n \notin src

Skipped(n) == \E m \in skipped : n \in Below(m)

\* n was met: skipped, done, or there is a task for it.
Reached(n) == Skipped(n) \/ Done(n) \/ Doing(n) \/ Has(scanq, {Sc(n)}) \/ Todo(n)

\* Its directory is still to be read up to n.
Unread(n) ==
  /\ Parent[n] # NoNode /\ Parent[n] \notin listed
  /\ dir /\ scur.node = Parent[n] => n \in ents

NodesReached ==
  IF op = "symlink" THEN \A i \in 1..Len(Args) : Reached(Args[i])
  ELSE \A n \in Node : Reached(n) \/ Unread(n)

\* A directory is read before it is done.
DirsRead ==
  \A n \in Node : Kind[n] = "dir" =>
    /\ op # "symlink" /\ Doing(n) => n \in listed
    /\ op = "copy" /\ dst[n] = "new" => n \in listed
    /\ op # "symlink" /\ n \notin src => Children(n) \cap src = {}

DirIsOpen ==
  dir => scur # NoTask /\ scur.act = op /\ ~err["scan"] /\ op # "symlink"

\* The copy at the work idler is queued and has written what it has read.
CopyWhole ==
  /\ wcur = NoTask => cur = Fresh
  /\ op = "copy" => src = Node
  /\ op = "copy" => \A n \in Node : wcur = Cp(n) =>
       Has(back, {Cp(n)}) /\ cur.pos = cur.rd /\ cur.rd <= Size[n]

\* Where nothing is asked about a target, the scan idler is gone only when it
\* has nothing to do, or waits for the answer to its own error.
ScanWaits ==
  op \in {"remove", "srm"} \/ Anew =>
    (looping /\ ~Registered("scan") /\ scanq # <<>> => err["scan"])

Empty == todo = <<>> /\ scanq = <<>> /\ front = <<>> /\ back = <<>> /\ wcur = NoTask

QuitWhenDone ==
  /\ ~Has(back, {NoTask}) /\ (looping => todo = <<>>) /\ (~looping => back = <<>>)
  /\ ~toDir => Len(todo) <= 1 /\ (todo # <<>> => scanq = <<>>)
  /\ quit => Empty

\* An idler is registered once and runs once in a pass.
PassOnce ==
  \A e \in Idler : /\ Once(idlers, {e}) /\ Once(left, {e})
                   /\ Has(left, {e}) => Has(idlers, {e})

EndInv ==
  Sure => /\ PassOnce
          /\ ~abort /\ ~crashed =>
               NodesReached /\ DirsRead /\ DirIsOpen /\ CopyWhole /\ ScanWaits /\ QuitWhenDone

\* The tasks of these operations.
LEMMA EndTasks ==
  ASSUME TypeOK, KindsOK, Sure
  PROVE  /\ op \in {"copy", "remove", "srm", "symlink"} /\ type = op
         /\ \A t \in ScanOf(op) : t.node \in Node /\ (t.act = "stat" \/ t = Sc(t.node))
         /\ \A n \in Node : /\ Sc(n) \in ScanOf(op) /\ Sc(n).act = op /\ Sc(n).node = n
                            /\ Wk(n) \in WorkOf(op) /\ Wk(n).node = n
                            /\ Wk(n).act = (IF op = "srm" THEN "remove" ELSE op)
         /\ op \in {"copy", "srm"} => Lane = back /\ Lane \in Seq(BackOf(op))
         /\ op \in {"remove", "symlink"} => Lane = front /\ Lane \in Seq(FrontOf(op))
         /\ op # "symlink" => \A t \in WorkOf(op) : t.act \in {"copy", "remove", "stat", "destroy"}
         /\ op = "symlink" => \A t \in WorkOf(op) : t.act \in {"symlink", "stat"}
         /\ \A t \in WorkOf(op) : t.act = Wk(t.node).act => t = Wk(t.node)
<1>1. op \in {"copy", "remove", "srm", "symlink"} /\ type = op
  BY DEF Sure, KindsOK, ScanActs, Moves
<1>2. \A t \in ScanOf(op) : t.node \in Node /\ (t.act = "stat" \/ t = Sc(t.node))
  BY <1>1 DEF ScanOf, ScanActs, Moves, Sc
<1>3. \A n \in Node : /\ Sc(n) \in ScanOf(op) /\ Sc(n).act = op /\ Sc(n).node = n
                      /\ Wk(n).node = n /\ Wk(n).act = (IF op = "srm" THEN "remove" ELSE op)
  BY <1>1 DEF ScanOf, ScanActs, Moves, Sc, Wk
<1>4. \A n \in Node : Wk(n) \in WorkOf(op)
  BY <1>1 DEF WorkOf, FrontActs, BackActs, Moves, Wk
<1>5. /\ op \in {"copy", "srm"} => Lane = back /\ Lane \in Seq(BackOf(op))
      /\ op \in {"remove", "symlink"} => Lane = front /\ Lane \in Seq(FrontOf(op))
  BY DEF Lane, KindsOK
<1>6. /\ op # "symlink" => \A t \in WorkOf(op) : t.act \in {"copy", "remove", "stat", "destroy"}
      /\ op = "symlink" => \A t \in WorkOf(op) : t.act \in {"symlink", "stat"}
  BY <1>1 DEF WorkOf, FrontActs, BackActs, Moves
<1>7. \A t \in WorkOf(op) : t.act = Wk(t.node).act => t = Wk(t.node)
  BY <1>1 DEF WorkOf, Wk
<1> QED BY <1>1, <1>2, <1>3, <1>4, <1>5, <1>6, <1>7

\* What is below a node, and below its children.
LEMMA BelowDown ==
  ASSUME NEW n \in Node
  PROVE  n \in Below(n) /\ \A m \in Below(n) : Children(m) \subseteq Below(n)
<1>1. n \in Below(n)
  BY DEF Below
<1>2. ASSUME NEW m \in Below(n), NEW c \in Children(m) PROVE c \in Below(n)
  <2>1. c \in Node /\ Parent[c] = m
    BY DEF Children
  <2> QED BY <1>2, <2>1 DEF Below
<1> QED BY <1>1, <1>2

\* The definitions depend on op, which no step changes.
LEMMA SameOp ==
  ASSUME op' = op
  PROVE  /\ \A n : Sc(n)' = Sc(n) /\ Wk(n)' = Wk(n)
         /\ Sure' <=> Sure
         /\ Anew' <=> Anew
         /\ Lane' = IF op \in {"copy", "srm"} THEN back' ELSE front'
BY DEF Sc, Wk, Sure, Anew, Lane

-----------------------------------------------------------------------------
(* The idlers of a pass.                                                   *)

LEMMA HasTail ==
  ASSUME NEW S, NEW q \in Seq(S), q # <<>>, NEW X
  PROVE  /\ Has(Tail(q), X) => Has(q, X)
         /\ Once(q, X) => Once(Tail(q), X)
         /\ Once(q, X) /\ Head(q) \in X => ~Has(Tail(q), X)
<1>1. /\ Len(q) \in Nat /\ Len(q) # 0 /\ Len(Tail(q)) = Len(q) - 1 /\ Head(q) = q[1]
      /\ \A i \in 1..Len(Tail(q)) : Tail(q)[i] = q[i + 1]
  BY HeadTailProperties, EmptySeq, LenProperties
<1>2. 1 \in 1..Len(q) /\ \A i \in 1..Len(Tail(q)) : i + 1 \in 1..Len(q) /\ i + 1 # 1
  BY <1>1
<1>3. Has(Tail(q), X) => Has(q, X)
  BY <1>1, <1>2 DEF Has
<1>4. Once(q, X) => Once(Tail(q), X)
  <2> SUFFICES ASSUME Once(q, X), NEW i \in 1..Len(Tail(q)), NEW j \in 1..Len(Tail(q)),
                      Tail(q)[i] \in X, Tail(q)[j] \in X
               PROVE  i = j
    BY DEF Once
  <2>1. i + 1 = j + 1
    BY <1>1, <1>2 DEF Once
  <2> QED BY <1>1, <2>1
<1>5. Once(q, X) /\ Head(q) \in X => ~Has(Tail(q), X)
  BY <1>1, <1>2 DEF Once, Has
<1> QED BY <1>3, <1>4, <1>5

\* Setting up the idlers registers each once.
LEMMA SetUpOnce ==
  ASSUME TypeOK, PassOnce
  PROVE  \A e \in Idler : Once(WithIdlers(idlers), {e})
<1> DEFINE s == IF Has(idlers, {"scan"}) THEN idlers ELSE Append(idlers, "scan")
<1>1. idlers \in Seq(Idler) /\ "scan" \in Idler /\ "work" \in Idler
  BY DEF TypeOK, PassOK, Idler
<1>2. s \in Seq(Idler) /\ \A e \in Idler : Once(s, {e})
  BY <1>1, HasAppend, AppendProperties DEF PassOnce
<1>3. WithIdlers(idlers) = IF Has(s, {"work"}) THEN s ELSE Append(s, "work")
  BY DEF WithIdlers, Has
<1> HIDE DEF s
<1>4. ASSUME NEW e \in Idler, ~Has(s, {"work"}) PROVE Once(Append(s, "work"), {e})
  <2>1. Has(s, {e}) => "work" \notin {e}
    BY <1>4
  <2> QED BY <1>2, <2>1, HasAppend
<1> QED BY <1>2, <1>3, <1>4

\* The idler whose turn it is is registered, and has no second turn.
LEMMA TurnOnce ==
  ASSUME TypeOK, PassOnce, NEW e \in Idler, Turn(e)
  PROVE  /\ Registered(e) /\ ~Has(left', {e})
         /\ \A f \in Idler : Once(left', {f}) /\ (Has(left', {f}) => Has(idlers, {f}))
<1>1. Due \in Seq(Idler) /\ Due # <<>> /\ Head(Due) = e /\ left' = Tail(Due)
  BY DEF Turn, Due, TypeOK, PassOK
<1>2. \A f \in Idler : Once(Due, {f}) /\ (Has(Due, {f}) => Has(idlers, {f}))
  BY DEF Due, PassOnce
<1>3. Has(Due, {e})
  BY <1>1, HasOne
<1> HIDE DEF Due
<1>4. \A f \in Idler : Once(left', {f}) /\ (Has(left', {f}) => Has(idlers, {f}))
  BY <1>1, <1>2, HasTail
<1>5. ~Has(left', {e})
  BY <1>1, <1>2, HasTail
<1> QED BY <1>2, <1>3, <1>4, <1>5, RegisteredFacts

LEMMA PassStep ==
  ASSUME TypeOK, PassOnce, Before, [Next]_vars
  PROVE  PassOnce'
<1>1. CASE Exited \/ UNCHANGED vars
  BY <1>1 DEF Exited, vars, passVars, PassOnce
<1>2. CASE User
  <2>1. left' = left /\ idlers' \in {idlers, WithIdlers(idlers)}
    BY <1>2 DEF User, AnswerError, AnswerOverwrite, AbortArrives, passVars
  <2>2. left = <<>>
    BY <1>2 DEF User, AnswerError, AnswerOverwrite, AbortArrives, Reads
  <2> QED BY <2>1, <2>2, SetUpOnce, HasEmpty DEF PassOnce
<1>3. CASE Main
  <2>1. CASE MainLoops
    <3> DEFINE q == <<"scan", "work">>
    <3>1. left' = <<>> /\ idlers' = q
      BY <2>1 DEF MainLoops, Before
    <3>2. Len(q) = 2 /\ q[1] = "scan" /\ q[2] = "work"
      OBVIOUS
    <3> HIDE DEF q
    <3>3. \A e \in Idler : Once(q, {e})
      BY <3>2 DEF Once
    <3> QED BY <3>1, <3>3, HasEmpty DEF PassOnce
  <2>2. CASE MainLinks \/ MainRenames \/ MainGivesUp \/ MainQueues
    BY <2>2 DEF MainLinks, MainRenames, MainGivesUp, MainQueues, passVars, PassOnce
  <2> QED BY <1>3, <2>1, <2>2 DEF Main
<1>4. ASSUME NEW e \in Idler, Turn(e), idlers' \in {idlers, Without(idlers, e)} PROVE PassOnce'
  <2>1. idlers \in Seq(Idler) /\ \A f \in Idler : Once(idlers, {f})
    BY DEF TypeOK, PassOK, PassOnce
  <2>2. ASSUME NEW f \in Idler PROVE Once(idlers', {f})
    <3>1. Once(idlers, {f}) => Once(Without(idlers, e), {f})
      BY <2>1, HasWithout
    <3> QED BY <1>4, <2>1, <3>1
  <2>3. \A f \in Idler : Has(left', {f}) => f # e /\ Has(idlers, {f})
    BY <1>4, TurnOnce
  <2>4. \A f \in Idler : Has(left', {f}) => Has(idlers', {f})
    BY <1>4, <2>3, RegisteredFacts
  <2> QED BY <1>4, <2>2, <2>4, TurnOnce DEF PassOnce
<1>5. CASE Scan
  BY <1>4, <1>5, ScanIdler, ScanSteps DEF ScanStep, Idler
<1>6. CASE Work
  BY <1>4, <1>6, WorkIdler, WorkSteps DEF WorkStep, Idler
<1> QED BY <1>1, <1>2, <1>3, <1>5, <1>6 DEF Next

-----------------------------------------------------------------------------
(* A step of the work idler.                                               *)

\* The copy at hand is queued, and has written what it has read.
LEMMA CopyAtHand ==
  ASSUME TypeOK, KindsOK, CopyWhole, op = "copy", NEW n \in Node, WorkCurrent = Cp(n)
  PROVE  Has(back, {Cp(n)}) /\ cur.pos = cur.rd /\ cur.rd <= Size[n]
<1>1. Cp(n) # NoTask /\ front = <<>> /\ Size[n] \in Nat
  BY CopyTasks, TreeAssumption
<1>2. CASE wcur # NoTask
  BY <1>2 DEF WorkCurrent, CopyWhole
<1>3. CASE wcur = NoTask
  BY <1>1, <1>3, KindTasks DEF CopyWhole, Fresh
<1> QED BY <1>2, <1>3

\* Giving up apart, the remove of a shredded file stays until its turn.
LEMMA ShredLinked ==
  ASSUME TypeOK, KindsOK, op = "srm", Work
  PROVE  \/ WorkGivesUp \/ back' = back
         \/ back' = Without(back, WorkCurrent) /\ wcur' = NoTask
<1>1. \A t \in WorkTask : WorkCurrent = t /\ t # NoTask => t.act \in {"destroy", "remove", "stat"}
  <2>1. WorkCurrent \in WorkOf(op) \cup {NoTask}
    BY KindTasks
  <2> QED BY <2>1 DEF WorkOf, FrontActs, BackActs, Moves
<1> USE DEF Works, Stays, Finishes, Dequeues
<1>2. CASE WorkDropsSeparator \/ WorkFindsNothing \/ WorkSleeps \/ WorkHeld \/ WorkGivesUp \/ WorkAborts
  BY <1>2 DEF WorkDropsSeparator, WorkFindsNothing, WorkSleeps, WorkHeld, WorkGivesUp, WorkAborts, workVars
<1>3. CASE WorkAsks \/ WorkDeclines
  BY <1>1, <1>3 DEF WorkAsks, WorkDeclines, AsksFirst
<1>4. CASE \/ WorkCopiesAtOnce \/ WorkOpens \/ WorkCopiesNothing \/ WorkCopiesChunk \/ WorkReachesEof
  BY <1>4 DEF WorkCopiesAtOnce, WorkOpens, WorkCopiesNothing, WorkCopiesChunk, WorkReachesEof
<1>5. CASE WorkFails
  <2>1. PICK t \in WorkTask :
          /\ WorkCurrent = t /\ t # NoTask /\ t.act \in {"copy", "remove", "symlink", "rename"}
          /\ back' = back \/ back' = Unlinked(t)
    BY <1>5 DEF WorkFails
  <2>2. ~HasLink(t)
    BY <1>1, <2>1 DEF HasLink
  <2> QED BY <2>1, <2>2 DEF Unlinked
<1>6. CASE WorkStats \/ WorkRemoves \/ WorkSymlinks \/ WorkRenames \/ WorkWipes \/ WorkWipesNothing
  BY <1>6 DEF WorkStats, WorkRemoves, WorkSymlinks, WorkRenames, WorkWipes, WorkWipesNothing
<1> QED BY <1>2, <1>3, <1>4, <1>5, <1>6 DEF Work

\* The skipped stay skipped, and what the idler gives up is skipped.
LEMMA SkippedWork ==
  ASSUME TypeOK, KindsOK, Work
  PROVE  /\ skipped \subseteq skipped'
         /\ WorkGivesUp \/ WorkDeclines => WorkCurrent \in WorkTask /\ WorkCurrent.node \in skipped'
<1> USE DEF histVars
<1>1. (\/ WorkDropsSeparator \/ WorkFindsNothing \/ WorkSleeps \/ WorkHeld \/ WorkAborts \/ WorkAsks
       \/ WorkCopiesAtOnce \/ WorkOpens \/ WorkCopiesNothing \/ WorkCopiesChunk \/ WorkReachesEof)
        => skipped' = skipped
  BY DEF WorkDropsSeparator, WorkFindsNothing, WorkSleeps, WorkHeld, WorkAborts, WorkAsks,
              WorkCopiesAtOnce, WorkOpens, WorkCopiesNothing, WorkCopiesChunk, WorkReachesEof
<1>2. (\/ WorkFails \/ WorkStats \/ WorkRemoves \/ WorkSymlinks \/ WorkRenames \/ WorkWipes
       \/ WorkWipesNothing) => skipped' = skipped
  BY DEF WorkFails, WorkStats, WorkRemoves, WorkSymlinks, WorkRenames, WorkWipes, WorkWipesNothing
<1>3. WorkGivesUp => skipped' = skipped \cup {WorkCurrent.node} /\ WorkCurrent # NoTask
  BY DEF WorkGivesUp
<1>4. WorkDeclines => skipped' = skipped \cup {WorkCurrent.node} /\ WorkCurrent # NoTask
  BY DEF WorkDeclines, Works
<1>5. WorkCurrent \in WorkTask \cup {NoTask}
  BY WorkCurrentType DEF TypeOK
<1> QED BY <1>1, <1>2, <1>3, <1>4, <1>5 DEF Work

\* What an atom does to the files: it finishes a copy or a link, truncates a
\* target, or removes a file or a whole directory.
Takes(n, S) == src' = src \ S /\ n \in S /\ ((S = {n} /\ Children(n) \cap src = {}) \/ S = Below(n))

DiskSteps ==
  \/ UNCHANGED <<src, dst>>
  \/ \E n \in Node :
       /\ WorkCurrent = Wk(n) /\ ~abort
       /\ \/ op \in {"copy", "symlink"} /\ src' = src /\ dst' = [dst EXCEPT ![n] = "new"]
          \/ op = "copy" /\ src' = src /\ dst' = [dst EXCEPT ![n] = "part"] /\ back' = back
          \/ op \in {"remove", "srm"} /\ dst' = dst /\ \E S \in {{n}, Below(n)} : Takes(n, S)

LEMMA DiskWork ==
  ASSUME TypeOK, KindsOK, Sure, Work
  PROVE  DiskSteps
<1>1. \A t \in WorkTask : WorkCurrent = t /\ t # NoTask =>
        /\ t.node \in Node /\ t.act # "rename"
        /\ t.act = "copy" => op = "copy" /\ t = Wk(t.node)
        /\ t.act = "symlink" => op = "symlink" /\ t = Wk(t.node)
        /\ t.act = "remove" => op \in {"remove", "srm"} /\ t = Wk(t.node)
  <2>1. WorkCurrent \in WorkOf(op) \cup {NoTask} /\ op \in {"copy", "remove", "srm", "symlink"}
    BY KindTasks, EndTasks
  <2>2. \A t \in WorkOf(op) :
          /\ t.node \in Node /\ t.act # "rename"
          /\ t.act = "copy" => op = "copy" /\ t = Wk(t.node)
          /\ t.act = "symlink" => op = "symlink" /\ t = Wk(t.node)
          /\ t.act = "remove" => op \in {"remove", "srm"} /\ t = Wk(t.node)
    BY <2>1 DEF WorkOf, FrontActs, BackActs, Moves, Wk
  <2> QED BY <2>1, <2>2
<1> USE DEF Works, diskVars
<1>2. CASE \/ WorkDropsSeparator \/ WorkFindsNothing \/ WorkSleeps \/ WorkHeld \/ WorkGivesUp \/ WorkAborts
           \/ WorkAsks \/ WorkDeclines \/ WorkCopiesNothing \/ WorkCopiesChunk
  BY <1>2 DEF WorkDropsSeparator, WorkFindsNothing, WorkSleeps, WorkHeld, WorkGivesUp, WorkAborts,
              WorkAsks, WorkDeclines, WorkCopiesNothing, WorkCopiesChunk, DiskSteps
<1>3. CASE WorkFails \/ WorkStats \/ WorkWipes \/ WorkWipesNothing
  BY <1>3 DEF WorkFails, WorkStats, WorkWipes, WorkWipesNothing, DiskSteps
<1>4. CASE WorkCopiesAtOnce
  BY <1>1, <1>4 DEF WorkCopiesAtOnce, DiskSteps
<1>5. CASE WorkOpens
  BY <1>1, <1>5 DEF WorkOpens, Stays, DiskSteps
<1>6. CASE WorkReachesEof
  BY <1>1, <1>6 DEF WorkReachesEof, DiskSteps
<1>7. CASE WorkSymlinks
  BY <1>1, <1>7 DEF WorkSymlinks, DiskSteps
<1>8. CASE WorkRenames
  BY <1>1, <1>8 DEF WorkRenames
<1>9. CASE WorkRemoves
  <2>1. PICK t \in WorkTask :
          /\ WorkCurrent = t /\ t # NoTask /\ t.act = "remove" /\ dst' = dst /\ ~abort
          /\ \/ src' = src \ {t.node} /\ Children(t.node) \cap src = {}
             \/ src' = src \ Below(t.node)
    BY <1>9 DEF WorkRemoves
  <2>2. t.node \in Node /\ op \in {"remove", "srm"} /\ t = Wk(t.node)
    BY <1>1, <2>1
  <2>3. \E S \in {{t.node}, Below(t.node)} : Takes(t.node, S)
    BY <2>1, <2>2, BelowDown DEF Takes
  <2> QED BY <2>1, <2>2, <2>3 DEF DiskSteps
<1> QED BY <1>2, <1>3, <1>4, <1>5, <1>6, <1>7, <1>8, <1>9 DEF Work

\* A task that leaves the queue has done its work, or was given up.
LEMMA AtomDone ==
  ASSUME TypeOK, KindsOK, Sure, CopyWhole, Work, ~abort', NEW n \in Node,
         WorkCurrent = Wk(n), wcur' = NoTask
  PROVE  Skipped(n)' \/ Done(n)'
<1>1. /\ op \in {"copy", "remove", "srm", "symlink"} /\ op' = op /\ WorkCurrent # NoTask
      /\ WorkCurrent.act = (IF op = "srm" THEN "remove" ELSE op) /\ WorkCurrent.node = n
      /\ dst \in [Node -> {"absent", "old", "part", "new"}] /\ Size[n] \in Nat
  <2>1. op' = op /\ NoTask \notin WorkOf(op)
    BY WorkSteps, KindFacts DEF WorkStep, mainVars, argVars
  <2> QED BY <2>1, EndTasks, TreeAssumption DEF TypeOK, DiskOK
<1> USE DEF Works, Stays
<1>2. CASE WorkGivesUp \/ WorkDeclines
  <2>1. n \in skipped' /\ n \in Below(n)
    BY <1>1, <1>2, SkippedWork, BelowDown
  <2> QED BY <2>1 DEF Skipped
<1>3. CASE WorkDropsSeparator \/ WorkFindsNothing \/ WorkSleeps \/ WorkHeld \/ WorkAborts
  BY <1>1, <1>3 DEF WorkDropsSeparator, WorkFindsNothing, WorkSleeps, WorkHeld, WorkAborts
<1>4. CASE WorkAsks \/ WorkOpens \/ WorkCopiesNothing \/ WorkCopiesChunk \/ WorkFails
  BY <1>1, <1>4 DEF WorkAsks, WorkOpens, WorkCopiesNothing, WorkCopiesChunk, WorkFails
<1>5. CASE WorkCopiesAtOnce \/ WorkSymlinks
  BY <1>1, <1>5 DEF WorkCopiesAtOnce, WorkSymlinks, Done
<1>6. CASE WorkReachesEof
  <2>1. PICK t \in WorkTask, flushed \in BOOLEAN :
          /\ WorkCurrent = t /\ t.act = "copy" /\ AtEof(t)
          /\ flushed \/ CanFail("flush")
          /\ dst' = IF flushed /\ cur.pos = Size[t.node] THEN [dst EXCEPT ![t.node] = "new"] ELSE dst
    BY <1>6 DEF WorkReachesEof
  <2>2. op = "copy" /\ flushed /\ WorkCurrent = Cp(n)
    BY <1>1, <2>1 DEF Sure, CanFail, Wk, Cp
  <2>3. cur.pos = cur.rd /\ cur.rd <= Size[n] /\ cur.rd \in Nat /\ cur.rd >= Size[n]
    BY <1>1, <2>1, <2>2, CopyAtHand DEF AtEof, TypeOK, WorkOK
  <2>4. cur.pos = Size[n]
    BY <1>1, <2>3
  <2> QED BY <1>1, <2>1, <2>2, <2>4 DEF Done
<1>7. CASE WorkRemoves
  <2>1. n \in Below(n)
    BY BelowDown
  <2> QED BY <1>1, <1>7, <2>1 DEF WorkRemoves, Done
<1>8. CASE WorkStats \/ WorkRenames \/ WorkWipes \/ WorkWipesNothing
  BY <1>1, <1>8 DEF WorkStats, WorkRenames, WorkWipes, WorkWipesNothing
<1> QED BY <1>2, <1>3, <1>4, <1>5, <1>6, <1>7, <1>8 DEF Work

\* A task of the lane stays until its turn or until its node is given up, and
\* none comes.
LEMMA LaneWork ==
  ASSUME TypeOK, KindsOK, Sure, Work, ~abort', NEW n \in Node
  PROVE  /\ Doing(n)' => Doing(n)
         /\ Doing(n) => Doing(n)' \/ Skipped(n)' \/ (WorkCurrent = Wk(n) /\ wcur' = NoTask)
<1>1. op' = op /\ op \in {"copy", "remove", "srm", "symlink"} /\ WorkQueues
  BY WorkSteps, EndTasks DEF WorkStep, mainVars, argVars
<1>2. Wk(n)' = Wk(n) /\ (Doing(n)' <=> Has(Lane', {Wk(n)}))
  BY <1>1, SameOp DEF Doing
<1>3. /\ back \in Seq(BackOf(op)) /\ front \in Seq(FrontOf(op))
      /\ Unlinked(WorkCurrent) \in Seq(BackOf(op))
  BY WithoutType DEF KindsOK, Unlinked
<1>4. CASE op \in {"remove", "symlink"}
  <2>1. Lane = front /\ Lane' = front' /\ front' \in {front, Without(front, WorkCurrent)}
        /\ (front' # front => wcur' = NoTask)
    BY <1>1, <1>4, SameOp, EndTasks DEF WorkQueues
  <2>2. /\ Has(Without(front, WorkCurrent), {Wk(n)}) => Has(front, {Wk(n)})
        /\ Has(front, {Wk(n)}) /\ WorkCurrent \notin {Wk(n)} => Has(Without(front, WorkCurrent), {Wk(n)})
    BY <1>3, HasWithout
  <2> QED BY <1>2, <2>1, <2>2 DEF Doing
<1>5. CASE op \in {"copy", "srm"}
  <2> DEFINE u == [act |-> "remove", node |-> WorkCurrent.node]
  <2>1. Lane = back /\ Lane' = back'
    BY <1>1, <1>5, SameOp, EndTasks
  <2>2. /\ back' \in {back, Unlinked(WorkCurrent), Without(back, WorkCurrent),
                      Without(Unlinked(WorkCurrent), WorkCurrent)}
        /\ Unlinked(WorkCurrent) \in {back, Without(back, u)}
        /\ back' \in {Without(back, WorkCurrent), Without(Unlinked(WorkCurrent), WorkCurrent)}
             => wcur' = NoTask \/ back' = back \/ back' = Unlinked(WorkCurrent)
    BY <1>1 DEF WorkQueues, Unlinked
  <2>3. /\ \A X : Has(Without(back, WorkCurrent), X) => Has(back, X)
        /\ \A X : Has(Unlinked(WorkCurrent), X) => Has(back, X)
        /\ \A X : Has(Without(Unlinked(WorkCurrent), WorkCurrent), X) => Has(Unlinked(WorkCurrent), X)
        /\ \A X : Has(back, X) /\ WorkCurrent \notin X => Has(Without(back, WorkCurrent), X)
        /\ \A X : Has(back, X) /\ u \notin X => Has(Unlinked(WorkCurrent), X)
        /\ \A X : Has(Unlinked(WorkCurrent), X) /\ WorkCurrent \notin X
                    => Has(Without(Unlinked(WorkCurrent), WorkCurrent), X)
    <3> HIDE DEF u
    <3>1. \A X : /\ Has(Without(back, u), X) => Has(back, X)
                 /\ Has(back, X) /\ u \notin X => Has(Without(back, u), X)
      BY <1>3, HasWithout
    <3>2. \A X : /\ Has(Without(back, WorkCurrent), X) => Has(back, X)
                 /\ Has(back, X) /\ WorkCurrent \notin X => Has(Without(back, WorkCurrent), X)
      BY <1>3, HasWithout
    <3>3. \A X : /\ Has(Without(Unlinked(WorkCurrent), WorkCurrent), X) => Has(Unlinked(WorkCurrent), X)
                 /\ Has(Unlinked(WorkCurrent), X) /\ WorkCurrent \notin X
                      => Has(Without(Unlinked(WorkCurrent), WorkCurrent), X)
      BY <1>3, HasWithout
    <3> QED BY <2>2, <3>1, <3>2, <3>3
  <2>4. Doing(n)' => Doing(n)
    BY <1>2, <2>1, <2>2, <2>3 DEF Doing
  <2>5. ASSUME u # Wk(n), Doing(n), ~Doing(n)' PROVE WorkCurrent = Wk(n) /\ wcur' = NoTask
    <3>1. Has(back, {Wk(n)}) /\ u \notin {Wk(n)} /\ ~Has(back', {Wk(n)})
      BY <1>2, <2>1, <2>5 DEF Doing
    <3>2. Has(Unlinked(WorkCurrent), {Wk(n)})
      BY <2>3, <3>1
    <3>3. WorkCurrent \in {Wk(n)} /\ back' # back /\ back' # Unlinked(WorkCurrent)
      BY <2>2, <2>3, <3>1, <3>2
    <3> QED BY <2>2, <3>3
  <2>6. ASSUME u = Wk(n), op = "srm", Doing(n), ~Doing(n)'
        PROVE  Skipped(n)' \/ (WorkCurrent = Wk(n) /\ wcur' = NoTask)
    <3>1. CASE WorkGivesUp
      <4>1. WorkCurrent.node \in skipped' /\ WorkCurrent.node = n
        BY <2>6, <3>1, SkippedWork DEF Wk
      <4> QED BY <4>1, BelowDown DEF Skipped
    <3>2. CASE back' = Without(back, WorkCurrent) /\ wcur' = NoTask
      BY <1>2, <2>1, <2>3, <2>6, <3>2 DEF Doing
    <3>3. CASE back' = back
      BY <1>2, <2>1, <2>6, <3>3 DEF Doing
    <3> QED BY <2>6, <3>1, <3>2, <3>3, ShredLinked
  <2>7. op = "copy" => u # Wk(n)
    BY DEF Wk
  <2> QED BY <1>5, <2>4, <2>5, <2>6, <2>7
<1> QED BY <1>1, <1>4, <1>5

\* What is done stays done, or is done again.
LEMMA DoneWork ==
  ASSUME TypeOK, KindsOK, Sure, CopyWhole, Work, NEW n \in Node, Done(n)
  PROVE  Done(n)' \/ Doing(n)'
<1>1. op' = op /\ dst \in [Node -> {"absent", "old", "part", "new"}]
  BY WorkSteps DEF WorkStep, mainVars, argVars, TypeOK, DiskOK
<1>2. CASE UNCHANGED <<src, dst>>
  BY <1>1, <1>2 DEF Done
<1>3. ASSUME NEW m \in Node, WorkCurrent = Wk(m), op \in {"copy", "symlink"},
             dst' = [dst EXCEPT ![m] = "new"]
      PROVE  Done(n)'
  BY <1>1, <1>3 DEF Done
<1>4. ASSUME NEW m \in Node, WorkCurrent = Wk(m), op = "copy", dst' = [dst EXCEPT ![m] = "part"],
             back' = back
      PROVE  Done(n)' \/ Doing(n)'
  <2>1. CASE m # n
    BY <1>1, <1>4, <2>1 DEF Done
  <2>2. CASE m = n
    <3>1. WorkCurrent = Cp(n) /\ Wk(n) = Cp(n)
      BY <1>4, <2>2 DEF Wk, Cp
    <3>2. Has(back', {Wk(n)})
      BY <1>4, <3>1, CopyAtHand
    <3> QED BY <1>1, <1>4, <3>2, SameOp DEF Doing
  <2> QED BY <2>1, <2>2
<1>5. ASSUME op \in {"remove", "srm"}, src' \subseteq src PROVE Done(n)'
  BY <1>1, <1>5 DEF Done
<1>6. \A m, S : Takes(m, S) => src' \subseteq src
  BY DEF Takes
<1> QED BY <1>2, <1>3, <1>4, <1>5, <1>6, DiskWork DEF DiskSteps

LEMMA ReachedWork ==
  ASSUME TypeOK, KindsOK, Sure, CopyWhole, Work, ~abort', NodesReached
  PROVE  NodesReached'
<1>1. op' = op /\ UNCHANGED <<todo, scanq, dir, scur, ents, listed>> /\ skipped \subseteq skipped'
  BY WorkSteps, SkippedWork DEF WorkStep, mainVars, argVars
<1>2. ASSUME NEW n \in Node, Reached(n) PROVE Reached(n)'
  <2>1. Skipped(n) => Skipped(n)'
    BY <1>1 DEF Skipped
  <2>2. Has(scanq, {Sc(n)}) => Has(scanq', {Sc(n)'})
    BY <1>1, SameOp
  <2>3. Todo(n) => Todo(n)'
    BY <1>1 DEF Todo
  <2>4. Doing(n) => Doing(n)' \/ Skipped(n)' \/ Done(n)'
    BY LaneWork, AtomDone
  <2>5. Done(n) => Done(n)' \/ Doing(n)'
    BY DoneWork
  <2> QED BY <1>2, <2>1, <2>2, <2>3, <2>4, <2>5 DEF Reached
<1>3. \A n \in Node : Unread(n) => Unread(n)'
  BY <1>1 DEF Unread
<1>4. \A i \in 1..Len(Args) : Args[i] \in Node
  BY ArgsAssumption, ElementOfSeq
<1> QED BY <1>1, <1>2, <1>3, <1>4 DEF NodesReached

\* A directory is removed with what is in it.
LEMMA DirsReadWork ==
  ASSUME TypeOK, KindsOK, Sure, CopyWhole, Work, ~abort', DirsRead
  PROVE  DirsRead'
<1>1. op' = op /\ listed' = listed /\ dst \in [Node -> {"absent", "old", "part", "new"}]
  BY WorkSteps DEF WorkStep, mainVars, argVars, TypeOK, DiskOK
<1>2. ASSUME NEW n \in Node, Kind[n] = "dir", op # "symlink", Doing(n)' PROVE n \in listed'
  BY <1>1, <1>2, LaneWork DEF DirsRead
<1>3. ASSUME NEW n \in Node, Kind[n] = "dir", op = "copy", dst'[n] = "new" PROVE n \in listed'
  <2>1. CASE dst[n] = "new"
    BY <1>1, <1>3, <2>1 DEF DirsRead
  <2>2. CASE dst[n] # "new"
    <3>1. PICK m \in Node : /\ WorkCurrent = Wk(m)
                            /\ \/ dst' = [dst EXCEPT ![m] = "new"]
                               \/ dst' = [dst EXCEPT ![m] = "part"]
      BY <1>3, <2>2, DiskWork DEF DiskSteps
    <3>2. m = n /\ WorkCurrent = Cp(n) /\ Wk(n) = Cp(n)
      BY <1>1, <1>3, <2>2, <3>1 DEF Wk, Cp
    <3>3. Doing(n)
      BY <1>3, <3>2, CopyAtHand DEF Doing, Lane
    <3> QED BY <1>1, <1>3, <3>3 DEF DirsRead
  <2> QED BY <2>1, <2>2
<1>4. ASSUME NEW n \in Node, Kind[n] = "dir", op # "symlink", n \notin src'
      PROVE  Children(n) \cap src' = {}
  <2>1. CASE src' = src
    BY <1>4, <2>1 DEF DirsRead
  <2>2. CASE src' # src
    <3>0. PICK m \in Node : \E S \in {{m}, Below(m)} : Takes(m, S)
      BY <2>2, DiskWork DEF DiskSteps
    <3>1. PICK S \in {{m}, Below(m)} : Takes(m, S)
      BY <3>0
    <3>2. src' = src \ S /\ ((S = {m} /\ Children(m) \cap src = {}) \/ S = Below(m))
      BY <3>1 DEF Takes
    <3>3. CASE n \notin src
      BY <1>4, <3>2, <3>3 DEF DirsRead
    <3>4. CASE n \in S /\ S = Below(m)
      BY <3>2, <3>4, BelowDown
    <3>5. CASE n \in S /\ S = {m} /\ Children(m) \cap src = {}
      BY <3>2, <3>5
    <3> QED BY <1>4, <3>2, <3>3, <3>4, <3>5
  <2> QED BY <2>1, <2>2
<1> QED BY <1>1, <1>2, <1>3, <1>4 DEF DirsRead

\* A scan error is only cleared, and only by an answer to an overwrite question.
LEMMA ScanErrWork ==
  ASSUME TypeOK, Work, ~abort'
  PROVE  err'["scan"] => err["scan"]
<1>1. /\ err \in [Idler -> BOOLEAN] /\ "scan" \in Idler /\ "work" \in Idler
  BY CtlFacts DEF Idler
<1>2. Marks("work") \in [Idler -> BOOLEAN] /\ (Marks("work")["scan"] => err["scan"])
  BY <1>1 DEF Marks
<1>3. \/ err' = err \/ err' = [err EXCEPT !["work"] = FALSE]
      \/ Cleared("work") \/ SendsError("work", "overwrite") \/ SendsError("work", "error")
  BY WorkMarkSteps DEF WorkMarks
<1> QED BY <1>1, <1>2, <1>3 DEF Cleared, SendsError

LEMMA CopyWholeWork ==
  ASSUME TypeOK, KindsOK, Sure, CopyWhole, Work, ~abort'
  PROVE  CopyWhole'
<1>0. op' = op /\ WorkQueues /\ cur \in CurType
  BY WorkSteps DEF WorkStep, mainVars, argVars, TypeOK, WorkOK, CurType
<1>1. op = "copy" => src' = Node
  BY DiskWork DEF DiskSteps, CopyWhole
<1>2. ASSUME op = "copy", NEW n \in Node, wcur' = Cp(n)
      PROVE  WorkCurrent = Cp(n) /\ Has(back', {Cp(n)})
  <2>1. Cp(n) # NoTask /\ back \in Seq(BackOf(op))
    BY <1>2, CopyTasks DEF KindsOK
  <2>2. WorkCurrent = Cp(n) /\ back' \in {back, Unlinked(WorkCurrent)}
    BY <1>0, <1>2, <2>1 DEF WorkQueues, WorkCurrent
  <2>3. Has(back, {Cp(n)})
    BY <1>2, <2>2, CopyAtHand
  <2> DEFINE u == [act |-> "remove", node |-> WorkCurrent.node]
  <2>4. u # Cp(n) /\ Unlinked(WorkCurrent) \in {back, Without(back, u)}
    BY DEF Unlinked, Cp
  <2> HIDE DEF u
  <2>5. Has(Without(back, u), {Cp(n)})
    BY <2>1, <2>3, <2>4, HasWithout
  <2> QED BY <2>2, <2>3, <2>4, <2>5
<1>3. op = "copy" => "write" \notin Faulty /\ ~CanFail("write")
  BY DEF Sure, CanFail
<1>4. \/ wcur' = NoTask /\ cur' = Fresh
      \/ wcur' = wcur /\ cur' = cur
      \/ /\ wcur' = WorkCurrent
         /\ \/ UNCHANGED <<cur>>
            \/ cur'.rd = cur.rd /\ cur'.pos = cur.pos
            \/ /\ WorkCurrent.act = "copy" /\ ~AtEof(WorkCurrent)
               /\ \/ cur'.rd = cur.rd + 1 /\ cur'.pos = cur.pos + 1
                  \/ CanFail("write")
            \/ WorkCurrent.act = "destroy"
         /\ WorkCurrent # NoTask
  <2> USE <1>0 DEF Works, Stays, Finishes, Dequeues, CurType
  <2>1. CASE WorkDropsSeparator \/ WorkFindsNothing \/ WorkSleeps \/ WorkHeld \/ WorkGivesUp \/ WorkAborts
    BY <2>1 DEF WorkDropsSeparator, WorkFindsNothing, WorkSleeps, WorkHeld, WorkGivesUp, WorkAborts, workVars
  <2>2. CASE WorkAsks \/ WorkDeclines
    BY <2>2 DEF WorkAsks, WorkDeclines
  <2>3. CASE WorkCopiesAtOnce
    BY <2>3 DEF WorkCopiesAtOnce
  <2>8. CASE WorkOpens
    BY <2>8 DEF WorkOpens
  <2>9. CASE WorkCopiesNothing
    BY <2>9 DEF WorkCopiesNothing
  <2>4. CASE WorkCopiesChunk \/ WorkReachesEof
    BY <2>4 DEF WorkCopiesChunk, WorkReachesEof
  <2>5. CASE WorkFails
    <3>1. PICK t \in WorkTask :
            /\ wcur' = t /\ WorkCurrent = t /\ t # NoTask
            /\ \/ t.act = "copy" /\ CopyError(t)
               \/ t.act = "remove" /\ RemoveError(t)
               \/ t.act \in {"symlink", "rename"} /\ RelinkError(t)
      BY <2>5 DEF WorkFails
    <3>2. CASE CopyError(t) /\ t.act = "copy"
      BY <3>1, <3>2 DEF CopyError
    <3>3. CASE RemoveError(t) \/ RelinkError(t)
      BY <3>1, <3>3 DEF RemoveError, RelinkError
    <3> QED BY <3>1, <3>2, <3>3
  <2>6. CASE WorkStats \/ WorkRemoves \/ WorkSymlinks \/ WorkRenames
    BY <2>6 DEF WorkStats, WorkRemoves, WorkSymlinks, WorkRenames
  <2>7. CASE WorkWipes \/ WorkWipesNothing
    BY <2>7 DEF WorkWipes, WorkWipesNothing
  <2> QED BY <2>1, <2>2, <2>3, <2>4, <2>5, <2>6, <2>7, <2>8, <2>9 DEF Work
<1>5. wcur' = NoTask => cur' = Fresh
  BY <1>4 DEF CopyWhole
<1>6. ASSUME op = "copy", NEW n \in Node, wcur' = Cp(n) PROVE cur'.pos = cur'.rd /\ cur'.rd <= Size[n]
  <2>1. /\ WorkCurrent = Cp(n) /\ cur.pos = cur.rd /\ cur.rd <= Size[n] /\ Size[n] \in Nat /\ Cp(n) # NoTask
        /\ cur.rd \in Nat /\ Cp(n).act = "copy" /\ Cp(n).node = n
    BY <1>0, <1>2, <1>6, CopyAtHand, CopyTasks, TreeAssumption, TaskKinds DEF CurType
  <2> QED BY <1>3, <1>4, <1>6, <2>1 DEF AtEof
<1> QED BY <1>0, <1>1, <1>2, <1>5, <1>6 DEF CopyWhole

\* Without an overwrite question, a scan error is the scan idler's.
LEMMA NoOverwrite ==
  ASSUME TypeOK, IdlerInv, Live, op \in {"remove", "srm"} \/ Anew
  PROVE  ~overwrite
<1>1. CASE op \in {"remove", "srm"}
  <2>1. Marked /\ KindsOK
    BY <1>1 DEF IdlerInv, Surely
  <2> QED BY <1>1, <2>1, AskingFacts
<1>2. CASE Anew
  BY <1>2 DEF IdlerInv, AnewOK, AskedNothing
<1> QED BY <1>1, <1>2

LEMMA ScanWaitsWork ==
  ASSUME TypeOK, IdlerInv, Live, ScanWaits, Work, ~abort'
  PROVE  ScanWaits'
<1>1. op' = op /\ UNCHANGED <<scanq, looping>> /\ KindsOK
  BY WorkSteps DEF WorkStep, mainVars, argVars, IdlerInv
<1> SUFFICES ASSUME op \in {"remove", "srm"} \/ Anew, looping, ~Registered("scan")', scanq # <<>>
             PROVE  err'["scan"]
  BY <1>1, SameOp DEF ScanWaits
<1>2. ~Registered("scan")
  <2>1. Registered("scan")' <=> Has(idlers', {"scan"})
    BY DEF Registered, Has
  <2>2. idlers' \in {idlers, Without(idlers, "work")} /\ "scan" \in Idler /\ "work" \in Idler
    BY WorkIdler DEF Idler
  <2> QED BY <2>1, <2>2, RegisteredFacts
<1>3. err["scan"] /\ ~overwrite
  BY <1>2, NoOverwrite DEF ScanWaits
<1>4. err \in [Idler -> BOOLEAN] /\ "scan" \in Idler /\ "work" \in Idler
  BY CtlFacts DEF Idler
<1>5. Marks("work") \in [Idler -> BOOLEAN] /\ Marks("work")["scan"]
  BY <1>3, <1>4 DEF Marks
<1>6. \/ err' = err \/ err' = [err EXCEPT !["work"] = FALSE]
      \/ Cleared("work") \/ SendsError("work", "overwrite") \/ SendsError("work", "error")
  BY WorkMarkSteps DEF WorkMarks
<1> QED BY <1>3, <1>4, <1>5, <1>6 DEF Cleared, SendsError

\* The work idler quits when nothing is left.
LEMMA QuitWork ==
  ASSUME TypeOK, IdlerInv, Live, Sure, ScanWaits, QuitWhenDone, Work, ~abort, ~abort'
  PROVE  QuitWhenDone'
<1>1. /\ op' = op /\ UNCHANGED <<scanq, looping, todo, toDir>> /\ KindsOK /\ WorkQueues /\ looping
      /\ back \in Seq(BackOf(op)) /\ front \in Seq(FrontOf(op)) /\ NoTask \notin FrontOf(op)
  BY WorkSteps, Turned, KindFacts DEF WorkStep, mainVars, argVars, IdlerInv, KindsOK
<1>2. ~Has(back', {NoTask})
  <2>1. Unlinked(WorkCurrent) \in Seq(BackOf(op)) /\ ~Has(Unlinked(WorkCurrent), {NoTask})
    <3> DEFINE u == [act |-> "remove", node |-> WorkCurrent.node]
    <3>1. Unlinked(WorkCurrent) \in {back, Without(back, u)}
      BY DEF Unlinked
    <3> HIDE DEF u
    <3>2. Without(back, u) \in Seq(BackOf(op))
      BY <1>1, WithoutType
    <3>3. ~Has(back, {NoTask}) /\ ~Has(Without(back, u), {NoTask})
      BY <1>1, HasWithout DEF QuitWhenDone
    <3> QED BY <1>1, <3>1, <3>2, <3>3
  <2>2. /\ ~Has(Without(back, WorkCurrent), {NoTask})
        /\ ~Has(Without(Unlinked(WorkCurrent), WorkCurrent), {NoTask})
    BY <1>1, <2>1, HasWithout DEF QuitWhenDone
  <2> QED BY <1>1, <2>1, <2>2 DEF WorkQueues, QuitWhenDone
<1>3. CASE WorkFindsNothing
  <2>1. UNCHANGED <<front, back, wcur>> /\ WorkCurrent = NoTask
    BY <1>3 DEF WorkFindsNothing, workVars
  <2>2. wcur = NoTask /\ todo = <<>> /\ WorkHead = NoTask
    BY <1>1, <2>1 DEF WorkCurrent, QuitWhenDone
  <2>3. CASE quit
    BY <1>1, <2>1, <2>3 DEF QuitWhenDone, Empty
  <2>4. CASE WorkQueueEmpty /\ scanq = <<>>
    BY <1>1, <1>2, <2>1, <2>2, <2>4 DEF QuitWhenDone, Empty, WorkQueueEmpty
  <2>5. CASE ~quit'
    BY <1>1, <1>2, <2>1, <2>5 DEF QuitWhenDone
  <2>6. CASE ~Registered("scan") /\ \A i \in Idler : ~err[i]
    <3>1. scanq = <<>>
      <4>1. CASE op \in {"remove", "srm"} \/ Anew
        BY <1>1, <2>6, <4>1 DEF ScanWaits, Idler
      <4>2. CASE ~(op \in {"remove", "srm"} \/ Anew)
        <5>1. Quietly /\ Surely
          BY <4>2 DEF Sure, Anew, Quietly, Surely
        <5>2. Scanned /\ Marked
          BY <5>1 DEF IdlerInv
        <5>3. ~overwrite
          BY <1>1, <2>2, <5>2, AskingFacts
        <5> QED BY <1>1, <2>6, <5>2, <5>3 DEF Scanned
      <4> QED BY <4>1, <4>2
    <3>2. front = <<>>
      <4>1. front # <<>> => Head(front) \in FrontOf(op) /\ WorkHead = Head(front)
        BY <1>1, HeadTailProperties DEF WorkHead
      <4> QED BY <1>1, <2>2, <4>1
    <3>3. sep # "live"
      BY <1>3, <2>6, <3>2 DEF WorkFindsNothing
    <3>4. back = <<>>
      <4>1. back # <<>> => WorkHead = Head(back) /\ Has(back, {Head(back)})
        BY <1>1, <3>2, <3>3, HasOne DEF WorkHead
      <4> QED BY <2>2, <4>1 DEF QuitWhenDone
    <3> QED BY <1>1, <1>2, <2>1, <2>2, <3>1, <3>2, <3>4 DEF QuitWhenDone, Empty
  <2> QED BY <1>3, <2>3, <2>4, <2>5, <2>6 DEF WorkFindsNothing
<1>4. CASE ~WorkFindsNothing
  <2>1. quit' = quit
    <3>1. ~WorkAborts
      BY DEF WorkAborts
    <3>2. CASE WorkDropsSeparator \/ WorkSleeps \/ WorkHeld \/ WorkGivesUp
      BY <3>2 DEF WorkDropsSeparator, WorkSleeps, WorkHeld, WorkGivesUp
    <3>3. CASE \/ WorkAsks \/ WorkDeclines \/ WorkCopiesAtOnce \/ WorkOpens \/ WorkCopiesNothing
               \/ WorkCopiesChunk \/ WorkReachesEof \/ WorkFails
      BY <3>3 DEF WorkAsks, WorkDeclines, WorkCopiesAtOnce, WorkOpens, WorkCopiesNothing,
                  WorkCopiesChunk, WorkReachesEof, WorkFails, Works
    <3>4. CASE WorkStats \/ WorkRemoves \/ WorkSymlinks \/ WorkRenames \/ WorkWipes \/ WorkWipesNothing
      BY <3>4 DEF WorkStats, WorkRemoves, WorkSymlinks, WorkRenames, WorkWipes, WorkWipesNothing, Works
    <3> QED BY <1>4, <3>1, <3>2, <3>3, <3>4 DEF Work
  <2>2. CASE quit
    <3>1. Empty /\ WorkCurrent = NoTask
      BY <2>2 DEF QuitWhenDone, Empty, WorkCurrent, WorkHead
    <3>2. WorkDropsSeparator
      BY <1>4, <3>1 DEF Work, WorkSleeps, WorkHeld, WorkGivesUp, WorkAborts, WorkAsks, WorkDeclines,
           WorkCopiesAtOnce, WorkOpens, WorkCopiesNothing, WorkCopiesChunk, WorkReachesEof, WorkFails,
           WorkStats, WorkRemoves, WorkSymlinks, WorkRenames, WorkWipes, WorkWipesNothing, Works
    <3> QED BY <1>1, <1>2, <3>1, <3>2 DEF WorkDropsSeparator, QuitWhenDone, Empty
  <2>3. CASE ~quit
    BY <1>1, <1>2, <2>1, <2>3 DEF QuitWhenDone
  <2> QED BY <2>2, <2>3
<1> QED BY <1>3, <1>4

-----------------------------------------------------------------------------
(* A step of the scan idler.                                               *)

\* The task that is scanned becomes the task of the work idler.
LEMMA PushesLane ==
  ASSUME TypeOK, KindsOK, Sure, NEW t \in ScanOf(op), Pushes(t), ~crashed', op' = op
  PROVE  /\ \A n \in Node : Doing(n)' <=> Doing(n) \/ t = Sc(n)
         /\ \A X : Has(back, X) => Has(back', X)
         /\ Has(back', {NoTask}) => Has(back, {NoTask})
<1>1. /\ front \in Seq(FrontOf(op)) /\ back \in Seq(BackOf(op)) /\ t.node \in Node
      /\ t.act = op \/ t.act = "stat"
      /\ \A n \in Node : t = Sc(n) <=> (t.node = n /\ t.act = op)
  BY EndTasks DEF KindsOK, ScanOf, Sc, OpType
<1>2. /\ op \in {"copy", "remove", "srm", "symlink"}
      /\ op \in {"copy", "srm"} =>
           \A n : (Doing(n)' <=> Has(back', {Wk(n)})) /\ (Doing(n) <=> Has(back, {Wk(n)}))
      /\ op \in {"remove", "symlink"} =>
           \A n : (Doing(n)' <=> Has(front', {Wk(n)})) /\ (Doing(n) <=> Has(front, {Wk(n)}))
  BY EndTasks, SameOp DEF Doing
<1> DEFINE u(k) == [act |-> k, node |-> t.node]
           w == IF op = "srm" THEN "remove" ELSE op
<1>3. /\ \A k \in {"copy", "stat", "remove", "destroy"} : u(k) # NoTask
      /\ \A n \in Node : u(w) = Wk(n) <=> t.node = n
      /\ \A n \in Node : \A k : k # w => u(k) # Wk(n)
  <2>1. \A k \in {"copy", "stat", "remove", "destroy"} : u(k) \in WorkTask
    BY <1>1 DEF WorkTask
  <2> QED BY <2>1, NoTaskAssumption DEF Wk
<1>4. CASE t.act = "stat"
  <2>1. front' = front /\ back' = Append(back, u("stat")) /\ "stat" # w
    BY <1>2, <1>4 DEF Pushes
  <2> HIDE DEF u, w
  <2>2. \A X : Has(back', X) <=> Has(back, X) \/ u("stat") \in X
    BY <1>1, <2>1, HasAppend
  <2> QED BY <1>1, <1>2, <1>3, <1>4, <2>1, <2>2
<1>5. CASE t.act = op /\ op = "copy"
  <2>1. front' = front /\ back' = Append(back, u("copy")) /\ "copy" = w
    BY <1>5 DEF Pushes
  <2> HIDE DEF u, w
  <2>2. \A X : Has(back', X) <=> Has(back, X) \/ u("copy") \in X
    BY <1>1, <2>1, HasAppend
  <2> QED BY <1>1, <1>2, <1>3, <1>5, <2>1, <2>2
<1>6. CASE t.act = op /\ op \in {"remove", "symlink"}
  <2>1. front' = <<u(w)>> \o front /\ back' = back
    BY <1>6 DEF Pushes
  <2> HIDE DEF u, w
  <2>2. \A X : Has(front', X) <=> Has(front, X) \/ u(w) \in X
    BY <1>1, <2>1, HasCons
  <2> QED BY <1>1, <1>2, <1>3, <1>6, <2>1, <2>2
<1>7. CASE t.act = op /\ op = "srm"
  <2>1. back' = <<u("remove")>> \o back /\ "remove" = w
    BY <1>7 DEF Pushes, LinksRemove
  <2> HIDE DEF u, w
  <2>2. \A X : Has(back', X) <=> Has(back, X) \/ u("remove") \in X
    BY <1>1, <2>1, HasCons
  <2> QED BY <1>1, <1>2, <1>3, <1>7, <2>1, <2>2
<1> QED BY <1>1, <1>2, <1>4, <1>5, <1>6, <1>7

\* What was met stays met.
LEMMA ReachedKept ==
  ASSUME TypeOK, KindsOK, Sure, Scan, ~crashed', NEW n \in Node, Reached(n)
  PROVE  Reached(n)'
<1>1. op' = op /\ UNCHANGED <<todo, src, dst>> /\ scanq \in Seq(ScanOf(op)) /\ ents \subseteq Node
  BY ScanSteps DEF ScanStep, mainVars, argVars, diskVars, KindsOK, TypeOK, ScanOK
<1>2. (Done(n) => Done(n)') /\ (Todo(n) => Todo(n)') /\ Sc(n)' = Sc(n) /\ Sc(n) \in ScanOf(op)
  BY <1>1, SameOp, EndTasks DEF Done, Todo
<1>3. skipped' = skipped => (Skipped(n) => Skipped(n)')
  BY DEF Skipped
<1>4. UNCHANGED <<front, back>> => (Doing(n) => Doing(n)')
  BY <1>1, SameOp DEF Doing, Lane
<1> USE DEF histVars, workVars
<1>5. CASE ScanGivesUp
  <2>1. /\ skipped' = skipped \cup Below(ScanCurrent.node) /\ UNCHANGED <<front, back>>
        /\ scanq' = Without(scanq, ScanCurrent)
    BY <1>5 DEF ScanGivesUp
  <2>2. Skipped(n) => Skipped(n)'
    BY <2>1 DEF Skipped
  <2>3. Has(scanq, {Sc(n)}) => Has(scanq', {Sc(n)}) \/ ScanCurrent = Sc(n)
    BY <1>1, <2>1, HasWithout
  <2>4. ScanCurrent = Sc(n) => Skipped(n)'
    <3>1. n \in Below(n) /\ Sc(n).node = n
      BY BelowDown, EndTasks
    <3> QED BY <2>1, <3>1 DEF Skipped
  <2> QED BY <1>2, <1>4, <2>1, <2>2, <2>3, <2>4 DEF Reached
<1>6. CASE ScanPushes
  <2>1. PICK t \in ScanTask : /\ t = ScanCurrent /\ t # NoTask /\ Pushes(t) /\ scanq' = Without(scanq, t)
                              /\ skipped' = skipped
    BY <1>6 DEF ScanPushes, Scans
  <2>2. t \in ScanOf(op)
    BY <2>1, KindTasks
  <2>3. (Doing(n) => Doing(n)') /\ (t = Sc(n) => Doing(n)')
    BY <1>1, <2>1, <2>2, PushesLane
  <2>4. Has(scanq, {Sc(n)}) => Has(scanq', {Sc(n)}) \/ t = Sc(n)
    BY <1>1, <2>1, HasWithout
  <2> QED BY <1>2, <1>3, <2>1, <2>3, <2>4 DEF Reached
<1>7. ASSUME NEW u \in ScanOf(op), NEW k, scanq' = Queued(u, k), UNCHANGED <<front, back, skipped>>
      PROVE  Reached(n)'
  <2>1. Has(scanq, {Sc(n)}) => Has(scanq', {Sc(n)})
    BY <1>1, <1>7, QueuedFacts
  <2> QED BY <1>2, <1>3, <1>4, <1>7, <2>1 DEF Reached
<1>8. CASE ScanChild
  <2>1. PICK t \in ScanTask, c \in ents :
          /\ t = ScanCurrent /\ t # NoTask /\ UNCHANGED <<front, back, skipped>>
          /\ scanq' = Queued([act |-> t.act, node |-> c], t.act)
    BY <1>8 DEF ScanChild, Scans
  <2>2. t \in ScanOf(op) /\ c \in Node
    BY <1>1, <2>1, KindTasks
  <2>3. [act |-> t.act, node |-> c] \in ScanOf(op)
    BY <2>2 DEF ScanOf
  <2> QED BY <1>7, <2>1, <2>3
<1>9. CASE ScanDirRead
  <2>1. PICK t \in ScanTask :
          /\ t = ScanCurrent /\ t # NoTask /\ UNCHANGED <<front, back, skipped>>
          /\ scanq' = Queued([act |-> "stat", node |-> t.node], t.act)
    BY <1>9 DEF ScanDirRead, Scans
  <2>2. [act |-> "stat", node |-> t.node] \in ScanOf(op)
    BY <2>1 DEF ScanOf, ScanTask
  <2> QED BY <1>7, <2>1, <2>2
<1>10. CASE ScanEmpty \/ ScanSleeps \/ ScanHeld \/ ScanAborts \/ ScanFails \/ ScanOpens
  <2>1. UNCHANGED <<scanq, front, back, skipped>>
    BY <1>10 DEF ScanEmpty, ScanSleeps, ScanHeld, ScanAborts, ScanFails, ScanOpens, scanVars
  <2> QED BY <1>2, <1>3, <1>4, <2>1 DEF Reached
<1> QED BY <1>5, <1>6, <1>8, <1>9, <1>10 DEF Scan

\* The directory at hand is read by the task that opened it.
LEMMA DirTask ==
  ASSUME TypeOK, KindsOK, DirIsOpen, dir
  PROVE  ScanCurrent = scur /\ scur # NoTask /\ scur.act = op /\ op # "symlink" /\ ~err["scan"]
BY DEF DirIsOpen, ScanCurrent

\* A node in a directory is met before the directory is read.
LEMMA UnreadScan ==
  ASSUME TypeOK, KindsOK, Sure, Scan, ~abort', ~crashed', DirIsOpen, op # "symlink",
         NEW n \in Node, Reached(n) \/ Unread(n), op = "copy" => src = Node
  PROVE  Reached(n)' \/ Unread(n)'
<1>1. CASE Reached(n)
  BY <1>1, ReachedKept
<1>2. CASE Unread(n) /\ ~Reached(n)
  <2> USE <1>2 DEF Unread
  <2>1. CASE ScanEmpty \/ ScanSleeps \/ ScanHeld
    <3>1. UNCHANGED <<dir, ents, listed>> /\ scur' \in {scur, ScanCurrent}
      BY <2>1 DEF ScanEmpty, ScanSleeps, ScanHeld, scanVars
    <3> QED BY <3>1, DirTask
  <2>2. CASE ScanGivesUp
    <3>1. UNCHANGED <<dir, listed>> /\ err["scan"]
      BY <2>2 DEF ScanGivesUp, GivesUp
    <3> QED BY <3>1, DirTask
  <2>3. CASE ScanAborts
    BY <2>3 DEF ScanAborts
  <2>4. CASE ScanFails \/ ScanPushes
    BY <2>4 DEF ScanFails, ScanPushes
  <2>5. CASE ScanOpens
    <3>1. PICK t \in ScanTask : /\ dir' = TRUE /\ scur' = t /\ listed' = listed
                                /\ ents' = Children(t.node) \cap src
      BY <2>5 DEF ScanOpens
    <3>2. n \in src
      BY EndTasks DEF Reached, Done
    <3> QED BY <3>1, <3>2 DEF Children
  <2>6. CASE ScanChild
    <3>1. PICK t \in ScanTask, c \in ents :
            /\ t = ScanCurrent /\ dir /\ UNCHANGED <<dir, listed>> /\ scur' = t /\ ents' = ents \ {c}
            /\ scanq' = Queued([act |-> t.act, node |-> c], t.act)
      BY <2>6 DEF ScanChild, Scans
    <3>2. t = scur /\ t.act = op
      BY <3>1, DirTask
    <3>3. CASE n # c
      BY <3>1, <3>2, <3>3
    <3>4. CASE n = c
      <4>1. scanq' = Queued(Sc(n), t.act) /\ Sc(n)' = Sc(n) /\ Sc(n) \in ScanOf(op)
        <5>1. op' = op
          BY ScanSteps DEF ScanStep, mainVars, argVars
        <5>2. Sc(n)' = Sc(n) /\ Sc(n) \in ScanOf(op)
          BY <5>1, SameOp, EndTasks
        <5> QED BY <3>1, <3>2, <3>4, <5>2 DEF Sc
      <4>2. Has(scanq', {Sc(n)})
        BY <4>1, QueuedFacts DEF KindsOK
      <4> QED BY <4>1, <4>2 DEF Reached
    <3> QED BY <3>3, <3>4
  <2>7. CASE ScanDirRead
    <3>1. PICK t \in ScanTask :
            t = ScanCurrent /\ dir /\ ~dir' /\ ents = {} /\ listed' = listed \cup {t.node}
      BY <2>7 DEF ScanDirRead, Scans
    <3>2. t = scur
      BY <3>1, DirTask
    <3> QED BY <3>1, <3>2
  <2> QED BY <2>1, <2>2, <2>3, <2>4, <2>5, <2>6, <2>7 DEF Scan
<1> QED BY <1>1, <1>2

LEMMA DirsReadScan ==
  ASSUME TypeOK, KindsOK, Sure, Scan, ~crashed', DirsRead
  PROVE  DirsRead'
<1>1. op' = op /\ UNCHANGED <<src, dst>> /\ listed \subseteq listed'
  <2>1. op' = op /\ UNCHANGED <<src, dst>>
    BY ScanSteps DEF ScanStep, mainVars, argVars, diskVars
  <2>2. CASE ScanEmpty \/ ScanSleeps \/ ScanHeld \/ ScanGivesUp \/ ScanAborts \/ ScanFails
    BY <2>1, <2>2 DEF ScanEmpty, ScanSleeps, ScanHeld, ScanGivesUp, ScanAborts, ScanFails, scanVars
  <2>3. CASE ScanOpens \/ ScanChild \/ ScanDirRead \/ ScanPushes
    BY <2>1, <2>3 DEF ScanOpens, ScanChild, ScanDirRead, ScanPushes
  <2> QED BY <2>1, <2>2, <2>3 DEF Scan
<1>2. ASSUME NEW n \in Node, Kind[n] = "dir", op # "symlink", Doing(n)' PROVE n \in listed'
  <2>1. CASE Doing(n)
    BY <1>1, <1>2, <2>1 DEF DirsRead
  <2>2. CASE UNCHANGED <<front, back>>
    BY <1>1, <1>2, <2>1, <2>2, SameOp DEF Doing, Lane
  <2>3. CASE ScanPushes
    <3>1. PICK t \in ScanTask : /\ t = ScanCurrent /\ t # NoTask /\ Pushes(t)
                                /\ t.act = "stat" \/ t.node \in listed \/ ~IsDirScan(t)
      BY <2>3 DEF ScanPushes, Scans
    <3>2. t \in ScanOf(op)
      BY <3>1, KindTasks
    <3>3. Doing(n) \/ t = Sc(n)
      BY <1>1, <1>2, <3>1, <3>2, PushesLane
    <3>4. t = Sc(n) => t.act = op /\ t.node = n /\ op \in {"copy", "remove", "srm", "symlink"}
      BY EndTasks
    <3> QED BY <1>1, <1>2, <2>1, <3>1, <3>3, <3>4 DEF IsDirScan
  <2>4. CASE ScanEmpty \/ ScanSleeps \/ ScanHeld \/ ScanGivesUp \/ ScanAborts \/ ScanFails
    BY <2>2, <2>4 DEF ScanEmpty, ScanSleeps, ScanHeld, ScanGivesUp, ScanAborts, ScanFails, workVars
  <2>5. CASE ScanOpens \/ ScanChild \/ ScanDirRead
    BY <2>2, <2>5 DEF ScanOpens, ScanChild, ScanDirRead, workVars
  <2> QED BY <2>3, <2>4, <2>5 DEF Scan
<1> QED BY <1>1, <1>2 DEF DirsRead

LEMMA DirIsOpenScan ==
  ASSUME TypeOK, KindsOK, Sure, Scan, ~abort', DirIsOpen
  PROVE  DirIsOpen'
<1>1. op' = op /\ err \in [Idler -> BOOLEAN] /\ "scan" \in Idler
  BY ScanSteps, CtlFacts DEF ScanStep, mainVars, argVars, Idler
<1>2. Cleared("scan") => ~err'["scan"]
  BY <1>1 DEF Cleared, Marks
<1>3. \A t \in ScanTask : t = ScanCurrent /\ t # NoTask /\ t.act # "stat" => t.act = op
  BY KindTasks, EndTasks
<1>4. CASE ScanEmpty \/ ScanSleeps \/ ScanHeld
  <2>1. UNCHANGED <<dir, err>> /\ scur' \in {scur, ScanCurrent}
    BY <1>4 DEF ScanEmpty, ScanSleeps, ScanHeld, scanVars, ctlVars
  <2> QED BY <1>1, <2>1, DirTask DEF DirIsOpen
<1>5. CASE ScanGivesUp
  <2>1. dir' = dir /\ err["scan"]
    BY <1>5 DEF ScanGivesUp, GivesUp
  <2> QED BY <2>1 DEF DirIsOpen
<1>6. CASE ScanAborts
  BY <1>6 DEF ScanAborts
<1>7. CASE ScanFails \/ ScanPushes \/ ScanDirRead
  BY <1>7 DEF ScanFails, ScanPushes, ScanDirRead, DirIsOpen
<1>8. CASE ScanOpens
  <2>1. PICK t \in ScanTask : /\ t = ScanCurrent /\ t # NoTask /\ t.act # "stat" /\ scur' = t
                              /\ Cleared("scan") /\ IsDirScan(t)
    BY <1>8 DEF ScanOpens, Scans
  <2> QED BY <1>1, <1>2, <1>3, <2>1 DEF DirIsOpen, IsDirScan
<1>9. CASE ScanChild
  <2>1. PICK t \in ScanTask : /\ t = ScanCurrent /\ t # NoTask /\ scur' = t /\ Cleared("scan") /\ dir
    BY <1>9 DEF ScanChild, Scans
  <2> QED BY <1>1, <1>2, <2>1, DirTask DEF DirIsOpen
<1> QED BY <1>4, <1>5, <1>6, <1>7, <1>8, <1>9 DEF Scan

LEMMA BackScan ==
  ASSUME TypeOK, KindsOK, Sure, Scan, ~crashed'
  PROVE  /\ \A X : Has(back, X) => Has(back', X)
         /\ Has(back', {NoTask}) => Has(back, {NoTask})
<1>1. CASE UNCHANGED back
  BY <1>1
<1>2. CASE ScanPushes
  <2>1. PICK t \in ScanTask : t = ScanCurrent /\ t # NoTask /\ Pushes(t)
    BY <1>2 DEF ScanPushes, Scans
  <2>2. t \in ScanOf(op) /\ op' = op
    BY <2>1, KindTasks, ScanSteps DEF ScanStep, mainVars, argVars
  <2> QED BY <2>1, <2>2, PushesLane
<1>3. CASE ScanEmpty \/ ScanSleeps \/ ScanHeld \/ ScanGivesUp \/ ScanAborts \/ ScanFails
  BY <1>1, <1>3 DEF ScanEmpty, ScanSleeps, ScanHeld, ScanGivesUp, ScanAborts, ScanFails, workVars
<1>4. CASE ScanOpens \/ ScanChild \/ ScanDirRead
  BY <1>1, <1>4 DEF ScanOpens, ScanChild, ScanDirRead, workVars
<1> QED BY <1>2, <1>3, <1>4 DEF Scan

LEMMA CopyWholeScan ==
  ASSUME TypeOK, KindsOK, Sure, Scan, ~crashed', CopyWhole
  PROVE  CopyWhole'
<1>1. op' = op /\ UNCHANGED <<src, wcur, cur>>
  BY ScanSteps DEF ScanStep, mainVars, argVars, diskVars
<1> QED BY <1>1, BackScan DEF CopyWhole

\* The scan idler that finds nothing has nothing, and that sleeps has asked.
LEMMA ScanWaitsScan ==
  ASSUME TypeOK, IdlerInv, PassOnce, Live, ScanWaits, Scan
  PROVE  ScanWaits'
<1>1. op' = op /\ looping' = looping
  BY ScanSteps DEF ScanStep, mainVars, argVars
<1> SUFFICES ASSUME op \in {"remove", "srm"} \/ Anew, looping, ~Registered("scan")', scanq' # <<>>
             PROVE  err'["scan"]
  BY <1>1, SameOp DEF ScanWaits
<1>2. Registered("scan") /\ (Registered("scan")' <=> Has(idlers', {"scan"}))
  <2>1. "scan" \in Idler
    BY DEF Idler
  <2> QED BY <2>1, TurnOnce, ScanSteps DEF ScanStep, Registered, Has
<1>3. idlers' # idlers
  BY <1>2 DEF Registered
<1>4. CASE ScanCurrent = NoTask /\ scanq' = scanq
  <2>1. scanq # <<>> => Head(scanq) \in ScanTask
    BY HeadTailProperties DEF TypeOK, ScanOK
  <2> QED BY <1>4, <2>1, NoTaskAssumption DEF ScanCurrent
<1>5. CASE ScanCurrent # NoTask /\ Sleeps("scan")
  <2>1. err["scan"]
    BY <1>5, NoOverwrite DEF Sleeps
  <2>2. ScanSleeps
    BY <1>3, <1>5 DEF Scan, ScanEmpty, ScanHeld, ScanGivesUp, ScanAborts, ScanFails, ScanOpens, ScanChild,
                      ScanDirRead, ScanPushes, Scans
  <2> QED BY <2>1, <2>2 DEF ScanSleeps, ctlVars
<1> QED BY <1>3, <1>4, <1>5, ScanIdler

LEMMA QuitScan ==
  ASSUME TypeOK, KindsOK, Sure, Scan, ~abort', ~crashed', QuitWhenDone
  PROVE  QuitWhenDone'
<1>1. UNCHANGED <<looping, todo, toDir, wcur>> /\ looping /\ scanq \in Seq(ScanOf(op))
  BY ScanSteps, Turned DEF ScanStep, mainVars, argVars, KindsOK
<1>2. ~Has(back', {NoTask})
  BY BackScan DEF QuitWhenDone
<1>3. quit' = quit
  <2>1. ~ScanAborts
    BY DEF ScanAborts
  <2>2. CASE ScanEmpty \/ ScanSleeps \/ ScanHeld \/ ScanGivesUp \/ ScanFails
    BY <2>2 DEF ScanEmpty, ScanSleeps, ScanHeld, ScanGivesUp, ScanFails
  <2>3. CASE ScanOpens \/ ScanChild \/ ScanDirRead \/ ScanPushes
    BY <2>3 DEF ScanOpens, ScanChild, ScanDirRead, ScanPushes
  <2> QED BY <2>1, <2>2, <2>3 DEF Scan
<1>4. CASE quit
  <2>1. Empty /\ ScanCurrent = NoTask
    <3>1. Empty
      BY <1>4 DEF QuitWhenDone
    <3>2. ScanCurrent # NoTask => scanq # <<>>
      BY KindTasks
    <3> QED BY <3>1, <3>2 DEF Empty
  <2>2. ScanEmpty
    BY <2>1 DEF Scan, ScanSleeps, ScanHeld, ScanGivesUp, ScanAborts, ScanFails, ScanOpens, ScanChild,
                ScanDirRead, ScanPushes, Scans
  <2>3. UNCHANGED <<scanq, front, back>>
    BY <2>2 DEF ScanEmpty, scanVars, workVars
  <2> QED BY <1>1, <1>2, <2>1, <2>3 DEF QuitWhenDone, Empty
<1>5. CASE ~quit
  BY <1>1, <1>2, <1>3, <1>5 DEF QuitWhenDone
<1> QED BY <1>4, <1>5

-----------------------------------------------------------------------------
(* main(), the user and the whole.                                         *)

LEMMA TodoHead ==
  ASSUME TypeOK, todo # <<>>, todo' = Tail(todo)
  PROVE  /\ Head(todo) \in Node /\ Len(todo) \in Nat /\ Len(todo') = Len(todo) - 1
         /\ \A n : Todo(n) => Todo(n)' \/ n = Head(todo)
<1>1. /\ todo \in Seq(Node) /\ Len(todo) \in Nat /\ Len(todo) # 0 /\ todo' \in Seq(Node)
      /\ Len(todo') = Len(todo) - 1 /\ Head(todo) = todo[1] /\ Head(todo) \in Node
      /\ \A i \in 1..Len(todo') : todo'[i] = todo[i + 1]
  BY HeadTailProperties, EmptySeq, LenProperties DEF TypeOK, MainOK
<1>2. ASSUME NEW i \in 1..Len(todo), i # 1 PROVE \E j \in 1..Len(todo') : todo'[j] = todo[i]
  <2>1. i - 1 \in 1..Len(todo') /\ (i - 1) + 1 = i
    BY <1>1, <1>2
  <2>2. todo'[i - 1] = todo[(i - 1) + 1]
    BY <1>1, <2>1
  <2> QED BY <2>1, <2>2
<1>3. ASSUME NEW n, Todo(n) PROVE Todo(n)' \/ n = Head(todo)
  BY <1>1, <1>2, <1>3 DEF Todo
<1> QED BY <1>1, <1>3

\* What main() does for these operations.
LEMMA MainSure ==
  ASSUME TypeOK, KindsOK, Before, Sure, Main
  PROVE  /\ ~looping /\ ~quit /\ op' = op /\ abort' = abort /\ crashed' = crashed
         /\ UNCHANGED <<toDir, scur, dir, ents, listed, front, back, wcur, cur, src, skipped, err>>
         /\ \/ /\ MainLoops /\ UNCHANGED <<todo, scanq, dst, quit>>
            \/ /\ todo # <<>> /\ todo' = Tail(todo)
               /\ \/ /\ op = "symlink" /\ dst' = [dst EXCEPT ![Head(todo)] = "new"] /\ scanq' = scanq
                     /\ quit' = ~toDir /\ looping' = ~toDir
                  \/ /\ scanq' = Append(scanq, Sc(Head(todo))) /\ dst' = dst /\ UNCHANGED <<quit, looping>>
<1>1. op \in {"copy", "remove", "srm", "symlink"} /\ type = op
  BY EndTasks
<1> USE DEF argVars, scanVars, workVars, passVars, ctlVars, diskVars, histVars
<1>2. ~looping /\ ~quit
  BY DEF Main, MainLinks, MainRenames, MainGivesUp, MainQueues, MainLoops, Before
<1>3. CASE MainLinks
  BY <1>1, <1>2, <1>3 DEF MainLinks
<1>4. CASE MainRenames \/ MainGivesUp
  BY <1>1, <1>4 DEF MainRenames, MainGivesUp
<1>5. CASE MainQueues
  <2>1. ArgType(Head(todo)) = op /\ op # "move"
    BY <1>1 DEF ArgType
  <2> QED BY <1>1, <1>2, <1>5, <2>1 DEF MainQueues, Sc
<1>6. CASE MainLoops
  BY <1>2, <1>6 DEF MainLoops
<1> QED BY <1>3, <1>4, <1>5, <1>6 DEF Main

LEMMA ReachedMain ==
  ASSUME TypeOK, KindsOK, Before, Sure, Main, NEW n \in Node, Reached(n)
  PROVE  Reached(n)'
<1>1. /\ op' = op /\ Sc(n)' = Sc(n) /\ (Skipped(n) => Skipped(n)') /\ (Doing(n) => Doing(n)')
      /\ scanq \in Seq(ScanOf(op)) /\ src' = src /\ dst \in [Node -> {"absent", "old", "part", "new"}]
  BY MainSure, SameOp DEF Skipped, Doing, Lane, KindsOK, TypeOK, DiskOK
<1>2. CASE UNCHANGED <<todo, scanq, dst>>
  BY <1>1, <1>2 DEF Reached, Done, Todo
<1>3. CASE /\ todo # <<>> /\ todo' = Tail(todo)
           /\ op = "symlink" /\ dst' = [dst EXCEPT ![Head(todo)] = "new"] /\ scanq' = scanq
  <2>1. Done(n) => Done(n)'
    BY <1>1, <1>3 DEF Done
  <2>2. Todo(n) => Todo(n)' \/ Done(n)'
    BY <1>1, <1>3, TodoHead DEF Done
  <2> QED BY <1>1, <1>3, <2>1, <2>2 DEF Reached
<1>4. CASE todo # <<>> /\ todo' = Tail(todo) /\ scanq' = Append(scanq, Sc(Head(todo))) /\ dst' = dst
  <2>1. Has(scanq', {Sc(n)}) <=> Has(scanq, {Sc(n)}) \/ Sc(Head(todo)) = Sc(n)
    <3> DEFINE u == Sc(Head(todo))
    <3>1. Has(Append(scanq, u), {Sc(n)}) <=> Has(scanq, {Sc(n)}) \/ u \in {Sc(n)}
      <4> HIDE DEF u
      <4> QED BY <1>1, HasAppend
    <3> QED BY <1>4, <3>1
  <2>2. Todo(n) => Todo(n)' \/ n = Head(todo)
    BY <1>4, TodoHead
  <2>3. Done(n) => Done(n)'
    BY <1>1, <1>4 DEF Done
  <2> QED BY <1>1, <2>1, <2>2, <2>3 DEF Reached
<1> QED BY <1>2, <1>3, <1>4, MainSure

LEMMA EndMain ==
  ASSUME TypeOK, KindsOK, Before, Sure, Main,
         NodesReached, DirsRead, DirIsOpen, CopyWhole, QuitWhenDone
  PROVE  NodesReached' /\ DirsRead' /\ DirIsOpen' /\ CopyWhole' /\ ScanWaits' /\ QuitWhenDone'
<1>1. /\ ~looping /\ ~quit /\ op' = op
      /\ UNCHANGED <<toDir, scur, dir, ents, listed, front, back, wcur, cur, src, skipped, err>>
  BY MainSure
<1>2. ~dir /\ front = <<>> /\ wcur = NoTask /\ back = <<>> /\ toDir \in BOOLEAN
  BY <1>1, ArgsAssumption DEF Before, QuitWhenDone, TypeOK, MainOK
<1>3. NodesReached'
  <2>1. \A n \in Node : Unread(n) => Unread(n)'
    BY <1>1, <1>2 DEF Unread
  <2>2. \A i \in 1..Len(Args) : Args[i] \in Node
    BY ArgsAssumption, ElementOfSeq
  <2> QED BY <1>1, <2>1, <2>2, ReachedMain DEF NodesReached
<1>4. DirsRead'
  <2>1. \A n : Doing(n)' <=> Doing(n)
    BY <1>1, SameOp DEF Doing, Lane
  <2>2. op # "symlink" => dst' = dst
    BY MainSure
  <2> QED BY <1>1, <2>1, <2>2 DEF DirsRead
<1>5. DirIsOpen' /\ CopyWhole'
  BY <1>1, <1>2 DEF DirIsOpen, CopyWhole
<1>6. ScanWaits'
  <2>1. CASE MainLoops
    <3> DEFINE q == <<"scan", "work">>
    <3>1. idlers' = q
      BY <2>1 DEF MainLoops
    <3>2. Len(q) = 2 /\ q[1] = "scan" /\ 1 \in 1..2
      OBVIOUS
    <3> HIDE DEF q
    <3> QED BY <3>1, <3>2 DEF ScanWaits, Registered
  <2>2. CASE op = "symlink"
    BY <1>1, <2>2, SameOp DEF ScanWaits, Anew
  <2>3. CASE UNCHANGED looping
    BY <1>1, <2>3 DEF ScanWaits
  <2> QED BY <2>1, <2>2, <2>3, MainSure
<1>7. QuitWhenDone'
  <2>1. ~Has(back', {NoTask})
    BY <1>1 DEF QuitWhenDone
  <2>2. CASE MainLoops /\ UNCHANGED <<todo, scanq, dst, quit>>
    BY <1>1, <2>1, <2>2 DEF MainLoops, QuitWhenDone
  <2>3. CASE todo # <<>> /\ todo' = Tail(todo)
    <3>1. Len(todo) \in Nat /\ Len(todo') = Len(todo) - 1 /\ todo' \in Seq(Node) /\ (Len(todo') = 0 => todo' = <<>>)
      <4>1. todo' \in Seq(Node)
        BY <2>3, HeadTailProperties DEF TypeOK, MainOK
      <4> QED BY <2>3, <4>1, TodoHead, EmptySeq
    <3>2. ~toDir => todo' = <<>> /\ scanq = <<>> /\ Len(todo') = 0
      BY <2>3, <3>1, LenProperties DEF QuitWhenDone
    <3>3. \/ scanq' = scanq /\ quit' = ~toDir /\ looping' = ~toDir
          \/ UNCHANGED <<quit, looping>>
      BY <2>3, MainSure DEF MainLoops
    <3>4. CASE toDir
      <4>1. ~quit' /\ ~looping'
        <5>1. CASE UNCHANGED <<quit, looping>>
          BY <1>1, <5>1
        <5>2. CASE quit' = ~toDir /\ looping' = ~toDir
          BY <3>4, <5>2
        <5> QED BY <3>3, <5>1, <5>2
      <4>2. toDir' = toDir
        BY <1>1
      <4> QED BY <1>1, <1>2, <2>1, <3>4, <4>1, <4>2 DEF QuitWhenDone
    <3>5. CASE ~toDir
      <4>1. todo' = <<>> /\ Len(todo') <= 1
        BY <3>2, <3>5
      <4>2. quit' => scanq' = <<>> /\ front' = <<>> /\ back' = <<>> /\ wcur' = NoTask
        BY <1>1, <1>2, <3>2, <3>3, <3>5
      <4> QED BY <1>1, <1>2, <2>1, <4>1, <4>2 DEF QuitWhenDone, Empty
    <3> QED BY <1>2, <3>4, <3>5
  <2> QED BY <2>2, <2>3, MainSure
<1> QED BY <1>3, <1>4, <1>5, <1>6, <1>7

LEMMA EndUser ==
  ASSUME TypeOK, User, ~abort',
         NodesReached, DirsRead, DirIsOpen, CopyWhole, ScanWaits, QuitWhenDone
  PROVE  NodesReached' /\ DirsRead' /\ DirIsOpen' /\ CopyWhole' /\ ScanWaits' /\ QuitWhenDone'
<1>1. /\ UNCHANGED <<mainVars, scanVars, workVars, diskVars, histVars, err, quit>>
      /\ idlers' = WithIdlers(idlers)
  BY DEF User, AnswerError, AnswerOverwrite, AbortArrives, passVars
<1>2. ScanWaits'
  <2>1. Registered("scan")' <=> Has(idlers', {"scan"})
    BY DEF Registered, Has
  <2> QED BY <1>1, <2>1, RegisteredFacts DEF ScanWaits, Idler
<1>3. \A n : (Reached(n)' <=> Reached(n)) /\ (Unread(n)' <=> Unread(n)) /\ (Doing(n)' <=> Doing(n))
  BY <1>1 DEF mainVars, argVars, scanVars, workVars, diskVars, histVars,
              Reached, Skipped, Done, Doing, Lane, Wk, Sc, Todo, Unread
<1>4. UNCHANGED <<op, toDir, todo, looping, scanq, scur, dir, listed, front, back, wcur, cur, src, dst>>
  BY <1>1 DEF mainVars, argVars, scanVars, workVars, diskVars
<1>5. NodesReached' /\ DirsRead'
  BY <1>3, <1>4 DEF NodesReached, DirsRead
<1>6. DirIsOpen' /\ CopyWhole' /\ QuitWhenDone'
  BY <1>1, <1>4 DEF DirIsOpen, CopyWhole, QuitWhenDone, Empty
<1> QED BY <1>2, <1>5, <1>6

LEMMA EndInit == Init => EndInv
<1> SUFFICES ASSUME Init, Sure
             PROVE  PassOnce /\ NodesReached /\ DirsRead /\ DirIsOpen /\ CopyWhole /\ ScanWaits /\ QuitWhenDone
  BY DEF EndInv
<1> USE DEF Init
<1>1. PassOnce
  BY HasEmpty DEF PassOnce
<1>2. \A i \in 1..Len(Args) : Args[i] \in Node /\ Reached(Args[i])
  BY ArgsAssumption, ElementOfSeq DEF Reached, Todo
<1>3. NodesReached
  <2>1. ASSUME NEW n \in Node, Parent[n] = NoNode PROVE Reached(n)
    <3>1. PICK i \in 1..Len(Args) : n \in Below(Args[i])
      BY NodeAssumption
    <3>2. n = Args[i]
      BY <1>2, <2>1, <3>1, BelowFacts
    <3> QED BY <1>2, <3>2
  <2> QED BY <1>2, <2>1 DEF NodesReached, Unread
<1>4. DirsRead
  <2>1. \A n : ~Doing(n)
    BY HasEmpty DEF Doing, Lane
  <2> QED BY <2>1 DEF DirsRead
<1>5. DirIsOpen /\ CopyWhole /\ ScanWaits
  <2>1. \A n \in Node : Cp(n) # NoTask
    BY NoTaskAssumption DEF Cp, WorkTask
  <2> QED BY <2>1 DEF DirIsOpen, CopyWhole, ScanWaits
<1>6. QuitWhenDone
  <2>1. ~toDir => Len(todo) <= 1
    <3>1. toDir \in ToDirs /\ toDir \in BOOLEAN /\ todo = Args
      BY ArgsAssumption
    <3>2. ~toDir => toDir = FALSE
      BY <3>1
    <3>3. ~toDir => Len(Args) = 1
      BY <3>1, <3>2, ArgsAssumption
    <3>4. Len(todo) = Len(Args)
      BY <3>1
    <3>5. ASSUME ~toDir PROVE Len(todo) <= 1
      <4>1. Len(Args) = 1
        BY <3>3, <3>5
      <4> QED BY <3>4, <4>1
    <3> QED BY <3>5
  <2>2. ~Has(back, {NoTask}) /\ ~looping /\ back = <<>> /\ scanq = <<>> /\ ~quit
    BY HasEmpty
  <2> QED BY <2>1, <2>2 DEF QuitWhenDone
<1> QED BY <1>1, <1>3, <1>4, <1>5, <1>6

LEMMA EndStep ==
  ASSUME TypeOK, IdlerInv, EndInv, [Next]_vars
  PROVE  EndInv'
<1>1. CASE Exited \/ UNCHANGED vars
  <2>1. UNCHANGED vars
    BY <1>1 DEF Exited
  <2>2. /\ \A n : (Reached(n)' <=> Reached(n)) /\ (Unread(n)' <=> Unread(n)) /\ (Doing(n)' <=> Doing(n))
        /\ (Sure' <=> Sure) /\ (Anew' <=> Anew)
    BY <2>1 DEF vars, mainVars, argVars, scanVars, workVars, diskVars, histVars,
                Reached, Skipped, Done, Doing, Lane, Wk, Sc, Todo, Unread, Sure, Anew
  <2>3. UNCHANGED <<op, toDir, todo, looping, scanq, scur, dir, listed, front, back, wcur, cur, src, dst,
                    idlers, left, quit, abort, crashed, err>>
    BY <2>1 DEF vars, mainVars, argVars, scanVars, workVars, diskVars, passVars, ctlVars
  <2>4. (PassOnce' <=> PassOnce) /\ (NodesReached' <=> NodesReached) /\ (DirsRead' <=> DirsRead)
    BY <2>2, <2>3 DEF PassOnce, NodesReached, DirsRead
  <2>5. (DirIsOpen' <=> DirIsOpen) /\ (CopyWhole' <=> CopyWhole)
    BY <2>3 DEF DirIsOpen, CopyWhole
  <2>6. (ScanWaits' <=> ScanWaits) /\ (QuitWhenDone' <=> QuitWhenDone)
    BY <2>2, <2>3 DEF ScanWaits, QuitWhenDone, Registered, Empty
  <2> QED BY <2>2, <2>3, <2>4, <2>5, <2>6 DEF EndInv
<1>2. ASSUME Main \/ Scan \/ Work \/ User
      PROVE  EndInv'
  <2>1. op' = op /\ (abort => abort') /\ (crashed => crashed') /\ KindsOK /\ Before
    <3>1. CASE Scan \/ Work
      <4>1. op' = op /\ (abort => abort') /\ ~crashed
        BY <3>1, ScanSteps, WorkSteps DEF ScanStep, WorkStep, mainVars, argVars, Turn, Running
      <4> QED BY <4>1 DEF IdlerInv
    <3>2. CASE Main
      BY <3>2 DEF Main, MainLinks, MainRenames, MainGivesUp, MainQueues, MainLoops, mainVars, argVars,
                  passVars, ctlVars, IdlerInv
    <3>3. CASE User
      BY <3>3 DEF User, AnswerError, AnswerOverwrite, AbortArrives, mainVars, argVars, passVars, IdlerInv
    <3> QED BY <1>2, <3>1, <3>2, <3>3
  <2> SUFFICES ASSUME Sure
               PROVE  /\ PassOnce'
                      /\ ~abort' /\ ~crashed' =>
                           NodesReached' /\ DirsRead' /\ DirIsOpen' /\ CopyWhole' /\ ScanWaits' /\ QuitWhenDone'
    BY <2>1, SameOp DEF EndInv
  <2>2. PassOnce /\ PassOnce'
    BY <2>1, PassStep DEF EndInv
  <2>3. ASSUME ~abort', ~crashed'
        PROVE  NodesReached' /\ DirsRead' /\ DirIsOpen' /\ CopyWhole' /\ ScanWaits' /\ QuitWhenDone'
    <3>1. ~abort /\ NodesReached /\ DirsRead /\ DirIsOpen /\ CopyWhole /\ ScanWaits /\ QuitWhenDone
      BY <2>1, <2>3 DEF EndInv
    <3>2. CASE Main
      BY <2>1, <3>1, <3>2, EndMain
    <3>3. CASE User
      BY <2>3, <3>1, <3>3, EndUser
    <3>4. CASE Scan
      <4>1. Live
        BY <3>1, <3>4, ScanSteps, Turned DEF ScanStep, Live
      <4>2. NodesReached'
        <5>1. op = "copy" => src = Node
          BY <3>1 DEF CopyWhole
        <5>2. \A i \in 1..Len(Args) : Args[i] \in Node
          BY ArgsAssumption, ElementOfSeq
        <5>3. \A n \in Node : Reached(n) => Reached(n)'
          BY <2>1, <2>3, <3>4, ReachedKept
        <5>4. op # "symlink" => \A n \in Node : Reached(n) \/ Unread(n) => Reached(n)' \/ Unread(n)'
          BY <2>1, <2>3, <3>1, <3>4, <5>1, UnreadScan
        <5> QED BY <2>1, <3>1, <5>2, <5>3, <5>4 DEF NodesReached
      <4>3. DirsRead' /\ DirIsOpen' /\ CopyWhole' /\ QuitWhenDone'
        BY <2>1, <2>3, <3>1, <3>4, DirsReadScan, DirIsOpenScan, CopyWholeScan, QuitScan
      <4>4. ScanWaits'
        BY <2>2, <3>1, <3>4, <4>1, ScanWaitsScan
      <4> QED BY <4>2, <4>3, <4>4
    <3>5. CASE Work
      <4>1. Live /\ UNCHANGED <<dir, scur>>
        BY <3>1, <3>5, WorkSteps, Turned DEF WorkStep, Live
      <4>2. NodesReached' /\ DirsRead' /\ CopyWhole'
        BY <2>1, <2>3, <3>1, <3>5, ReachedWork, DirsReadWork, CopyWholeWork
      <4>3. DirIsOpen'
        BY <2>1, <2>3, <3>1, <3>5, <4>1, ScanErrWork DEF DirIsOpen
      <4>4. ScanWaits' /\ QuitWhenDone'
        BY <2>3, <3>1, <3>5, <4>1, ScanWaitsWork, QuitWork
      <4> QED BY <4>2, <4>3, <4>4
    <3> QED BY <1>2, <3>2, <3>3, <3>4, <3>5
  <2> QED BY <2>2, <2>3
<1> QED BY <1>1, <1>2 DEF Next

LEMMA EndsAgree == Spec => []EndInv
<1>1. TypeOK /\ IdlerInv /\ EndInv /\ [Next]_vars => EndInv'
  BY EndStep
<1> QED BY <1>1, EndInit, TypeCorrect, IdlersAgree, PTL DEF Spec

\* When a remove, a shredding, a link or a copy whose writes and scans cannot
\* fail ends by itself, everything that the user did not skip is done: gone from
\* the source, or whole at the target, whatever else failed and was answered
\* (_e_fm_op_work_idler quits on nothing left to do).
THEOREM EndsWhenAllDone == Spec => [](Sure => AllDone)
<1>1. EndInv /\ IdlerInv /\ TypeOK => (Sure => AllDone)
  <2> SUFFICES ASSUME EndInv, KindsOK, TypeOK, Sure, EndedNormally,
                      NEW n \in Node \ UNION {Below(m) : m \in skipped}
               PROVE  /\ op \in {"copy", "move", "rename"} => dst[n] = "new"
                      /\ op \in {"remove", "srm", "move", "rename"} => n \notin src
                      /\ (op = "symlink" /\ \E i \in 1..Len(Args) : Args[i] = n) => dst[n] = "new"
    BY DEF AllDone, IdlerInv
  <2>1. Empty /\ NodesReached /\ DirsRead /\ DirIsOpen
    BY DEF EndedNormally, Ended, EndInv, QuitWhenDone
  <2>2. ~dir
    <3>1. \A X : ~Has(scanq, X)
      BY <2>1, HasEmpty DEF Empty
    <3> QED BY <2>1, <3>1 DEF DirIsOpen, KindsOK
  <2>3. ~Skipped(n)
    BY DEF Skipped
  <2>4. \A m \in Node : Reached(m) => Skipped(m) \/ Done(m)
    BY <2>1, HasEmpty DEF Empty, Reached, Doing, Lane, Todo
  <2>5. op \in {"copy", "remove", "srm", "symlink"}
    BY EndTasks
  <2>6. CASE op = "symlink"
    BY <2>1, <2>3, <2>4, <2>6 DEF NodesReached, Done
  <2>7. CASE op # "symlink"
    <3> DEFINE S == {m \in Node : Skipped(m) \/ Done(m)}
    <3>1. \A m \in Node : m \in S \/ (Parent[m] # NoNode /\ Parent[m] \notin listed)
      BY <2>1, <2>4, <2>7 DEF NodesReached, Unread
    <3>2. ASSUME NEW m \in Node, Parent[m] \in S PROVE m \in S
      <4> DEFINE p == Parent[m]
      <4>1. p \in Node /\ Kind[p] = "dir" /\ m \in Children(p)
        BY <3>2, TreeAssumption DEF Children
      <4>2. CASE Skipped(p)
        <5>1. PICK k \in skipped : p \in Below(k)
          BY <4>2 DEF Skipped
        <5>2. m \in Below(k)
          BY <4>1, <5>1, BelowDown DEF TypeOK, DiskOK
        <5> QED BY <5>1, <5>2 DEF Skipped
      <4>3. CASE Done(p)
        <5>1. CASE op = "copy"
          BY <2>1, <3>1, <4>1, <4>3, <5>1 DEF DirsRead, Done
        <5>2. CASE op # "copy"
          BY <2>1, <2>5, <2>7, <4>1, <4>3, <5>2 DEF DirsRead, Done
        <5> QED BY <5>1, <5>2
      <4> QED BY <3>2, <4>2, <4>3
    <3>3. PICK i \in 1..Len(Args) : n \in Below(Args[i])
      BY NodeAssumption
    <3>4. Args[i] \in Node /\ Parent[Args[i]] = NoNode
      BY ArgsAssumption, ElementOfSeq
    <3>5. n \in S
      <4>1. S \in SUBSET Node /\ Args[i] \in S /\ \A x \in Node : Parent[x] \in S => x \in S
        BY <3>1, <3>2, <3>4
      <4> HIDE DEF S
      <4> QED BY <3>3, <4>1 DEF Below
    <3> QED BY <2>3, <2>5, <2>7, <3>5 DEF Done
  <2> QED BY <2>6, <2>7
<1> QED BY <1>1, EndsAgree, IdlersAgree, TypeCorrect, PTL

-----------------------------------------------------------------------------
(* The order of the tasks.  Directories are made before what is copied into *)
(* them, and removed after what is in them: nothing fails that the system   *)
(* does not make fail.                                                      *)

\* a comes before every b in q.
Ahead(q, a, b) == \A j \in 1..Len(q) : q[j] = b => \E i \in 1..(j - 1) : q[i] = a

St(n) == [act |-> "stat", node |-> n]

\* Nothing has failed, and nothing is asked about a target.
Smooth == faults = 0 /\ (op \in {"remove", "srm"} \/ Anew)

\* Nothing went wrong.
Calm ==
  /\ \A i \in Idler : ~err[i]
  /\ skipped = {} /\ recursed = {} /\ ~crashed /\ ~overwrite

\* A node of a remove is to be scanned, to be removed, or gone.
Seen(n) == Has(scanq, {Sc(n)}) \/ Doing(n) \/ n \notin src

TodoUnseen ==
  ~looping => /\ \A n \in Node : Todo(n) => ~Seen(n) /\ Parent[n] = NoNode
              /\ \A i, j \in 1..Len(todo) : todo[i] = todo[j] => i = j

DirUnseen ==
  dir => /\ scur # NoTask /\ scur.act = op /\ scur.node \notin listed
         /\ \A n \in ents : ~Seen(n) /\ Parent[n] = scur.node

SeenUnder ==
  \A n \in Node :
    /\ Seen(n) => Parent[n] = NoNode \/ Parent[n] \in listed \/ (dir /\ Parent[n] = scur.node)
    /\ n \in listed => Seen(n)

SeenOnce ==
  \A n \in Node :
    /\ Once(scanq, {Sc(n)}) /\ Once(Lane, {Wk(n)})
    /\ Has(scanq, {Sc(n)}) => n \in src /\ ~Doing(n)
    /\ Doing(n) => n \in src

SeenOK == TodoUnseen /\ DirUnseen /\ SeenUnder /\ SeenOnce

\* A copy comes to a directory before what is in it.
CopiedBefore(p, n) ==
  \/ dst[p] \in {"old", "new"}
  \/ /\ Ahead(back, Cp(p), Cp(n))
     /\ Has(back, {Cp(p)}) \/ Ahead(scanq, Sc(p), Sc(n))

CopyOrder ==
  /\ src = Node
  /\ wcur # NoTask => back # <<>> /\ wcur = Head(back)
  /\ scur # NoTask => scanq # <<>> /\ scur = Head(scanq)
  /\ cur.open => wcur # NoTask /\ Kind[wcur.node] = "file"
  /\ \A p \in Node : \A n \in Children(p) : CopiedBefore(p, n)

\* The idlers of a remove take turns: what is scanned is removed at once, and
\* what is in a directory is scanned first.
RemoveOrder ==
  /\ wcur = NoTask /\ (scur # NoTask => dir)
  /\ looping => idlers \in {<<"scan", "work">>, <<"work">>}
  /\ left \in {<<>>, <<"work">>} /\ (left = <<>> => front = <<>>)
  /\ front # <<>> => \E m \in Node : front = <<Rm(m)>> /\ Children(m) \cap src = {}
  /\ \A p \in Node : \A n \in Children(p) \cap src :
       p \in listed \/ (dir /\ scur.node = p /\ n \notin ents)
         => Has(front, {Rm(n)}) \/ Ahead(scanq, Sc(n), Sc(p))

\* A shredding scans a directory before what is in it, and the removes are
\* queued the other way round.
ShredOrder ==
  /\ scur # NoTask => scanq # <<>> /\ scur = Head(scanq)
  /\ sep # "none" /\ (sep = "freed" => looping /\ scanq = <<>> /\ front = <<>>)
  /\ wcur # NoTask => wcur.act = "destroy" /\ Has(front, {wcur})
  /\ ~cur.open
  /\ \A p \in Node : \A n \in Children(p) :
       /\ Has(scanq, {Sc(p)}) => ~Has(back, {Rm(n)}) /\ Ahead(scanq, Sc(p), Sc(n))
       /\ n \in src => Has(scanq, {Sc(n)}) \/ Ahead(back, Rm(n), Rm(p))

\* The order of the tasks while nobody aborts.
Ordering ==
  /\ op = "copy" => CopyOrder
  /\ op # "copy" => SeenOK
  /\ op = "remove" => RemoveOrder
  /\ op = "srm" => ShredOrder

OrderInv ==
  Smooth =>
    /\ Calm
    /\ ~abort => Ordering

\* What is ahead in a queue when an element comes or goes.
LEMMA AheadAppend ==
  ASSUME NEW S, NEW q \in Seq(S), NEW u, NEW a, NEW b, Ahead(q, a, b), u = b => Has(q, {a})
  PROVE  Ahead(Append(q, u), a, b)
<1>1. /\ Len(q) \in Nat /\ Len(Append(q, u)) = Len(q) + 1
      /\ \A i \in 1..Len(q) : Append(q, u)[i] = q[i]
      /\ Append(q, u)[Len(q) + 1] = u
  <2>1. q \in Seq(S \cup {u}) /\ u \in S \cup {u}
    BY SeqMonotonic
  <2> QED BY <2>1, AppendProperties, LenProperties
<1> DEFINE w == Append(q, u)
<1> HIDE DEF w
<1> SUFFICES ASSUME NEW j \in 1..Len(w), w[j] = b
             PROVE  \E i \in 1..(j - 1) : w[i] = a
  BY DEF Ahead, w
<1>2. CASE j \in 1..Len(q)
  <2>1. PICK i \in 1..(j - 1) : q[i] = a
    BY <1>1, <1>2 DEF Ahead, w
  <2> QED BY <1>1, <1>2, <2>1 DEF w
<1>3. CASE j = Len(q) + 1
  <2>1. PICK i \in 1..Len(q) : q[i] = a
    BY <1>1, <1>3 DEF Has, w
  <2> QED BY <1>1, <1>3, <2>1 DEF w
<1> QED BY <1>1, <1>2, <1>3 DEF w

LEMMA AheadCons ==
  ASSUME NEW S, NEW q \in Seq(S), NEW u, NEW a, NEW b, u # b, Ahead(q, a, b) \/ u = a
  PROVE  Ahead(<<u>> \o q, a, b)
<1> DEFINE w == <<u>> \o q
<1>1. Len(q) \in Nat /\ Len(w) = Len(q) + 1 /\ w[1] = u /\ \A i \in 1..Len(q) : w[i + 1] = q[i]
  <2>1. q \in Seq(S \cup {u}) /\ <<u>> \in Seq(S \cup {u})
    BY SeqMonotonic
  <2>2. Len(<<u>>) = 1 /\ <<u>>[1] = u
    OBVIOUS
  <2>3. /\ Len(w) = Len(<<u>>) + Len(q)
        /\ \A i \in 1..(Len(<<u>>) + Len(q)) : w[i] =
              IF i <= Len(<<u>>) THEN <<u>>[i] ELSE q[i - Len(<<u>>)]
    BY <2>1, ConcatProperties
  <2>4. Len(q) \in Nat
    BY LenProperties
  <2> QED BY <2>2, <2>3, <2>4
<1> HIDE DEF w
<1> SUFFICES ASSUME NEW j \in 1..Len(w), w[j] = b
             PROVE  \E i \in 1..(j - 1) : w[i] = a
  BY DEF Ahead, w
<1>2. j # 1 /\ j - 1 \in 1..Len(q) /\ w[(j - 1) + 1] = q[j - 1] /\ (j - 1) + 1 = j
  BY <1>1
<1>3. CASE u = a
  BY <1>1, <1>2, <1>3
<1>4. CASE Ahead(q, a, b)
  <2>1. PICK i \in 1..((j - 1) - 1) : q[i] = a
    BY <1>2, <1>4 DEF Ahead
  <2>2. i \in 1..Len(q) /\ i + 1 \in 1..(j - 1)
    BY <1>1, <1>2, <2>1
  <2> QED BY <1>1, <2>1, <2>2
<1> QED BY <1>3, <1>4

LEMMA AheadWithout ==
  ASSUME NEW S, NEW q \in Seq(S), NEW u, NEW a, NEW b, u # a, Ahead(q, a, b)
  PROVE  Ahead(Without(q, u), a, b)
<1>1. CASE \E i \in 1..Len(q) : q[i] = u
  <2> DEFINE w == Without(q, u)
  <2>1. /\ Len(q) \in Nat /\ Len(w) = Len(q) - 1
        /\ \E i \in 1..Len(q) :
             /\ q[i] = u
             /\ \A k \in 1..Len(w) : w[k] = IF k < i THEN q[k] ELSE q[k + 1]
    BY <1>1, WithoutIndex, LenProperties
  <2> HIDE DEF w
  <2>2. PICK k \in 1..Len(q) :
          /\ q[k] = u
          /\ \A i \in 1..Len(w) : w[i] = IF i < k THEN q[i] ELSE q[i + 1]
    BY <2>1
  <2> SUFFICES ASSUME NEW j \in 1..Len(w), w[j] = b
               PROVE  \E i \in 1..(j - 1) : w[i] = a
    BY DEF Ahead, w
  <2>3. \E m \in 1..Len(q) : q[m] = b /\ m = (IF j < k THEN j ELSE j + 1)
    BY <2>1, <2>2
  <2>4. PICK m \in 1..Len(q) : q[m] = b /\ m = (IF j < k THEN j ELSE j + 1)
    BY <2>3
  <2>5. PICK i \in 1..(m - 1) : q[i] = a
    BY <2>4 DEF Ahead
  <2>6. i # k /\ i \in 1..Len(q)
    BY <2>2, <2>4, <2>5
  <2>7. CASE i < k
    <3>1. i \in 1..(j - 1) /\ i \in 1..Len(w)
      BY <2>1, <2>2, <2>4, <2>5, <2>7
    <3> QED BY <2>2, <2>5, <2>7, <3>1
  <2>8. CASE i > k
    <3>1. i - 1 \in 1..(j - 1) /\ i - 1 \in 1..Len(w) /\ ~(i - 1 < k) /\ (i - 1) + 1 = i
      BY <2>1, <2>2, <2>4, <2>5, <2>8
    <3>2. w[i - 1] = q[(i - 1) + 1]
      BY <2>2, <3>1
    <3> QED BY <2>5, <3>1, <3>2
  <2> QED BY <2>2, <2>6, <2>7, <2>8
<1>2. CASE ~\E i \in 1..Len(q) : q[i] = u
  BY <1>2 DEF Without
<1> QED BY <1>1, <1>2

LEMMA AheadHead ==
  ASSUME NEW S, NEW q \in Seq(S), q # <<>>, NEW a, NEW b, Ahead(q, a, b)
  PROVE  Head(q) # b
<1>1. Len(q) \in Nat /\ Len(q) # 0 /\ Head(q) = q[1]
  BY HeadTailProperties, EmptySeq, LenProperties
<1>2. 1 \in 1..Len(q) /\ ~\E i \in 1..(1 - 1) : TRUE
  BY <1>1
<1> QED BY <1>1, <1>2 DEF Ahead

LEMMA AheadNone ==
  ASSUME NEW q, NEW a, NEW b, ~Has(q, {b})
  PROVE  Ahead(q, a, b)
BY DEF Has, Ahead

\* What leaves a queue that does not hold it changes nothing.
LEMMA AbsentLeaves ==
  ASSUME NEW q, NEW u, ~Has(q, {u})
  PROVE  Without(q, u) = q
BY DEF Has, Without

-----------------------------------------------------------------------------
(* What the idlers do when nothing goes wrong.                             *)

LEMMA CalmTasks ==
  ASSUME TypeOK, KindsOK, op \in {"remove", "srm"} \/ Anew
  PROVE  /\ op \in {"copy", "remove", "srm"} /\ type = op
         /\ \A t \in ScanOf(op) : t.node \in Node /\ (t = St(t.node) \/ t = Sc(t.node))
         /\ \A t \in WorkOf(op) :
              /\ t.node \in Node
              /\ t = St(t.node) \/ t = Wk(t.node) \/ (op = "srm" /\ t = Ds(t.node))
         /\ op = "copy" => \A n : Sc(n) = Cp(n) /\ Wk(n) = Cp(n)
         /\ op # "copy" => \A n : Wk(n) = Rm(n)
         /\ Lane = IF op = "remove" THEN front ELSE back
<1>1. op \in {"copy", "remove", "srm"} /\ type = op
  BY DEF Anew, KindsOK, ScanActs, Moves
<1>2. \A t \in ScanOf(op) : t.node \in Node /\ (t = St(t.node) \/ t = Sc(t.node))
  BY <1>1 DEF ScanOf, ScanActs, Moves, St, Sc
<1>3. \A t \in WorkOf(op) :
        /\ t.node \in Node
        /\ t = St(t.node) \/ t = Wk(t.node) \/ (op = "srm" /\ t = Ds(t.node))
  BY <1>1 DEF WorkOf, FrontActs, BackActs, Moves, St, Wk, Ds
<1> QED BY <1>1, <1>2, <1>3 DEF Sc, Wk, Cp, Rm, Lane

LEMMA TaskNames ==
  \A n, m :
    /\ (Sc(n) = Sc(m) <=> n = m) /\ (St(n) = St(m) <=> n = m) /\ (Wk(n) = Wk(m) <=> n = m)
    /\ (Ds(n) = Ds(m) <=> n = m) /\ (Rm(n) = Rm(m) <=> n = m) /\ (Cp(n) = Cp(m) <=> n = m)
    /\ op # "stat" => Sc(n) # St(m)
    /\ St(n) # Rm(m) /\ St(n) # Cp(m) /\ Ds(n) # Rm(m) /\ St(n) # Ds(m)
    /\ Sc(n).node = n /\ Sc(n).act = op /\ St(n).node = n /\ St(n).act = "stat"
    /\ Wk(n).node = n /\ Wk(n).act = (IF op = "srm" THEN "remove" ELSE op)
    /\ Rm(n).node = n /\ Rm(n).act = "remove" /\ Cp(n).node = n /\ Cp(n).act = "copy"
    /\ Ds(n).node = n /\ Ds(n).act = "destroy"
BY DEF Sc, St, Wk, Ds, Rm, Cp

LEMMA CalmFacts ==
  ASSUME TypeOK, Calm, NEW e \in Idler
  PROVE  /\ ~Sleeps(e) /\ ~GivesUp(e) /\ ~Held(e) /\ ~ToldToAbort(e)
         /\ Cleared(e) => \A i \in Idler : ~err'[i]
  BY CtlFacts DEF Calm, Sleeps, GivesUp, Held, ToldToAbort, Cleared, Marks

\* The scan idler opens a directory, comes to the next entry, closes the directory,
\* or pushes a task: the attributes of a node, or the node.
Opens(n) ==
  /\ ScanCurrent = Sc(n) /\ ~dir /\ n \notin listed /\ Kind[n] = "dir"
  /\ dir' /\ ents' = Children(n) \cap src /\ scur' = Sc(n)
  /\ UNCHANGED <<scanq, listed, front, back>>
Finds(n, c) ==
  /\ ScanCurrent = Sc(n) /\ dir /\ c \in ents
  /\ ents' = ents \ {c} /\ scur' = Sc(n) /\ scanq' = Queued(Sc(c), op)
  /\ UNCHANGED <<dir, listed, front, back>>
Closes(n) ==
  /\ ScanCurrent = Sc(n) /\ dir /\ ents = {}
  /\ ~dir' /\ ents' = {} /\ scur' = NoTask /\ scanq' = Queued(St(n), op)
  /\ listed' = listed \cup {n}
  /\ UNCHANGED <<front, back>>
Describes(n) ==
  /\ ScanCurrent = St(n) /\ ~dir
  /\ scanq' = Without(scanq, St(n)) /\ scur' = NoTask /\ back' = Append(back, St(n))
  /\ UNCHANGED <<dir, ents, listed, front>>
Hands(n) ==
  /\ ScanCurrent = Sc(n) /\ ~dir /\ (Kind[n] = "dir" => n \in listed)
  /\ scanq' = Without(scanq, Sc(n)) /\ scur' = NoTask
  /\ op = "copy" => front' = front /\ back' = Append(back, Cp(n))
  /\ op = "remove" => front' = <<Rm(n)>> \o front /\ back' = back
  /\ op = "srm" => front' = <<Ds(n)>> \o front /\ back' = <<Rm(n)>> \o back
  /\ UNCHANGED <<dir, ents, listed>>

CalmScans ==
  \/ UNCHANGED <<scanq, scur, dir, ents, listed, front, back>>
  \/ \E n \in Node : \/ Opens(n) \/ Closes(n) \/ Describes(n) \/ Hands(n)
                     \/ \E c \in Node : Finds(n, c)

LEMMA CalmScan ==
  ASSUME TypeOK, KindsOK, Calm, op \in {"remove", "srm"} \/ Anew, Scan, ~abort', faults' = 0,
         \A n \in Node : Has(scanq, {Sc(n)}) => n \in src,
         op = "srm" /\ scanq # <<>> => sep = "live"
  PROVE  CalmScans /\ Calm'
<1>1. /\ op \in {"copy", "remove", "srm"} /\ faults \in Nat
      /\ "scan" \in Idler /\ ents \subseteq Node
      /\ ScanCurrent \in ScanOf(op) \cup {NoTask}
      /\ ScanCurrent # NoTask => Has(scanq, {ScanCurrent}) /\ scanq # <<>>
      /\ NoTask \notin ScanOf(op)
      /\ \A t \in ScanOf(op) : t.node \in Node /\ (t = St(t.node) \/ t = Sc(t.node))
  BY CalmTasks, KindTasks, KindFacts DEF Idler, TypeOK, CtlOK, ScanOK
<1>2. /\ ~Sleeps("scan") /\ ~GivesUp("scan") /\ ~Held("scan") /\ ~ToldToAbort("scan")
      /\ Cleared("scan") => \A i \in Idler : ~err'[i]
  BY <1>1, CalmFacts
<1>3. overwrite' = overwrite /\ ~overwrite
  BY ScanSteps DEF ScanStep, Calm
<1>4. CASE ScanEmpty
  BY <1>3, <1>4 DEF ScanEmpty, CalmScans, Calm, scanVars, workVars, ctlVars, histVars
<1>5. CASE ScanSleeps \/ ScanHeld \/ ScanGivesUp \/ ScanAborts
  BY <1>2, <1>5 DEF ScanSleeps, ScanHeld, ScanGivesUp, ScanAborts
<1>6. CASE ScanFails
  <2>1. PICK t \in ScanTask : /\ ScanCurrent = t /\ t # NoTask /\ t.act # "stat"
                              /\ t.node \notin src \/ faults' = faults + 1
    BY <1>6 DEF ScanFails, Scans
  <2>2. t = Sc(t.node) /\ t.node \in Node
    BY <1>1, <2>1, TaskNames
  <2> QED BY <1>1, <2>1, <2>2
<1>7. CASE ScanOpens
  <2>1. PICK t \in ScanTask :
          /\ ScanCurrent = t /\ t # NoTask /\ t.act # "stat" /\ ~dir /\ t.node \notin listed
          /\ Kind[t.node] = "dir" /\ dir' /\ ents' = Children(t.node) \cap src /\ scur' = t
          /\ Cleared("scan") /\ UNCHANGED <<scanq, listed, front, back, crashed, skipped, recursed>>
    BY <1>7 DEF ScanOpens, Scans, IsDirScan, workVars, histVars
  <2>2. t = Sc(t.node) /\ t.node \in Node
    BY <1>1, <2>1, TaskNames
  <2>3. Opens(t.node)
    BY <2>1, <2>2 DEF Opens
  <2> QED BY <1>2, <1>3, <2>1, <2>2, <2>3 DEF CalmScans, Calm
<1>8. CASE ScanChild
  <2>1. PICK t \in ScanTask : \E c \in ents :
          /\ ScanCurrent = t /\ t # NoTask /\ t.act # "stat" /\ dir
          /\ scanq' = Queued([act |-> t.act, node |-> c], t.act) /\ ents' = ents \ {c} /\ scur' = t
          /\ Cleared("scan") /\ UNCHANGED <<dir, listed, front, back, crashed, skipped, recursed>>
    BY <1>8 DEF ScanChild, Scans, workVars, histVars
  <2>2. PICK c \in ents :
          /\ ScanCurrent = t /\ t # NoTask /\ t.act # "stat" /\ dir
          /\ scanq' = Queued([act |-> t.act, node |-> c], t.act) /\ ents' = ents \ {c} /\ scur' = t
          /\ Cleared("scan") /\ UNCHANGED <<dir, listed, front, back, crashed, skipped, recursed>>
    BY <2>1
  <2>3. t = Sc(t.node) /\ t.node \in Node /\ t.act = op /\ c \in Node
    BY <1>1, <2>2, TaskNames
  <2>4. [act |-> t.act, node |-> c] = Sc(c)
    BY <2>3 DEF Sc
  <2>5. Finds(t.node, c)
    BY <2>2, <2>3, <2>4 DEF Finds
  <2> QED BY <1>2, <1>3, <2>2, <2>3, <2>5 DEF CalmScans, Calm
<1>9. CASE ScanDirRead
  <2>1. PICK t \in ScanTask :
          /\ ScanCurrent = t /\ t # NoTask /\ t.act # "stat" /\ dir /\ ents = {} /\ ents' = ents
          /\ scanq' = Queued([act |-> "stat", node |-> t.node], t.act)
          /\ listed' = listed \cup {t.node} /\ ~dir' /\ scur' = NoTask
          /\ Cleared("scan") /\ UNCHANGED <<front, back, crashed, skipped, recursed>>
    BY <1>9 DEF ScanDirRead, Scans, workVars, histVars
  <2>2. t = Sc(t.node) /\ t.node \in Node /\ t.act = op
    BY <1>1, <2>1, TaskNames
  <2>3. [act |-> "stat", node |-> t.node] = St(t.node)
    BY DEF St
  <2>4. Closes(t.node)
    BY <2>1, <2>2, <2>3 DEF Closes
  <2> QED BY <1>2, <1>3, <2>1, <2>2, <2>4 DEF CalmScans, Calm
<1>10. CASE ScanPushes
  <2>1. PICK t \in ScanTask :
          /\ ScanCurrent = t /\ t # NoTask /\ ~dir
          /\ t.act = "stat" \/ t.node \in listed \/ ~IsDirScan(t)
          /\ Pushes(t) /\ scanq' = Without(scanq, t) /\ scur' = NoTask
          /\ Cleared("scan") /\ UNCHANGED <<dir, ents, listed, skipped, recursed>>
    BY <1>10 DEF ScanPushes, Scans, histVars
  <2>2. t.node \in Node /\ (t = St(t.node) \/ t = Sc(t.node)) /\ (op = "srm" => sep = "live")
    BY <1>1, <2>1
  <2>3. CASE t = St(t.node)
    <3>1. t.act = "stat"
      BY <2>3, TaskNames
    <3>2. back' = Append(back, St(t.node)) /\ UNCHANGED <<front, crashed>>
      BY <2>1, <3>1 DEF Pushes, St
    <3>3. Describes(t.node)
      BY <2>1, <2>3, <3>2 DEF Describes
    <3> QED BY <1>2, <1>3, <2>1, <2>2, <3>2, <3>3 DEF CalmScans, Calm
  <2>4. CASE t = Sc(t.node)
    <3>1. t.act = op /\ op # "stat"
      BY <1>1, <2>4, TaskNames
    <3>2. /\ op = "copy" => front' = front /\ back' = Append(back, Cp(t.node)) /\ crashed' = crashed
          /\ op = "remove" => front' = <<Rm(t.node)>> \o front /\ back' = back /\ crashed' = crashed
          /\ op = "srm" => front' = <<Ds(t.node)>> \o front /\ back' = <<Rm(t.node)>> \o back
                           /\ crashed' = crashed
      <4>1. CASE op = "copy"
        BY <2>1, <3>1, <4>1 DEF Pushes, Cp
      <4>2. CASE op = "remove"
        BY <2>1, <3>1, <4>2 DEF Pushes, Rm
      <4>3. CASE op = "srm"
        BY <2>1, <2>2, <3>1, <4>3 DEF Pushes, LinksRemove, Ds, Rm
      <4> QED BY <1>1, <4>1, <4>2, <4>3
    <3>3. Kind[t.node] = "dir" => t.node \in listed
      BY <1>1, <2>1, <3>1 DEF IsDirScan
    <3>4. Hands(t.node) /\ crashed' = crashed
      BY <1>1, <2>1, <2>4, <3>2, <3>3 DEF Hands
    <3> QED BY <1>2, <1>3, <2>1, <2>2, <3>4 DEF CalmScans, Calm
  <2> QED BY <2>2, <2>3, <2>4
<1> QED BY <1>4, <1>5, <1>6, <1>7, <1>8, <1>9, <1>10 DEF Scan

\* The work idler waits, drops the separator, goes on with a task, or ends one.
Waits == WorkCurrent = NoTask /\ UNCHANGED <<front, sep, back, wcur, cur, src, dst>>
Separates ==
  /\ WorkCurrent = NoTask /\ front = <<>> /\ ~Registered("scan") /\ sep' = "freed"
  /\ UNCHANGED <<front, back, wcur, cur, src, dst>>
GoesOn(t) ==
  /\ WorkCurrent = t /\ t.act \in {"copy", "destroy"} /\ wcur' = t
  /\ \/ dst' = dst /\ (cur'.open => cur.open)
     \/ t.act = "copy" /\ dst' = [dst EXCEPT ![t.node] = "part"] /\ Kind[t.node] = "file"
  /\ UNCHANGED <<front, sep, back, src>>
Ends(t) ==
  /\ WorkCurrent = t /\ wcur' = NoTask /\ cur' = Fresh
  /\ front' = Without(front, t) /\ back' = Without(back, t)
  /\ src' = IF t.act = "remove" THEN src \ {t.node} ELSE src
  /\ dst' \in {dst, [dst EXCEPT ![t.node] = "new"]}
  /\ t.act = "copy" /\ Kind[t.node] = "dir" => dst'[t.node] = "new"
  /\ UNCHANGED sep

CalmWorks ==
  Waits \/ Separates \/ \E t \in WorkOf(op) : GoesOn(t) \/ Ends(t)

LEMMA CalmWork ==
  ASSUME TypeOK, KindsOK, Calm, op \in {"remove", "srm"} \/ Anew, Work, ~abort', faults' = 0,
         Anew => AnewOK, cur.open => wcur # NoTask /\ Kind[wcur.node] = "file",
         \A t \in WorkOf(op) : WorkCurrent = t =>
           /\ t.act = "remove" => t.node \in src /\ Children(t.node) \cap src = {}
           /\ t.act = "copy" => t.node \in src /\ ParentReady(t.node)
  PROVE  CalmWorks /\ Calm'
<1>1. /\ op \in {"copy", "remove", "srm"} /\ faults \in Nat
      /\ "work" \in Idler /\ dst \in [Node -> {"absent", "old", "part", "new"}]
      /\ WorkCurrent \in WorkOf(op) \cup {NoTask} /\ NoTask \notin WorkOf(op)
      /\ \A t \in WorkOf(op) : t.node \in Node
      /\ \A t \in WorkOf(op) : t.act \in {"copy", "remove", "stat", "destroy"}
      /\ \A t \in WorkOf(op) : t.act = "copy" => Anew
  <2>1. op \in {"copy", "remove", "srm"}
    BY CalmTasks
  <2>2. /\ \A t \in WorkOf(op) : t.act \in {"copy", "remove", "stat", "destroy"}
        /\ \A t \in WorkOf(op) : t.act = "copy" => Anew
    BY <2>1 DEF WorkOf, FrontActs, BackActs, Moves
  <2> QED BY <2>1, <2>2, CalmTasks, KindTasks, KindFacts DEF Idler, TypeOK, CtlOK, DiskOK
<1>2. /\ ~Sleeps("work") /\ ~GivesUp("work") /\ ~Held("work") /\ ~ToldToAbort("work")
      /\ Cleared("work") => \A i \in Idler : ~err'[i]
  BY <1>1, CalmFacts
<1>3. \A t \in WorkTask : \A k : Works(t, k) =>
        WorkCurrent = t /\ t \in WorkOf(op) /\ t.act = k /\ crashed' = crashed
  BY <1>1 DEF Works
<1>4. \A t \in WorkOf(op) : WorkCurrent = t /\ t.act = "copy" /\ ~cur.open => Verdict(t) = "free"
  BY <1>1, CopyFindsNothing DEF Anew
<1>5. \A t : Consumed(t) => ~overwrite'
  BY DEF Consumed
<1>6. \A t : Finishes(t) => /\ wcur' = NoTask /\ cur' = Fresh
                            /\ front' = Without(front, t) /\ back' = Without(back, t) /\ sep' = sep
  BY DEF Finishes, Dequeues
<1>7. CASE WorkFindsNothing \/ WorkDropsSeparator
  <2>1. WorkFindsNothing => Waits
    BY DEF WorkFindsNothing, Waits, workVars, diskVars
  <2>2. WorkDropsSeparator => Separates
    BY DEF WorkDropsSeparator, Separates, diskVars
  <2>3. UNCHANGED <<err, skipped, recursed, crashed, overwrite>>
    BY <1>7 DEF WorkFindsNothing, WorkDropsSeparator, ctlVars, histVars
  <2>4. Calm'
    BY <2>3 DEF Calm
  <2> QED BY <1>7, <2>1, <2>2, <2>4 DEF CalmWorks
<1>8. CASE WorkSleeps \/ WorkHeld \/ WorkGivesUp \/ WorkAborts
  BY <1>2, <1>8 DEF WorkSleeps, WorkHeld, WorkGivesUp, WorkAborts
<1>9. CASE WorkAsks \/ WorkDeclines
  <2>1. PICK t \in WorkTask :
          t.act \in AsksFirst /\ Works(t, t.act) /\ ~cur.open /\ Verdict(t) \in {"ask", "no", "noAll"}
    BY <1>9 DEF WorkAsks, WorkDeclines
  <2> QED BY <1>1, <1>3, <1>4, <2>1 DEF AsksFirst
<1>10. CASE WorkFails
  <2>1. PICK t \in WorkTask :
          /\ Works(t, t.act)
          /\ \/ t.act = "copy" /\ CopyError(t)
             \/ t.act = "remove" /\ RemoveError(t)
             \/ t.act \in {"symlink", "rename"}
    BY <1>10 DEF WorkFails
  <2>2. t \in WorkOf(op) /\ WorkCurrent = t
    BY <1>3, <2>1
  <2>3. CASE t.act = "copy"
    <3>1. t.node \in src /\ ParentReady(t.node)
      BY <2>2, <2>3
    <3>2. CopyError(t) => faults' = faults + 1
      BY <3>1 DEF CopyError
    <3> QED BY <1>1, <2>1, <2>3, <3>2
  <2>4. CASE t.act = "remove"
    BY <1>1, <2>1, <2>2, <2>4 DEF RemoveError
  <2> QED BY <1>1, <2>1, <2>2, <2>3, <2>4
<1>11. CASE WorkCopiesAtOnce
  <2>1. PICK t \in WorkTask :
          /\ Works(t, "copy") /\ Consumed(t) /\ Finishes(t) /\ Cleared("work")
          /\ dst' = [dst EXCEPT ![t.node] = "new"] /\ UNCHANGED <<src, skipped, recursed>>
    BY <1>11 DEF WorkCopiesAtOnce, MayWrite, histVars
  <2>2. t \in WorkOf(op) /\ WorkCurrent = t /\ t.act = "copy" /\ crashed' = crashed
    BY <1>3, <2>1
  <2>3. Ends(t)
    BY <1>1, <1>6, <2>1, <2>2 DEF Ends
  <2> QED BY <1>2, <1>5, <2>1, <2>2, <2>3 DEF CalmWorks, Calm
<1>12. CASE WorkOpens \/ WorkCopiesNothing \/ WorkCopiesChunk
  <2>1. PICK t \in WorkTask :
          /\ Works(t, "copy") /\ Stays(t) /\ Cleared("work")
          /\ Consumed(t) \/ overwrite' = overwrite
          /\ \/ dst' = dst /\ (cur'.open => cur.open)
             \/ dst' = [dst EXCEPT ![t.node] = "part"] /\ Kind[t.node] = "file"
          /\ UNCHANGED <<src, skipped, recursed>>
    <3>1. cur \in [ovr: OverwriteAnswer \cup {"none"}, open: BOOLEAN, rd: Nat, pos: Nat]
      BY DEF TypeOK, WorkOK
    <3>2. CASE WorkOpens
      BY <3>2 DEF WorkOpens, MayWrite, histVars
    <3>3. CASE WorkCopiesNothing
      BY <3>1, <3>3 DEF WorkCopiesNothing, MayWrite, histVars, diskVars
    <3>4. CASE WorkCopiesChunk
      BY <3>1, <3>4 DEF WorkCopiesChunk, histVars, diskVars
    <3> QED BY <1>12, <3>2, <3>3, <3>4
  <2>2. t \in WorkOf(op) /\ WorkCurrent = t /\ t.act = "copy" /\ crashed' = crashed
    BY <1>3, <2>1
  <2>3. GoesOn(t)
    BY <2>1, <2>2 DEF GoesOn, Stays
  <2> QED BY <1>2, <1>5, <2>1, <2>2, <2>3 DEF CalmWorks, Calm
<1>13. CASE WorkReachesEof
  <2>1. PICK t \in WorkTask :
          /\ Works(t, "copy") /\ Finishes(t) /\ Cleared("work") /\ cur.open /\ overwrite' = overwrite
          /\ dst' \in {dst, [dst EXCEPT ![t.node] = "new"]} /\ UNCHANGED <<src, skipped, recursed>>
    BY <1>13 DEF WorkReachesEof, histVars
  <2>2. t \in WorkOf(op) /\ WorkCurrent = t /\ t.act = "copy" /\ crashed' = crashed
    BY <1>3, <2>1
  <2>3. Kind[t.node] = "file"
    BY <2>1, <2>2 DEF WorkCurrent
  <2>4. Ends(t)
    BY <1>1, <1>6, <2>1, <2>2, <2>3 DEF Ends
  <2> QED BY <1>2, <2>1, <2>2, <2>4 DEF CalmWorks, Calm
<1>14. CASE WorkStats \/ WorkWipesNothing
  <2>1. PICK t \in WorkTask :
          /\ Works(t, "stat") \/ Works(t, "destroy")
          /\ Finishes(t) /\ Cleared("work") /\ UNCHANGED <<overwrite, src, dst, skipped, recursed>>
    BY <1>14 DEF WorkStats, WorkWipesNothing, histVars, diskVars
  <2>2. t \in WorkOf(op) /\ WorkCurrent = t /\ t.act \in {"stat", "destroy"} /\ crashed' = crashed
    BY <1>3, <2>1
  <2>3. Ends(t)
    BY <1>6, <2>1, <2>2 DEF Ends
  <2> QED BY <1>2, <2>1, <2>2, <2>3 DEF CalmWorks, Calm
<1>15. CASE WorkWipes
  <2>1. PICK t \in WorkTask :
          /\ Works(t, "destroy") /\ Cleared("work")
          /\ (Stays(t) /\ (cur'.open => cur.open)) \/ Finishes(t)
          /\ UNCHANGED <<overwrite, src, dst, skipped, recursed>>
    <3>1. cur \in [ovr: OverwriteAnswer \cup {"none"}, open: BOOLEAN, rd: Nat, pos: Nat]
      BY DEF TypeOK, WorkOK
    <3> QED BY <1>15, <3>1 DEF WorkWipes, histVars
  <2>2. t \in WorkOf(op) /\ WorkCurrent = t /\ t.act = "destroy" /\ crashed' = crashed
    BY <1>3, <2>1
  <2>3. GoesOn(t) \/ Ends(t)
    BY <1>6, <2>1, <2>2 DEF Ends, GoesOn, Stays
  <2> QED BY <1>2, <2>1, <2>2, <2>3 DEF CalmWorks, Calm
<1>16. CASE WorkRemoves
  <2>1. PICK t \in WorkTask :
          /\ Works(t, "remove") /\ Finishes(t) /\ Cleared("work")
          /\ Children(t.node) \cap src = {} => src' = src \ {t.node} /\ recursed' = recursed
          /\ UNCHANGED <<overwrite, dst, skipped>>
    BY <1>16 DEF WorkRemoves
  <2>2. t \in WorkOf(op) /\ WorkCurrent = t /\ t.act = "remove" /\ crashed' = crashed
    BY <1>3, <2>1
  <2>3. src' = src \ {t.node} /\ recursed' = recursed
    BY <2>1, <2>2
  <2>4. Ends(t)
    BY <1>6, <2>1, <2>2, <2>3 DEF Ends
  <2> QED BY <1>2, <2>1, <2>2, <2>3, <2>4 DEF CalmWorks, Calm
<1>17. CASE WorkSymlinks \/ WorkRenames
  BY <1>1, <1>3, <1>17 DEF WorkSymlinks, WorkRenames
<1> QED BY <1>7, <1>8, <1>9, <1>10, <1>11, <1>12, <1>13, <1>14, <1>15, <1>16, <1>17 DEF Work

\* main() queues the next argument, or starts the idlers.
QueuesNext ==
  /\ todo # <<>> /\ todo' = Tail(todo) /\ scanq' = Append(scanq, Sc(Head(todo)))
  /\ UNCHANGED <<looping, idlers>>
StartsLoop ==
  looping' /\ idlers' = <<"scan", "work">> /\ UNCHANGED scanq

LEMMA CalmMain ==
  ASSUME TypeOK, KindsOK, Before, Calm, op \in {"remove", "srm"} \/ Anew, Main
  PROVE  /\ ~looping /\ (QueuesNext \/ StartsLoop) /\ Calm'
         /\ UNCHANGED <<op, scur, dir, ents, listed, front, sep, back, wcur, cur, left, src, dst>>
<1>1. op \in {"copy", "remove", "srm"} /\ type = op
  BY CalmTasks
<1> USE DEF argVars, scanVars, workVars, passVars, ctlVars, diskVars, histVars
<1>2. CASE MainLinks \/ MainRenames \/ MainGivesUp
  BY <1>1, <1>2 DEF MainLinks, MainRenames, MainGivesUp
<1>3. CASE MainLoops
  <2>1. ~looping /\ looping' = TRUE /\ idlers' = <<"scan", "work">> /\ UNCHANGED scanq
    BY <1>3 DEF MainLoops
  <2>2. UNCHANGED <<err, skipped, recursed, crashed, overwrite>>
    BY <1>3 DEF MainLoops
  <2>3. UNCHANGED <<op, scur, dir, ents, listed, front, sep, back, wcur, cur, left, src, dst>>
    BY <1>3 DEF MainLoops
  <2> QED BY <2>1, <2>2, <2>3 DEF Calm, StartsLoop
<1>4. CASE MainQueues
  <2> DEFINE t == ArgType(Head(todo))
  <2>1. t = op
    BY <1>1 DEF ArgType
  <2>2. /\ ~looping /\ todo # <<>> /\ todo' = Tail(todo)
        /\ scanq' = Append(scanq, [act |-> t, node |-> Head(todo)])
        /\ UNCHANGED <<op, looping, scur, dir, ents, listed, front, wcur, cur, idlers, left, crashed,
                       err, overwrite, src, dst, skipped, recursed>>
    BY <1>4 DEF MainQueues
  <2>3. t # "move" => UNCHANGED <<sep, back>>
    BY <1>4 DEF MainQueues
  <2> HIDE DEF t
  <2>4. QueuesNext /\ UNCHANGED <<sep, back>>
    BY <1>1, <2>1, <2>2, <2>3 DEF QueuesNext, Sc
  <2> QED BY <2>2, <2>4 DEF Calm
<1> QED BY <1>2, <1>3, <1>4 DEF Main

LEMMA HeadStays ==
  ASSUME NEW S, NEW q \in Seq(S), q # <<>>, NEW u
  PROVE  Append(q, u) # <<>> /\ Head(Append(q, u)) = Head(q)
<1>1. q \in Seq(S \cup {u}) /\ u \in S \cup {u} /\ Append(q, u) \in Seq(S \cup {u})
  BY SeqMonotonic, AppendProperties
<1>2. Len(q) \in Nat /\ Len(q) # 0 /\ Len(Append(q, u)) = Len(q) + 1 /\ Append(q, u)[1] = q[1]
  BY <1>1, AppendProperties, LenProperties, EmptySeq
<1>3. Append(q, u) # <<>>
  BY <1>1, <1>2, EmptySeq
<1> QED BY <1>1, <1>2, <1>3, HeadTailProperties

-----------------------------------------------------------------------------
(* The order of a copy.                                                    *)

LEMMA CopyHeads ==
  ASSUME TypeOK, KindsOK, op = "copy", CopyOrder
  PROVE  /\ scanq \in Seq(ScanOf(op)) /\ back \in Seq(BackOf(op))
         /\ ScanCurrent # NoTask => scanq # <<>> /\ ScanCurrent = Head(scanq) /\ Has(scanq, {ScanCurrent})
         /\ WorkCurrent # NoTask => back # <<>> /\ WorkCurrent = Head(back)
<1>1. front = <<>>
  BY CopyTasks
<1> QED BY <1>1, KindTasks DEF KindsOK, CopyOrder, ScanCurrent, WorkCurrent, WorkHead

LEMMA CopyOrderScan ==
  ASSUME TypeOK, KindsOK, AnewOK, op = "copy", CopyOrder, CalmScans,
         UNCHANGED <<op, wcur, cur, src, dst>>
  PROVE  CopyOrder'
<1>1. /\ scanq \in Seq(ScanOf(op)) /\ back \in Seq(BackOf(op))
      /\ ScanCurrent # NoTask => scanq # <<>> /\ ScanCurrent = Head(scanq) /\ Has(scanq, {ScanCurrent})
      /\ \A n \in Node : Sc(n) = Cp(n) /\ Sc(n) # NoTask /\ St(n) # NoTask
      /\ \A u : Queued(u, op) = Append(scanq, u)
  <2>1. \A n \in Node : Sc(n) = Cp(n) /\ Sc(n) # NoTask /\ St(n) # NoTask
    <3>1. \A n \in Node : Cp(n) \in ScanTask /\ St(n) \in ScanTask
      BY DEF Cp, St, ScanTask, OpType
    <3> QED BY <3>1, NoTaskAssumption DEF Sc, Cp
  <2> QED BY <2>1, CopyHeads DEF Queued
<1>2. \A q, u : (q \in Seq(ScanOf(op)) \/ q \in Seq(BackOf(op))) /\ q # <<>> =>
        Append(q, u) # <<>> /\ Head(Append(q, u)) = Head(q)
  BY HeadStays
<1>3. wcur # NoTask => back' # <<>> /\ wcur = Head(back')
  <2>1. back' = back \/ \E u : back' = Append(back, u)
    BY DEF CalmScans, Opens, Closes, Describes, Hands, Finds
  <2> QED BY <1>1, <1>2, <2>1 DEF CopyOrder
<1>4. scur' # NoTask => scanq' # <<>> /\ scur' = Head(scanq')
  <2>1. CASE UNCHANGED <<scanq, scur, dir, ents, listed, front, back>>
    BY <2>1 DEF CopyOrder
  <2>2. CASE \E n \in Node : Closes(n) \/ Describes(n) \/ Hands(n)
    BY <2>2 DEF Closes, Describes, Hands
  <2>3. CASE \E n \in Node : Opens(n)
    BY <1>1, <2>3 DEF Opens
  <2>4. CASE \E n \in Node : \E c \in Node : Finds(n, c)
    BY <1>1, <1>2, <2>4 DEF Finds
  <2> QED BY <2>1, <2>2, <2>3, <2>4 DEF CalmScans
<1>5. ASSUME NEW p \in Node, NEW n \in Children(p), dst[p] \notin {"old", "new"}
      PROVE  Ahead(back', Cp(p), Cp(n)) /\ (Has(back', {Cp(p)}) \/ Ahead(scanq', Sc(p), Sc(n)))
  <2>1. /\ Ahead(back, Cp(p), Cp(n)) /\ (Has(back, {Cp(p)}) \/ Ahead(scanq, Sc(p), Sc(n)))
        /\ n \in Node /\ Parent[n] = p
    BY <1>5 DEF CopyOrder, CopiedBefore, Children
  <2>2. CASE back' = back /\ scanq' = scanq
    BY <2>1, <2>2
  <2>3. CASE \E m \in Node : \E c \in Node : Finds(m, c)
    <3>1. PICK m \in Node : \E c \in Node : Finds(m, c)
      BY <2>3
    <3>2. PICK c \in Node : Finds(m, c)
      BY <3>1
    <3>3. back' = back /\ scanq' = Append(scanq, Sc(c)) /\ ScanCurrent = Sc(m) /\ c \in ents /\ dir
      BY <1>1, <3>2 DEF Finds
    <3>4. Sc(c) = Sc(n) => Has(scanq, {Sc(p)})
      <4>1. Parent[c] = scur.node /\ scur # NoTask
        BY <3>3 DEF AnewOK, DirAnew
      <4>2. scur = Sc(m)
        BY <3>3, <4>1 DEF ScanCurrent
      <4>3. Parent[c] = m
        BY <4>1, <4>2, TaskNames
      <4> QED BY <1>1, <2>1, <3>3, <4>3, TaskNames
    <3>5. Ahead(scanq, Sc(p), Sc(n)) => Ahead(scanq', Sc(p), Sc(n))
      BY <1>1, <3>3, <3>4, AheadAppend
    <3> QED BY <2>1, <3>3, <3>5
  <2>4. CASE \E m \in Node : Closes(m)
    <3>1. PICK m \in Node : Closes(m)
      BY <2>4
    <3>2. back' = back /\ scanq' = Append(scanq, St(m)) /\ St(m) # Sc(n)
      BY <1>1, <3>1, TaskNames DEF Closes
    <3>3. Ahead(scanq, Sc(p), Sc(n)) => Ahead(scanq', Sc(p), Sc(n))
      BY <1>1, <3>2, AheadAppend
    <3> QED BY <2>1, <3>2, <3>3
  <2>5. CASE \E m \in Node : Describes(m)
    <3>1. PICK m \in Node : Describes(m)
      BY <2>5
    <3>2. back' = Append(back, St(m)) /\ scanq' = Without(scanq, St(m)) /\ St(m) # Sc(p) /\ St(m) # Cp(n)
      BY <3>1, TaskNames DEF Describes
    <3>3. Ahead(scanq, Sc(p), Sc(n)) => Ahead(scanq', Sc(p), Sc(n))
      BY <1>1, <3>2, AheadWithout
    <3>4. Ahead(back', Cp(p), Cp(n)) /\ (Has(back, {Cp(p)}) => Has(back', {Cp(p)}))
      BY <1>1, <2>1, <3>2, AheadAppend, HasAppend
    <3> QED BY <2>1, <3>3, <3>4
  <2>6. CASE \E m \in Node : Hands(m)
    <3>1. PICK m \in Node : Hands(m)
      BY <2>6
    <3>2. back' = Append(back, Cp(m)) /\ scanq' = Without(scanq, Sc(m)) /\ ScanCurrent = Sc(m)
      BY <3>1 DEF Hands
    <3>3. Cp(m) = Cp(n) => Has(back, {Cp(p)})
      <4>1. Head(scanq) = Sc(m) /\ scanq # <<>>
        BY <1>1, <3>2
      <4>2. Ahead(scanq, Sc(p), Sc(n)) => Head(scanq) # Sc(n)
        BY <1>1, <4>1, AheadHead
      <4> QED BY <2>1, <4>1, <4>2, TaskNames
    <3>4. Ahead(back', Cp(p), Cp(n))
      BY <1>1, <2>1, <3>2, <3>3, AheadAppend
    <3>5. \A X : Has(back', X) <=> Has(back, X) \/ Cp(m) \in X
      BY <1>1, <3>2, HasAppend
    <3>6. m # p /\ Ahead(scanq, Sc(p), Sc(n)) => Ahead(scanq', Sc(p), Sc(n))
      BY <1>1, <3>2, AheadWithout, TaskNames
    <3> QED BY <2>1, <3>4, <3>5, <3>6
  <2> QED BY <2>2, <2>3, <2>4, <2>5, <2>6 DEF CalmScans, Opens
<1>6. \A p \in Node : \A n \in Children(p) : CopiedBefore(p, n)'
  <2>1. \A n : Sc(n)' = Sc(n)
    BY SameOp
  <2> QED BY <1>5, <2>1 DEF CopiedBefore
<1> QED BY <1>3, <1>4, <1>6 DEF CopyOrder

LEMMA CopyOrderWork ==
  ASSUME TypeOK, KindsOK, op = "copy", CopyOrder, CalmWorks, UNCHANGED <<op, scanq, scur>>
  PROVE  CopyOrder'
<1>1. /\ back \in Seq(BackOf(op))
      /\ WorkCurrent # NoTask => back # <<>> /\ WorkCurrent = Head(back)
      /\ dst \in [Node -> {"absent", "old", "part", "new"}]
      /\ \A t \in WorkOf(op) : t # NoTask /\ t.node \in Node /\ t.act \in {"copy", "stat"}
      /\ \A t \in WorkOf(op) : t.act = "copy" => t = Cp(t.node)
      /\ \A p \in Node : \A n \in Children(p) : Kind[p] = "dir"
  <2>1. \A t \in WorkOf(op) : t.act \in {"copy", "stat"}
    BY DEF WorkOf, FrontActs, BackActs, Moves
  <2>2. \A p \in Node : \A n \in Children(p) : Kind[p] = "dir"
    BY TreeAssumption DEF Children
  <2>3. \A t \in WorkOf(op) : t.node \in Node /\ (t.act = "stat" \/ t = Cp(t.node))
    BY CopyTasks
  <2> QED BY <2>1, <2>2, <2>3, CopyHeads, KindFacts DEF TypeOK, DiskOK
<1>2. CASE UNCHANGED <<back, wcur, cur, src, dst>>
  <2>1. \A p, n : CopiedBefore(p, n)' <=> CopiedBefore(p, n)
    BY <1>2, SameOp DEF CopiedBefore
  <2> QED BY <1>2, <2>1 DEF CopyOrder
<1>3. ASSUME NEW t \in WorkOf(op), GoesOn(t)
      PROVE  CopyOrder'
  <2>1. /\ WorkCurrent = t /\ wcur' = t /\ t.act = "copy" /\ t = Cp(t.node) /\ back' = back /\ src' = src
        /\ \/ dst' = dst /\ (cur'.open => cur.open)
           \/ dst' = [dst EXCEPT ![t.node] = "part"] /\ Kind[t.node] = "file"
    BY <1>1, <1>3 DEF GoesOn
  <2>2. back' # <<>> /\ wcur' = Head(back')
    BY <1>1, <2>1
  <2>3. cur'.open => Kind[t.node] = "file"
    <3>1. cur.open => Kind[wcur.node] = "file" /\ WorkCurrent = wcur
      BY DEF CopyOrder, WorkCurrent
    <3> QED BY <2>1, <3>1
  <2>4. \A p \in Node : \A n \in Children(p) : CopiedBefore(p, n)'
    <3>1. ASSUME NEW p \in Node, Kind[p] = "dir" PROVE dst'[p] = dst[p]
      BY <1>1, <2>1, <3>1
    <3>2. ASSUME NEW p \in Node, NEW n \in Children(p) PROVE CopiedBefore(p, n)'
      <4>1. dst'[p] = dst[p] /\ CopiedBefore(p, n)
        BY <1>1, <3>1 DEF CopyOrder
      <4> QED BY <2>1, <4>1, SameOp DEF CopiedBefore
    <3> QED BY <3>2
  <2> QED BY <1>1, <2>1, <2>2, <2>3, <2>4 DEF CopyOrder
<1>4. ASSUME NEW t \in WorkOf(op), Ends(t)
      PROVE  CopyOrder'
  <2>1. /\ wcur' = NoTask /\ ~cur'.open /\ back' = Without(back, t) /\ src' = src
        /\ dst' = dst \/ dst' = [dst EXCEPT ![t.node] = "new"]
        /\ t.act = "copy" /\ Kind[t.node] = "dir" => dst'[t.node] = "new"
    BY <1>1, <1>4 DEF Ends, Fresh
  <2>2. ASSUME NEW p \in Node, NEW n \in Children(p), dst'[p] \notin {"old", "new"}
        PROVE  Ahead(back', Cp(p), Cp(n)) /\ (Has(back', {Cp(p)}) \/ Ahead(scanq, Sc(p), Sc(n)))
    <3>1. dst[p] \notin {"old", "new"} /\ t # Cp(p)
      BY <1>1, <2>1, <2>2, TaskNames
    <3>2. /\ Ahead(back, Cp(p), Cp(n)) /\ (Has(back, {Cp(p)}) \/ Ahead(scanq, Sc(p), Sc(n)))
      BY <3>1 DEF CopyOrder, CopiedBefore
    <3>3. Ahead(back', Cp(p), Cp(n))
      BY <1>1, <2>1, <3>1, <3>2, AheadWithout
    <3>4. Has(back, {Cp(p)}) => Has(back', {Cp(p)})
      BY <1>1, <2>1, <3>1, HasWithout
    <3> QED BY <3>2, <3>3, <3>4
  <2>3. \A p \in Node : \A n \in Children(p) : CopiedBefore(p, n)'
    BY <2>2, SameOp DEF CopiedBefore
  <2> QED BY <2>1, <2>3 DEF CopyOrder
<1> QED BY <1>2, <1>3, <1>4 DEF CalmWorks, Waits, Separates

\* The task at the work idler finds its source, and the directory it goes into.
LEMMA CopyFinds ==
  ASSUME TypeOK, KindsOK, op = "copy", CopyOrder, NEW t \in WorkOf(op), WorkCurrent = t
  PROVE  /\ t.act # "remove" /\ (t.act = "copy" => t.node \in src /\ ParentReady(t.node))
<1>1. t.node \in Node /\ t # NoTask /\ t.act # "remove" /\ (t.act = "copy" => t = Cp(t.node))
  BY CopyTasks, KindFacts, TaskNames DEF WorkOf, FrontActs, BackActs, Moves
<1> SUFFICES ASSUME t.act = "copy", NEW m \in Node, m = Parent[t.node]
             PROVE  dst[m] \in {"old", "new"}
  BY <1>1 DEF ParentReady, CopyOrder
<1>2. t.node \in Children(m) /\ CopiedBefore(m, t.node)
  BY <1>1 DEF Children, CopyOrder
<1>3. back \in Seq(BackOf(op)) /\ back # <<>> /\ Head(back) = Cp(t.node)
  BY <1>1, CopyHeads
<1>4. ~Ahead(back, Cp(m), Cp(t.node))
  BY <1>3, AheadHead
<1> QED BY <1>2, <1>4 DEF CopiedBefore

LEMMA CopyOrderMain ==
  ASSUME TypeOK, KindsOK, Before, AnewOK, op = "copy", CopyOrder, ~looping, QueuesNext \/ StartsLoop,
         UNCHANGED <<op, scur, back, wcur, cur, src, dst>>
  PROVE  CopyOrder'
<1>1. scanq \in Seq(ScanOf(op)) /\ scur = NoTask
  BY DEF KindsOK, Before
<1>2. ASSUME NEW p \in Node, NEW n \in Children(p), Ahead(scanq, Sc(p), Sc(n))
      PROVE  Ahead(scanq', Sc(p), Sc(n))
  <2>1. CASE QueuesNext
    <3>1. Head(todo) \in Node /\ Todo(Head(todo))
      BY <2>1, TodoTail DEF QueuesNext, AnewOK, TodoAnew
    <3>2. Parent[Head(todo)] = NoNode /\ Parent[n] = p
      BY <3>1 DEF AnewOK, TodoAnew, Children
    <3>3. Sc(Head(todo)) # Sc(n)
      BY <3>2, TaskNames, TreeAssumption
    <3> QED BY <1>1, <1>2, <2>1, <3>3, AheadAppend DEF QueuesNext
  <2>2. CASE StartsLoop
    BY <1>2, <2>2 DEF StartsLoop
  <2> QED BY <2>1, <2>2
<1>3. \A p \in Node : \A n \in Children(p) : CopiedBefore(p, n)'
  BY <1>2, SameOp DEF CopiedBefore, CopyOrder
<1> QED BY <1>1, <1>3 DEF CopyOrder

-----------------------------------------------------------------------------
(* What a remove has seen.                                                 *)

LEMMA SeenQueues ==
  ASSUME TypeOK, KindsOK, op \in {"remove", "srm"}
  PROVE  /\ scanq \in Seq(ScanOf(op)) /\ front \in Seq(FrontOf(op)) /\ back \in Seq(BackOf(op))
         /\ op = "remove" => Lane = front /\ (op' = op => Lane' = front')
         /\ op = "srm" => Lane = back /\ (op' = op => Lane' = back')
         /\ \A n : Wk(n) = Rm(n) /\ (op' = op => Sc(n)' = Sc(n) /\ Wk(n)' = Wk(n))
         /\ \A n \in Node : Sc(n) \in ScanOf(op) /\ St(n) \in ScanOf(op)
         /\ ScanCurrent # NoTask => Has(scanq, {ScanCurrent})
         /\ \A n \in Node : NoTask # Sc(n) /\ NoTask # St(n)
<1>1. \A n \in Node : Sc(n) \in ScanOf(op) /\ St(n) \in ScanOf(op)
  BY DEF Sc, St, ScanOf, ScanActs, Moves
<1> QED BY <1>1, CalmTasks, SameOp, KindTasks, KindFacts DEF KindsOK

\* Nothing new is seen, and nothing seen is forgotten.
LEMMA SeenKept ==
  ASSUME SeenOK, looping', UNCHANGED <<op, dir, listed>>, dir => UNCHANGED <<scur, ents>>, ents \subseteq Node,
         \A n \in Node : Seen(n)' <=> Seen(n), SeenOnce'
  PROVE  SeenOK'
<1>1. DirUnseen'
  BY DEF SeenOK, DirUnseen
<1>2. SeenUnder'
  BY DEF SeenOK, SeenUnder
<1> QED BY <1>1, <1>2 DEF SeenOK, TodoUnseen

LEMMA SeenScan ==
  ASSUME TypeOK, KindsOK, op \in {"remove", "srm"}, SeenOK, CalmScans, looping', UNCHANGED <<op, src>>
  PROVE  SeenOK'
<1>1. /\ scanq \in Seq(ScanOf(op)) /\ front \in Seq(FrontOf(op)) /\ back \in Seq(BackOf(op))
      /\ op = "remove" => Lane = front /\ Lane' = front'
      /\ op = "srm" => Lane = back /\ Lane' = back'
      /\ \A n : Wk(n) = Rm(n) /\ Sc(n)' = Sc(n) /\ Wk(n)' = Wk(n)
      /\ \A n \in Node : Sc(n) \in ScanOf(op) /\ St(n) \in ScanOf(op)
      /\ ScanCurrent # NoTask => Has(scanq, {ScanCurrent})
      /\ \A n \in Node : NoTask # Sc(n) /\ NoTask # St(n)
      /\ ents \subseteq Node
  BY SeenQueues DEF TypeOK, ScanOK
<1>2. UNCHANGED <<front, back>> => Lane' = Lane
  BY <1>1
<1>3. CASE UNCHANGED <<scanq, scur, dir, ents, listed, front, back>>
  <2>1. SeenOnce' /\ \A n \in Node : Seen(n)' <=> Seen(n)
    BY <1>1, <1>2, <1>3 DEF SeenOK, SeenOnce, Seen, Doing
  <2> QED BY <1>1, <1>3, <2>1, SeenKept
<1>4. ASSUME NEW m \in Node, Opens(m)
      PROVE  SeenOK'
  <2>1. /\ ~dir /\ m \notin listed /\ dir' /\ ents' = Children(m) \cap src /\ scur' = Sc(m)
        /\ UNCHANGED <<scanq, listed, front, back>>
    BY <1>4 DEF Opens
  <2>2. SeenOnce' /\ \A n \in Node : Seen(n)' <=> Seen(n)
    BY <1>1, <1>2, <2>1 DEF SeenOK, SeenOnce, Seen, Doing
  <2>3. SeenUnder'
    BY <2>1, <2>2 DEF SeenOK, SeenUnder
  <2>4. DirUnseen'
    <3>1. scur' # NoTask /\ scur'.act = op' /\ scur'.node = m
      BY <1>1, <2>1, TaskNames
    <3>2. ASSUME NEW n \in Children(m) PROVE ~Seen(n) /\ Parent[n] = m /\ n \in Node
      <4>1. Parent[n] = m /\ n \in Node /\ m # NoNode
        BY <3>2, TreeAssumption DEF Children
      <4> QED BY <2>1, <4>1 DEF SeenOK, SeenUnder
    <3> QED BY <2>1, <2>2, <3>1, <3>2 DEF DirUnseen
  <2> QED BY <2>2, <2>3, <2>4 DEF SeenOK, TodoUnseen
<1>5. ASSUME NEW m \in Node, NEW c \in Node, Finds(m, c)
      PROVE  SeenOK'
  <2>1. /\ ScanCurrent = Sc(m) /\ dir /\ c \in ents /\ ents' = ents \ {c} /\ scur' = Sc(m)
        /\ scanq' = Queued(Sc(c), op) /\ UNCHANGED <<dir, listed, front, back>>
    BY <1>5 DEF Finds
  <2>2. /\ scur # NoTask /\ scur.act = op /\ scur.node \notin listed
        /\ \A n \in ents : ~Seen(n) /\ Parent[n] = scur.node
    BY <2>1 DEF SeenOK, DirUnseen
  <2>3. scur = Sc(m) /\ scur.node = m
    BY <2>1, <2>2, TaskNames DEF ScanCurrent
  <2>4. \A n \in Node : Has(scanq', {Sc(n)}) <=> Has(scanq, {Sc(n)}) \/ n = c
    BY <1>1, <2>1, QueuedFacts, TaskNames
  <2>5. \A n \in Node : (Doing(n)' <=> Doing(n)) /\ (Seen(n)' <=> Seen(n) \/ n = c)
    BY <1>1, <1>2, <2>1, <2>4 DEF Seen, Doing
  <2>6. SeenOnce'
    <3>1. ASSUME NEW n \in Node PROVE Once(scanq', {Sc(n)})
      <4>1. Once(scanq, {Sc(n)}) /\ (Has(scanq, {Sc(n)}) => Sc(c) \notin {Sc(n)})
        BY <2>1, <2>2, TaskNames DEF SeenOK, SeenOnce, Seen
      <4> QED BY <1>1, <2>1, <4>1, QueuedFacts
    <3> QED BY <1>1, <1>2, <2>1, <2>2, <2>4, <2>5, <3>1 DEF SeenOK, SeenOnce, Seen
  <2>7. SeenUnder'
    BY <2>1, <2>2, <2>3, <2>5 DEF SeenOK, SeenUnder
  <2>8. DirUnseen'
    BY <1>1, <2>1, <2>2, <2>3, <2>5 DEF DirUnseen
  <2> QED BY <2>6, <2>7, <2>8 DEF SeenOK, TodoUnseen
<1>6. ASSUME NEW m \in Node, Closes(m)
      PROVE  SeenOK'
  <2>1. /\ ScanCurrent = Sc(m) /\ dir /\ ~dir' /\ scanq' = Queued(St(m), op)
        /\ listed' = listed \cup {m} /\ UNCHANGED <<front, back>>
    BY <1>6 DEF Closes
  <2>2. scur # NoTask /\ scur = Sc(m) /\ scur.node = m
    BY <2>1, TaskNames DEF SeenOK, DirUnseen, ScanCurrent
  <2>3. \A n \in Node : St(m) # Sc(n)
    BY TaskNames
  <2>4. \A n \in Node : Has(scanq', {Sc(n)}) <=> Has(scanq, {Sc(n)})
    BY <1>1, <2>1, <2>3, QueuedFacts
  <2>5. \A n \in Node : (Doing(n)' <=> Doing(n)) /\ (Seen(n)' <=> Seen(n))
    BY <1>1, <1>2, <2>1, <2>4 DEF Seen, Doing
  <2>6. SeenOnce'
    <3>1. \A n \in Node : Once(scanq', {Sc(n)})
      BY <1>1, <2>1, <2>3, QueuedFacts DEF SeenOK, SeenOnce
    <3> QED BY <1>1, <1>2, <2>1, <2>4, <2>5, <3>1 DEF SeenOK, SeenOnce
  <2>7. Seen(m)
    BY <1>1, <2>1 DEF Seen
  <2>8. SeenUnder'
    BY <2>1, <2>2, <2>5, <2>7 DEF SeenOK, SeenUnder
  <2> QED BY <2>1, <2>6, <2>8 DEF SeenOK, TodoUnseen, DirUnseen
<1>7. ASSUME NEW m \in Node, Describes(m)
      PROVE  SeenOK'
  <2>1. ~dir /\ scanq' = Without(scanq, St(m)) /\ back' = Append(back, St(m)) /\ UNCHANGED <<dir, listed, front>>
    BY <1>7 DEF Describes
  <2>2. \A n \in Node : St(m) # Sc(n) /\ St(m) # Rm(n)
    BY TaskNames
  <2>3. \A n \in Node : /\ Has(scanq', {Sc(n)}) <=> Has(scanq, {Sc(n)})
                        /\ Once(scanq, {Sc(n)}) => Once(scanq', {Sc(n)})
    BY <1>1, <2>1, <2>2, HasWithout
  <2>4. \A n \in Node : /\ Has(back', {Rm(n)}) <=> Has(back, {Rm(n)})
                        /\ Once(back, {Rm(n)}) => Once(back', {Rm(n)})
    BY <1>1, <2>1, <2>2, HasAppend
  <2>5. \A n \in Node : (Doing(n)' <=> Doing(n)) /\ (Once(Lane, {Wk(n)}) => Once(Lane', {Wk(n)'}))
    BY <1>1, <2>1, <2>4 DEF Doing
  <2>6. \A n \in Node : Seen(n)' <=> Seen(n)
    BY <1>1, <2>3, <2>5 DEF Seen
  <2>7. SeenOnce'
    BY <1>1, <2>3, <2>5 DEF SeenOK, SeenOnce
  <2> QED BY <1>1, <2>1, <2>6, <2>7, SeenKept
<1>8. ASSUME NEW m \in Node, Hands(m)
      PROVE  SeenOK'
  <2>1. /\ ScanCurrent = Sc(m) /\ ~dir /\ scanq' = Without(scanq, Sc(m)) /\ UNCHANGED <<dir, listed>>
        /\ op = "remove" => front' = <<Rm(m)>> \o front
        /\ op = "srm" => back' = <<Rm(m)>> \o back
    BY <1>8 DEF Hands
  <2>2. Has(scanq, {Sc(m)}) /\ ~Doing(m)
    BY <1>1, <2>1 DEF SeenOK, SeenOnce
  <2>3. \A n \in Node : /\ Has(scanq', {Sc(n)}) <=> Has(scanq, {Sc(n)}) /\ n # m
                        /\ Once(scanq', {Sc(n)})
    <3> SUFFICES ASSUME NEW n \in Node
                 PROVE  (Has(scanq', {Sc(n)}) <=> Has(scanq, {Sc(n)}) /\ n # m) /\ Once(scanq', {Sc(n)})
      OBVIOUS
    <3>1. Once(scanq, {Sc(n)}) /\ (Sc(m) \in {Sc(n)} <=> n = m)
      BY TaskNames DEF SeenOK, SeenOnce
    <3> QED BY <1>1, <2>1, <2>2, <3>1, HasWithout
  <2>4. \A n \in Node : (Doing(n)' <=> Doing(n) \/ n = m) /\ Once(Lane', {Wk(n)'})
    <3> SUFFICES ASSUME NEW n \in Node
                 PROVE  (Doing(n)' <=> Doing(n) \/ n = m) /\ Once(Lane', {Wk(n)'})
      OBVIOUS
    <3>1. Once(Lane, {Rm(n)}) /\ (Has(Lane, {Rm(n)}) => Rm(m) \notin {Rm(n)}) /\ (Rm(m) \in {Rm(n)} <=> n = m)
      BY <1>1, <2>2, TaskNames DEF SeenOK, SeenOnce, Doing
    <3> DEFINE w == Rm(m)
               X == {Rm(n)}
    <3>2. (Has(Lane', X) <=> Has(Lane, X) \/ w \in X) /\ (Once(Lane, X) /\ (Has(Lane, X) => w \notin X) => Once(Lane', X))
      <4>1. CASE op = "remove"
        <5>1. Lane = front /\ Lane' = <<w>> \o front /\ front \in Seq(FrontOf(op))
          BY <1>1, <2>1, <4>1
        <5> HIDE DEF w, X
        <5> QED BY <5>1, HasCons
      <4>2. CASE op = "srm"
        <5>1. Lane = back /\ Lane' = <<w>> \o back /\ back \in Seq(BackOf(op))
          BY <1>1, <2>1, <4>2
        <5> HIDE DEF w, X
        <5> QED BY <5>1, HasCons
      <4> QED BY <4>1, <4>2
    <3> QED BY <1>1, <3>1, <3>2 DEF Doing
  <2>5. \A n \in Node : Seen(n)' <=> Seen(n)
    BY <1>1, <2>2, <2>3, <2>4 DEF Seen
  <2>6. SeenOnce'
    BY <1>1, <2>2, <2>3, <2>4 DEF SeenOK, SeenOnce
  <2> QED BY <1>1, <2>1, <2>5, <2>6, SeenKept
<1> QED BY <1>3, <1>4, <1>5, <1>6, <1>7, <1>8 DEF CalmScans

LEMMA SeenWork ==
  ASSUME TypeOK, KindsOK, op \in {"remove", "srm"}, SeenOK, CalmWorks, looping',
         UNCHANGED <<op, scanq, scur, dir, ents, listed>>,
         \A n \in Node : WorkCurrent = Rm(n) => Doing(n)
  PROVE  SeenOK'
<1>1. /\ front \in Seq(FrontOf(op)) /\ back \in Seq(BackOf(op)) /\ ents \subseteq Node
      /\ op = "remove" => Lane = front /\ Lane' = front'
      /\ op = "srm" => Lane = back /\ Lane' = back'
      /\ \A n : Wk(n) = Rm(n) /\ Sc(n)' = Sc(n) /\ Wk(n)' = Wk(n)
      /\ \A t \in WorkOf(op) : t.act = "remove" => t = Rm(t.node)
      /\ \A n : Rm(n).act = "remove" /\ Rm(n).node = n
  BY SeenQueues, TaskNames DEF TypeOK, ScanOK, WorkOf, Rm
<1>2. CASE UNCHANGED <<front, back, src>>
  <2>1. SeenOnce' /\ \A n \in Node : Seen(n)' <=> Seen(n)
    BY <1>1, <1>2 DEF SeenOK, SeenOnce, Seen, Doing
  <2> QED BY <1>1, <2>1, SeenKept
<1>3. ASSUME NEW t \in WorkOf(op), Ends(t)
      PROVE  SeenOK'
  <2>1. /\ front' = Without(front, t) /\ back' = Without(back, t)
        /\ src' = IF t.act = "remove" THEN src \ {t.node} ELSE src
    BY <1>3 DEF Ends
  <2>2. ASSUME NEW n \in Node
        PROVE  (Doing(n)' => Doing(n) /\ t # Rm(n)) /\ (Doing(n) /\ t # Rm(n) => Doing(n)') /\ Once(Lane', {Wk(n)'})
    <3>1. Once(Lane, {Rm(n)}) /\ Lane' = Without(Lane, t) /\ Lane \in Seq(FrontOf(op) \cup BackOf(op))
      <4>1. front \in Seq(FrontOf(op) \cup BackOf(op)) /\ back \in Seq(FrontOf(op) \cup BackOf(op))
        BY <1>1, SeqMonotonic
      <4> QED BY <1>1, <2>1, <4>1 DEF SeenOK, SeenOnce
    <3>2. /\ Has(Lane', {Rm(n)}) => Has(Lane, {Rm(n)})
          /\ Has(Lane, {Rm(n)}) /\ t # Rm(n) => Has(Lane', {Rm(n)})
          /\ Once(Lane', {Rm(n)})
          /\ t = Rm(n) => (Has(Lane', {Rm(n)}) => ~Has(Lane, {t}))
      BY <3>1, HasWithout
    <3> QED BY <1>1, <3>2 DEF Doing
  <2>3. ASSUME NEW n \in Node
        PROVE  (n \in src' <=> n \in src /\ t # Rm(n)) /\ (Doing(n) => n \in src)
    BY <1>1, <2>1 DEF SeenOK, SeenOnce
  <2>4. ASSUME NEW n \in Node
        PROVE  (Has(scanq', {Sc(n)'}) <=> Has(scanq, {Sc(n)})) /\ (Has(scanq, {Sc(n)}) => ~Doing(n) /\ n \in src)
    BY <1>1 DEF SeenOK, SeenOnce
  <2>5. ASSUME NEW n \in Node
        PROVE  t = Rm(n) => Doing(n)
    BY <1>3 DEF Ends
  <2>6. ASSUME NEW n \in Node
        PROVE  Seen(n)' <=> Seen(n)
    BY <2>2, <2>3, <2>4, <2>5 DEF Seen
  <2>7. SeenOnce'
    <3>1. ASSUME NEW n \in Node
          PROVE  /\ Once(scanq', {Sc(n)'}) /\ Once(Lane', {Wk(n)'})
                 /\ Has(scanq', {Sc(n)'}) => n \in src' /\ ~Doing(n)'
                 /\ Doing(n)' => n \in src'
      <4>1. Once(scanq', {Sc(n)'})
        BY <1>1 DEF SeenOK, SeenOnce
      <4> QED BY <2>2, <2>3, <2>4, <2>5, <4>1
    <3> QED BY <3>1 DEF SeenOnce
  <2> QED BY <1>1, <2>6, <2>7, SeenKept
<1> QED BY <1>2, <1>3 DEF CalmWorks, Waits, Separates, GoesOn
LEMMA SeenMain ==
  ASSUME TypeOK, KindsOK, Before, op \in {"remove", "srm"}, SeenOK, ~looping, QueuesNext \/ StartsLoop,
         [Next]_vars, UNCHANGED <<op, scur, dir, ents, listed, front, back, src>>
  PROVE  SeenOK'
<1>1. /\ scanq \in Seq(ScanOf(op)) /\ ~dir /\ listed = {}
      /\ op = "remove" => Lane = front /\ Lane' = front'
      /\ op = "srm" => Lane = back /\ Lane' = back'
      /\ \A n : Wk(n) = Rm(n) /\ Sc(n)' = Sc(n) /\ Wk(n)' = Wk(n)
  BY SeenQueues DEF Before
<1>2. Lane' = Lane /\ \A n \in Node : Doing(n)' <=> Doing(n)
  <2>1. Lane' = Lane
    BY <1>1
  <2> QED BY <1>1, <2>1 DEF Doing
<1>3. CASE QueuesNext
  <2> DEFINE h == Head(todo)
  <2>1. /\ h \in Node /\ Todo(h) /\ ~Seen(h) /\ Parent[h] = NoNode /\ scanq' = Append(scanq, Sc(h))
        /\ \A n \in Node : Todo(n)' => Todo(n) /\ n # h
        /\ \A i, j \in 1..Len(todo') : todo'[i] = todo'[j] => i = j
    BY <1>3, TodoTail DEF QueuesNext, SeenOK, TodoUnseen
  <2> HIDE DEF h
  <2>2. \A n \in Node : /\ Has(scanq', {Sc(n)}) <=> Has(scanq, {Sc(n)}) \/ n = h
                        /\ Once(scanq', {Sc(n)})
    <3> SUFFICES ASSUME NEW n \in Node
                 PROVE  (Has(scanq', {Sc(n)}) <=> Has(scanq, {Sc(n)}) \/ n = h) /\ Once(scanq', {Sc(n)})
      OBVIOUS
    <3>1. Once(scanq, {Sc(n)}) /\ (Has(scanq, {Sc(n)}) => Sc(h) \notin {Sc(n)}) /\ (Sc(h) \in {Sc(n)} <=> n = h)
      BY <2>1, TaskNames DEF SeenOK, SeenOnce, Seen
    <3> QED BY <1>1, <2>1, <3>1, HasAppend
  <2>3. \A n \in Node : Seen(n)' <=> Seen(n) \/ n = h
    BY <1>1, <1>2, <2>2 DEF Seen
  <2>4. TodoUnseen'
    BY <1>3, <2>1, <2>3 DEF SeenOK, TodoUnseen, QueuesNext
  <2>5. SeenUnder'
    BY <1>1, <2>1, <2>3 DEF SeenOK, SeenUnder
  <2>6. SeenOnce'
    BY <1>1, <1>2, <2>1, <2>2 DEF SeenOK, SeenOnce, Seen
  <2> QED BY <1>1, <2>4, <2>5, <2>6 DEF SeenOK, DirUnseen
<1>4. CASE StartsLoop
  <2>1. scanq' = scanq /\ looping' /\ ents \subseteq Node
    BY <1>4 DEF StartsLoop, TypeOK, ScanOK
  <2>2. SeenOnce' /\ \A n \in Node : Seen(n)' <=> Seen(n)
    BY <1>1, <1>2, <2>1 DEF SeenOK, SeenOnce, Seen
  <2> QED BY <1>1, <2>1, <2>2, SeenKept
<1> QED BY <1>3, <1>4

LEMMA SeenInit ==
  ASSUME Init, op \in {"remove", "srm"}
  PROVE  SeenOK
<1>1. /\ todo = Args /\ ~looping /\ scanq = <<>> /\ ~dir /\ listed = {} /\ front = <<>> /\ back = <<>> /\ src = Node
  BY DEF Init
<1>2. \A n \in Node : ~Has(scanq, {Sc(n)}) /\ ~Doing(n) /\ Once(scanq, {Sc(n)}) /\ Once(Lane, {Wk(n)})
  BY <1>1, HasEmpty DEF Doing, Lane
<1>3. TodoUnseen
  BY <1>1, <1>2, ArgsAssumption DEF TodoUnseen, Todo, Seen
<1> QED BY <1>1, <1>2, <1>3 DEF SeenOK, DirUnseen, SeenUnder, SeenOnce, Seen
-----------------------------------------------------------------------------
(* The order of a remove.                                                  *)

\* The scan idler takes its turn when nothing waits to be removed, the work idler
\* when it is next.
LEMMA ScanTurn ==
  ASSUME TypeOK, RemoveOrder, Scan
  PROVE  /\ looping /\ left = <<>> /\ front = <<>> /\ left' = <<"work">> /\ looping' = looping
         /\ idlers' \in {<<"scan", "work">>, <<"work">>} /\ wcur' = wcur /\ src' = src /\ op' = op
<1>1. /\ looping /\ left' = Tail(Due) /\ Head(Due) = "scan" /\ looping' = looping
      /\ wcur' = wcur /\ src' = src /\ op' = op
  BY ScanSteps DEF ScanStep, Turn, Running, mainVars, argVars, diskVars
<1>2. left = <<>> /\ idlers = <<"scan", "work">> /\ front = <<>>
  BY <1>1 DEF RemoveOrder, Due
<1>3. left' = <<"work">>
  BY <1>1, <1>2 DEF Due
<1>4. Without(<<"scan", "work">>, "scan") = <<"work">>
  <2> DEFINE q == <<"scan", "work">>
             w == Without(q, "scan")
  <2>1. q \in Seq(Idler) /\ Len(q) = 2 /\ q[1] = "scan" /\ q[2] = "work"
    BY DEF Idler
  <2>2. /\ w \in Seq(Idler) /\ Len(w) = Len(q) - 1
        /\ \E i \in 1..Len(q) : /\ q[i] = "scan"
                                /\ \A k \in 1..Len(w) : w[k] = IF k < i THEN q[k] ELSE q[k + 1]
    <3>1. \E i \in 1..Len(q) : q[i] = "scan"
      BY <2>1
    <3> HIDE DEF q
    <3>2. w \in Seq(Idler) /\ Len(w) = Len(q) - 1
      BY <2>1, <3>1, WithoutIndex
    <3>3. \E i \in 1..Len(q) : /\ q[i] = "scan"
                               /\ \A k \in 1..Len(w) : w[k] = IF k < i THEN q[k] ELSE q[k + 1]
      BY <2>1, <3>1, WithoutIndex
    <3> QED BY <3>2, <3>3
  <2> HIDE DEF q, w
  <2>3. Len(w) = 1 /\ w[1] = "work"
    BY <2>1, <2>2
  <2>4. w = <<"work">>
    BY <2>2, <2>3
  <2> QED BY <2>4 DEF w, q
<1> QED BY <1>1, <1>2, <1>3, <1>4, ScanIdler

LEMMA WorkTurn ==
  ASSUME TypeOK, RemoveOrder, Calm, Work
  PROVE  /\ looping /\ left' = <<>> /\ looping' = looping /\ idlers' = idlers /\ op' = op
         /\ UNCHANGED <<scanq, scur, dir, ents, listed>>
<1>1. /\ looping /\ left' = Tail(Due) /\ Head(Due) = "work" /\ looping' = looping
      /\ UNCHANGED <<op, scanq, scur, dir, ents, listed>>
  BY WorkSteps DEF WorkStep, Turn, Running, mainVars, argVars, scanVars
<1>2. Due = <<"work">>
  BY <1>1 DEF RemoveOrder, Due
<1>3. idlers' = idlers
  BY WorkIdler, CalmFacts DEF Idler
<1> QED BY <1>1, <1>2, <1>3

\* What is handed to the work idler has nothing left in it.
LEMMA HandedIsEmpty ==
  ASSUME TypeOK, KindsOK, op = "remove", RemoveOrder, front = <<>>, NEW m \in Node, Hands(m)
  PROVE  Children(m) \cap src = {}
<1>1. scanq \in Seq(ScanOf(op)) /\ scanq # <<>> /\ Head(scanq) = Sc(m) /\ (Kind[m] = "dir" => m \in listed)
  <2>1. ScanCurrent = Sc(m) /\ ~dir /\ (Kind[m] = "dir" => m \in listed) /\ Sc(m) # NoTask
    BY SeenQueues DEF Hands
  <2> QED BY <2>1 DEF ScanCurrent, RemoveOrder, KindsOK
<1> SUFFICES ASSUME NEW n \in Children(m) \cap src
             PROVE  FALSE
  OBVIOUS
<1>2. Kind[m] = "dir" /\ ~Has(front, {Rm(n)})
  BY HasEmpty, TreeAssumption DEF Children
<1>3. Ahead(scanq, Sc(n), Sc(m))
  BY <1>1, <1>2 DEF RemoveOrder
<1> QED BY <1>1, <1>3, AheadHead

LEMMA RemoveOrderScan ==
  ASSUME TypeOK, KindsOK, op = "remove", SeenOK, RemoveOrder, Scan, CalmScans
  PROVE  RemoveOrder'
<1>1. /\ looping /\ left = <<>> /\ front = <<>> /\ left' = <<"work">> /\ looping' = looping
      /\ idlers' \in {<<"scan", "work">>, <<"work">>} /\ wcur' = wcur /\ src' = src /\ op' = op
      /\ wcur' = NoTask
  BY ScanTurn DEF RemoveOrder
<1>2. /\ scanq \in Seq(ScanOf(op)) /\ \A n : Sc(n)' = Sc(n)
      /\ \A n \in Node : NoTask # Sc(n) /\ NoTask # St(n) /\ ~Has(front, {Rm(n)})
      /\ ScanCurrent # NoTask => Has(scanq, {ScanCurrent})
      /\ \A u : Queued(u, op) = <<u>> \o scanq
  BY <1>1, SeenQueues, HasEmpty DEF Queued
<1> DEFINE Begun(p, n) == p \in listed \/ (dir /\ scur.node = p /\ n \notin ents)
<1>3. ASSUME NEW p \in Node, NEW n \in Children(p) \cap src, Begun(p, n)
      PROVE  Ahead(scanq, Sc(n), Sc(p)) /\ n \in Node /\ Parent[n] = p
  BY <1>2, <1>3 DEF RemoveOrder, Children
<1>4. CASE UNCHANGED <<scanq, scur, dir, ents, listed, front, back>>
  BY <1>1, <1>2, <1>4 DEF RemoveOrder
<1>5. ASSUME NEW m \in Node, Opens(m)
      PROVE  RemoveOrder'
  <2>1. /\ dir' /\ ents' = Children(m) \cap src /\ scur' = Sc(m) /\ scur'.node = m
        /\ UNCHANGED <<scanq, listed, front>>
    BY <1>5, TaskNames DEF Opens
  <2>2. ASSUME NEW p \in Node, NEW n \in Children(p) \cap src, Begun(p, n)'
        PROVE  Ahead(scanq', Sc(n)', Sc(p)')
    <3>1. p \in listed
      BY <2>1, <2>2
    <3> QED BY <1>2, <1>3, <2>1, <3>1
  <2> QED BY <1>1, <2>1, <2>2 DEF RemoveOrder
<1>6. ASSUME NEW m \in Node, NEW c \in Node, Finds(m, c)
      PROVE  RemoveOrder'
  <2>1. /\ ScanCurrent = Sc(m) /\ dir /\ c \in ents /\ ents' = ents \ {c} /\ scur' = Sc(m) /\ scur'.node = m
        /\ scanq' = <<Sc(c)>> \o scanq /\ UNCHANGED <<dir, listed, front>>
    BY <1>2, <1>6, TaskNames DEF Finds
  <2>2. scur.node = m /\ ~Seen(c) /\ Seen(m)
    BY <1>2, <2>1, TaskNames DEF SeenOK, DirUnseen, ScanCurrent, Seen
  <2>3. ASSUME NEW p \in Node, NEW n \in Children(p) \cap src, Begun(p, n)'
        PROVE  Ahead(scanq', Sc(n)', Sc(p)')
    <3>1. Seen(p) /\ p # c
      BY <2>1, <2>2, <2>3 DEF SeenOK, SeenUnder
    <3>2. n = c \/ Begun(p, n)
      BY <2>1, <2>2, <2>3
    <3>3. Sc(c) # Sc(p) /\ (Ahead(scanq, Sc(n), Sc(p)) \/ Sc(c) = Sc(n))
      BY <1>3, <3>1, <3>2, TaskNames
    <3> QED BY <1>2, <2>1, <3>3, AheadCons
  <2> QED BY <1>1, <2>1, <2>3 DEF RemoveOrder
<1>7. ASSUME NEW m \in Node, Closes(m)
      PROVE  RemoveOrder'
  <2>1. /\ ScanCurrent = Sc(m) /\ dir /\ ents = {} /\ ~dir' /\ scur' = NoTask
        /\ scanq' = <<St(m)>> \o scanq /\ listed' = listed \cup {m} /\ front' = front
    BY <1>2, <1>7 DEF Closes
  <2>2. scur.node = m
    BY <1>2, <2>1, TaskNames DEF SeenOK, DirUnseen, ScanCurrent
  <2>3. ASSUME NEW p \in Node, NEW n \in Children(p) \cap src, Begun(p, n)'
        PROVE  Ahead(scanq', Sc(n)', Sc(p)')
    <3>1. Begun(p, n)
      BY <2>1, <2>2, <2>3
    <3>2. St(m) # Sc(p) /\ Ahead(scanq, Sc(n), Sc(p))
      BY <1>3, <3>1, TaskNames
    <3> QED BY <1>2, <2>1, <3>2, AheadCons
  <2> QED BY <1>1, <2>1, <2>3 DEF RemoveOrder
<1>8. ASSUME NEW m \in Node, Describes(m)
      PROVE  RemoveOrder'
  <2>1. ~dir' /\ scur' = NoTask /\ scanq' = Without(scanq, St(m)) /\ UNCHANGED <<dir, listed, front>>
    BY <1>8 DEF Describes
  <2>2. ASSUME NEW p \in Node, NEW n \in Children(p) \cap src, Begun(p, n)'
        PROVE  Ahead(scanq', Sc(n)', Sc(p)')
    <3>1. St(m) # Sc(n) /\ Ahead(scanq, Sc(n), Sc(p))
      BY <1>3, <2>1, <2>2, TaskNames
    <3> QED BY <1>2, <2>1, <3>1, AheadWithout
  <2> QED BY <1>1, <2>1, <2>2 DEF RemoveOrder
<1>9. ASSUME NEW m \in Node, Hands(m)
      PROVE  RemoveOrder'
  <2>1. /\ ~dir' /\ scur' = NoTask /\ scanq' = Without(scanq, Sc(m)) /\ UNCHANGED <<dir, listed>>
        /\ front' = <<Rm(m)>>
    <3>1. front' = <<Rm(m)>> \o <<>>
      BY <1>1, <1>9 DEF Hands
    <3> QED BY <1>9, <3>1 DEF Hands
  <2>2. Children(m) \cap src = {} /\ Has(front', {Rm(m)})
    <3>1. front' # <<>> /\ Head(front') = Rm(m) /\ front' \in Seq({Rm(m)})
      BY <2>1
    <3> QED BY <1>1, <1>9, <3>1, HandedIsEmpty, HasOne
  <2>3. ASSUME NEW p \in Node, NEW n \in Children(p) \cap src, Begun(p, n)'
        PROVE  Has(front', {Rm(n)}) \/ Ahead(scanq', Sc(n)', Sc(p)')
    <3>1. Ahead(scanq, Sc(n), Sc(p))
      BY <1>3, <2>1, <2>3
    <3>2. n # m => Sc(m) # Sc(n)
      BY TaskNames
    <3> QED BY <1>2, <2>1, <2>2, <3>1, <3>2, AheadWithout
  <2> QED BY <1>1, <2>1, <2>2, <2>3 DEF RemoveOrder
<1> QED BY <1>4, <1>5, <1>6, <1>7, <1>8, <1>9 DEF CalmScans
LEMMA RemoveOrderWork ==
  ASSUME TypeOK, KindsOK, op = "remove", RemoveOrder, Calm, Work, CalmWorks
  PROVE  RemoveOrder'
<1>1. /\ looping /\ left' = <<>> /\ looping' = looping /\ idlers' = idlers /\ op' = op
      /\ UNCHANGED <<scanq, scur, dir, ents, listed>> /\ wcur = NoTask
  BY WorkTurn DEF RemoveOrder
<1>2. /\ front # <<>> => WorkCurrent = Head(front) /\ WorkCurrent # NoTask
      /\ \A n : Sc(n)' = Sc(n)
      /\ \A t \in WorkOf(op) : t.act \in {"remove", "stat"} /\ t # NoTask
      /\ \A t \in WorkOf(op) : t.act = "remove" => t = Rm(t.node)
  <2>1. front # <<>> => Head(front) \in FrontOf(op) /\ Head(front) # NoTask
    BY HeadTailProperties, KindFacts DEF KindsOK
  <2>2. \A t \in WorkOf(op) : t.act \in {"remove", "stat"} /\ (t.act = "remove" => t = Rm(t.node))
    BY DEF WorkOf, FrontActs, BackActs, Moves, Rm
  <2> QED BY <1>1, <2>1, <2>2, SameOp, KindFacts DEF WorkCurrent, WorkHead
<1>3. CASE Waits \/ Separates
  <2>1. front = <<>> /\ front' = front /\ wcur' = wcur /\ src' = src
    BY <1>2, <1>3 DEF Waits, Separates
  <2> QED BY <1>1, <1>2, <2>1 DEF RemoveOrder
<1>4. ASSUME NEW t \in WorkOf(op), GoesOn(t)
      PROVE  FALSE
  BY <1>2, <1>4 DEF GoesOn
<1>5. ASSUME NEW t \in WorkOf(op), Ends(t)
      PROVE  RemoveOrder'
  <2>1. /\ WorkCurrent = t /\ wcur' = NoTask /\ front' = Without(front, t)
        /\ src' = IF t.act = "remove" THEN src \ {t.node} ELSE src
    BY <1>5 DEF Ends
  <2>2. CASE front = <<>>
    <3>1. front' = <<>> /\ src' \subseteq src
      BY <2>1, <2>2 DEF Without
    <3> QED BY <1>1, <1>2, <2>1, <2>2, <3>1 DEF RemoveOrder
  <2>3. CASE front # <<>>
    <3>1. PICK m \in Node : front = <<Rm(m)>>
      BY <2>3 DEF RemoveOrder
    <3>2. t = Rm(m)
      BY <1>2, <2>1, <2>3, <3>1
    <3>3. front' = <<>>
      <4> DEFINE q == <<t>>
                 w == Without(q, t)
      <4>1. q \in Seq({t}) /\ Len(q) = 1 /\ q[1] = t
        OBVIOUS
      <4>2. w \in Seq({t}) /\ Len(w) = Len(q) - 1
        <5>1. \E i \in 1..Len(q) : q[i] = t
          BY <4>1
        <5> HIDE DEF q
        <5> QED BY <4>1, <5>1, WithoutIndex
      <4> HIDE DEF q, w
      <4>3. w = <<>>
        BY <4>1, <4>2, EmptySeq
      <4> QED BY <2>1, <3>1, <3>2, <4>3 DEF w, q
    <3>4. src' = src \ {m}
      BY <2>1, <3>2, TaskNames
    <3>5. \A n : Has(front, {Rm(n)}) => n = m
      <4>1. ASSUME NEW n, Has(front, {Rm(n)}) PROVE n = m
        <5>1. Len(front) = 1 /\ front[1] = Rm(m)
          BY <3>1
        <5> QED BY <4>1, <5>1, TaskNames DEF Has
      <4> QED BY <4>1
    <3>6. ASSUME NEW p \in Node, NEW n \in Children(p) \cap src',
                 p \in listed \/ (dir /\ scur.node = p /\ n \notin ents)
          PROVE  Ahead(scanq', Sc(n)', Sc(p)')
      <4>1. n \in src /\ n # m
        BY <3>4
      <4> QED BY <1>1, <1>2, <3>5, <3>6, <4>1 DEF RemoveOrder
    <3> QED BY <1>1, <1>2, <2>1, <3>3, <3>6 DEF RemoveOrder
  <2> QED BY <2>2, <2>3
<1> QED BY <1>3, <1>4, <1>5 DEF CalmWorks

\* What the work idler removes has nothing left in it.
LEMMA RemoveFinds ==
  ASSUME TypeOK, KindsOK, op = "remove", SeenOK, RemoveOrder, NEW t \in WorkOf(op), WorkCurrent = t
  PROVE  /\ t.act # "copy"
         /\ t.act = "remove" => Doing(t.node) /\ t.node \in src /\ Children(t.node) \cap src = {}
<1>1. t.act \in {"remove", "stat"} /\ (t.act = "remove" => t = Rm(t.node)) /\ t # NoTask /\ t.node \in Node
  BY KindFacts DEF WorkOf, FrontActs, BackActs, Moves, Rm
<1> SUFFICES ASSUME t.act = "remove"
             PROVE  Doing(t.node) /\ t.node \in src /\ Children(t.node) \cap src = {}
  BY <1>1
<1>2. /\ front \in Seq(FrontOf(op)) /\ back \in Seq(BackOf(op)) /\ Lane = front /\ Wk(t.node) = Rm(t.node)
      /\ wcur = NoTask
  BY SeenQueues DEF RemoveOrder
<1>3. CASE front = <<>>
  <2>1. back # <<>> /\ t = Head(back) /\ Head(back) \in BackOf(op)
    BY <1>1, <1>2, <1>3, HeadTailProperties DEF WorkCurrent, WorkHead
  <2>2. \A u \in BackOf(op) : u = NoTask \/ u.act = "stat"
    BY DEF BackOf, BackActs, Moves
  <2> QED BY <1>1, <2>1, <2>2
<1>4. CASE front # <<>>
  <2>1. t = Head(front) /\ Has(front, {t})
    BY <1>1, <1>2, <1>4, HasOne DEF WorkCurrent, WorkHead
  <2>2. PICK m \in Node : front = <<Rm(m)>> /\ Children(m) \cap src = {}
    BY <1>4 DEF RemoveOrder
  <2>3. m = t.node
    BY <1>1, <2>1, <2>2, TaskNames
  <2>4. Doing(t.node)
    BY <1>1, <1>2, <2>1 DEF Doing
  <2> QED BY <1>1, <2>2, <2>3, <2>4 DEF SeenOK, SeenOnce
<1> QED BY <1>3, <1>4

LEMMA RemoveOrderMain ==
  ASSUME TypeOK, KindsOK, Before, op = "remove", RemoveOrder, ~looping, QueuesNext \/ StartsLoop,
         UNCHANGED <<op, scur, dir, ents, listed, front, wcur, left, src>>
  PROVE  RemoveOrder'
<1>1. ~dir /\ listed = {} /\ left = <<>> /\ front = <<>>
  BY DEF Before
<1>2. looping' => idlers' \in {<<"scan", "work">>, <<"work">>}
  BY DEF QueuesNext, StartsLoop
<1> QED BY <1>1, <1>2 DEF RemoveOrder
-----------------------------------------------------------------------------
(* The order of a shredding.                                               *)

LEMMA ShredHeads ==
  ASSUME TypeOK, KindsOK, op = "srm", ShredOrder
  PROVE  /\ scanq \in Seq(ScanOf(op)) /\ front \in Seq(FrontOf(op)) /\ back \in Seq(BackOf(op))
         /\ ScanCurrent # NoTask => scanq # <<>> /\ ScanCurrent = Head(scanq) /\ Has(scanq, {ScanCurrent})
         /\ scanq # <<>> => sep = "live"
         /\ \A n : (Doing(n) <=> Has(back, {Rm(n)})) /\ (op' = op => Sc(n)' = Sc(n))
         /\ \A u : Queued(u, op) = Append(scanq, u)
         /\ \A t \in WorkOf(op) : /\ t.act \in {"remove", "stat", "destroy"} /\ t # NoTask /\ t.node \in Node
                                  /\ t.act = "remove" => t = Rm(t.node)
<1>1. \A t \in WorkOf(op) : t.act \in {"remove", "stat", "destroy"} /\ (t.act = "remove" => t = Rm(t.node))
  BY DEF WorkOf, FrontActs, BackActs, Moves, Rm
<1>2. \A t \in WorkOf(op) : t # NoTask /\ t.node \in Node
  BY KindFacts, CalmTasks
<1>3. ScanCurrent # NoTask => scanq # <<>> /\ ScanCurrent = Head(scanq) /\ Has(scanq, {ScanCurrent})
  BY KindTasks DEF ScanCurrent, ShredOrder
<1>4. scanq # <<>> => sep = "live"
  BY DEF ShredOrder, TypeOK, WorkOK
<1> QED BY <1>1, <1>2, <1>3, <1>4, SeenQueues DEF Doing, Queued

\* What is in a directory that was read is still to be scanned when the directory is
\* handed on.
LEMMA ChildWaits ==
  ASSUME TypeOK, KindsOK, op = "srm", Calm, looping, ShredOrder, NodesReached, QuitWhenDone,
         NEW m \in Node, Hands(m), NEW n \in Children(m), n \in src
  PROVE  Has(scanq, {Sc(n)})
<1>1. /\ n \in Node /\ Parent[n] = m /\ Kind[m] = "dir" /\ m # NoNode
  BY TreeAssumption DEF Children
<1>2. m \in listed /\ Has(scanq, {Sc(m)})
  <2>1. Sc(m) # NoTask
    BY SeenQueues
  <2> QED BY <1>1, <2>1, ShredHeads DEF Hands
<1>3. Reached(n)
  BY <1>1, <1>2 DEF NodesReached, Unread
<1>4. ~Skipped(n) /\ ~Done(n) /\ ~Doing(n)
  BY <1>2, ShredHeads DEF Calm, Skipped, Done, ShredOrder
<1>5. ~Todo(n)
  <2>1. todo = <<>>
    BY DEF QuitWhenDone
  <2> QED BY <2>1 DEF Todo
<1> QED BY <1>3, <1>4, <1>5 DEF Reached

LEMMA ShredOrderScan ==
  ASSUME TypeOK, KindsOK, op = "srm", Calm, looping, SeenOK, ShredOrder, NodesReached, QuitWhenDone, CalmScans,
         UNCHANGED <<op, looping, sep, wcur, cur, src>>
  PROVE  ShredOrder'
<1>1. /\ scanq \in Seq(ScanOf(op)) /\ front \in Seq(FrontOf(op)) /\ back \in Seq(BackOf(op))
      /\ ScanCurrent # NoTask => scanq # <<>> /\ ScanCurrent = Head(scanq) /\ Has(scanq, {ScanCurrent})
      /\ scanq # <<>> => sep = "live"
      /\ \A n : (Doing(n) <=> Has(back, {Rm(n)})) /\ Sc(n)' = Sc(n)
      /\ \A u : Queued(u, op) = Append(scanq, u)
      /\ \A n \in Node : NoTask # Sc(n) /\ NoTask # St(n)
  BY ShredHeads, SeenQueues
<1>2. ASSUME NEW u, scanq # <<>>
      PROVE  Append(scanq, u) # <<>> /\ Head(Append(scanq, u)) = Head(scanq)
  BY <1>1, <1>2, HeadStays
<1> DEFINE Down(p, n) == Has(scanq, {Sc(p)}) => ~Has(back, {Rm(n)}) /\ Ahead(scanq, Sc(p), Sc(n))
           Up(p, n)   == n \in src => Has(scanq, {Sc(n)}) \/ Ahead(back, Rm(n), Rm(p))
<1>3. ASSUME NEW p \in Node, NEW n \in Children(p)
      PROVE  Down(p, n) /\ Up(p, n) /\ n \in Node /\ Parent[n] = p
  BY DEF ShredOrder, Children
<1>4. CASE UNCHANGED <<scanq, scur, dir, ents, listed, front, back>>
  <2>1. \A n : Sc(n)' = Sc(n)
    BY <1>1
  <2> QED BY <1>4, <2>1 DEF ShredOrder
<1>5. ASSUME NEW m \in Node, Opens(m)
      PROVE  ShredOrder'
  <2>1. scanq # <<>> /\ scur' = Head(scanq) /\ UNCHANGED <<scanq, front, back>>
    BY <1>1, <1>5 DEF Opens
  <2>2. \A n : Sc(n)' = Sc(n)
    BY <1>1
  <2> QED BY <2>1, <2>2 DEF ShredOrder
<1>6. ASSUME NEW m \in Node, NEW c \in Node, Finds(m, c)
      PROVE  ShredOrder'
  <2>1. /\ ScanCurrent = Sc(m) /\ dir /\ c \in ents /\ scur' = Sc(m) /\ scanq' = Append(scanq, Sc(c))
        /\ UNCHANGED <<front, back>> /\ scanq # <<>> /\ Head(scanq) = Sc(m)
    BY <1>1, <1>6 DEF Finds
  <2>2. scur.node = m /\ ~Seen(c) /\ Seen(m) /\ Parent[c] = m /\ Has(scanq, {Sc(m)}) /\ c # m
    <3>1. scur # NoTask /\ ~Seen(c) /\ Parent[c] = scur.node
      BY <2>1 DEF SeenOK, DirUnseen
    <3>2. scur = Sc(m) /\ scur.node = m
      BY <2>1, <3>1, TaskNames DEF ScanCurrent
    <3>3. Has(scanq, {Sc(m)}) /\ Seen(m)
      BY <1>1, <2>1 DEF Seen
    <3> QED BY <3>1, <3>2, <3>3
  <2>3. \A n : Has(scanq', {Sc(n)}) <=> Has(scanq, {Sc(n)}) \/ n = c
    BY <1>1, <2>1, HasAppend, TaskNames
  <2>4. ASSUME NEW p \in Node, NEW n \in Children(p)
        PROVE  Down(p, n)' /\ Up(p, n)'
    <3>1. Up(p, n)'
      BY <1>1, <1>3, <2>1, <2>3
    <3>2. CASE p = c
      <4>1. ~Seen(n) /\ n # c
        <5>1. n \in Node /\ Parent[n] = c /\ c # NoNode
          BY <1>3, <3>2, TreeAssumption
        <5>2. /\ Seen(n) => Parent[n] = NoNode \/ Parent[n] \in listed \/ (dir /\ Parent[n] = scur.node)
              /\ c \in listed => Seen(c)
          BY <5>1 DEF SeenOK, SeenUnder
        <5> QED BY <2>2, <5>1, <5>2
      <4>2. ~Has(back, {Rm(n)}) /\ ~Has(scanq, {Sc(n)}) /\ Sc(c) # Sc(n)
        BY <1>1, <4>1, TaskNames DEF Seen
      <4>3. Ahead(scanq', Sc(p), Sc(n))
        BY <1>1, <2>1, <4>2, AheadNone, AheadAppend
      <4> QED BY <1>1, <2>1, <3>1, <4>2, <4>3
    <3>3. CASE p # c /\ Has(scanq, {Sc(p)})
      <4>1. ~Has(back, {Rm(n)}) /\ Ahead(scanq, Sc(p), Sc(n))
        BY <1>3, <3>3
      <4>2. Ahead(scanq', Sc(p), Sc(n))
        BY <1>1, <2>1, <3>3, <4>1, AheadAppend
      <4> QED BY <1>1, <2>1, <3>1, <4>1, <4>2
    <3>4. CASE p # c /\ ~Has(scanq, {Sc(p)})
      BY <1>1, <2>3, <3>1, <3>4
    <3> QED BY <3>2, <3>3, <3>4
  <2>5. scur' # NoTask => scanq' # <<>> /\ scur' = Head(scanq')
    BY <1>2, <2>1
  <2>6. sep = "live"
    BY <1>1, <2>1
  <2> QED BY <2>1, <2>4, <2>5, <2>6 DEF ShredOrder
<1>7. ASSUME NEW m \in Node, Closes(m) \/ Describes(m)
      PROVE  ShredOrder'
  <2>1. /\ ScanCurrent \in {Sc(m), St(m)} /\ scur' = NoTask /\ front' = front
        /\ scanq' = Append(scanq, St(m)) \/ scanq' = Without(scanq, St(m))
        /\ back' = back \/ back' = Append(back, St(m))
        /\ \A n : St(m) # Sc(n) /\ St(m) # Rm(n)
    BY <1>1, <1>7, TaskNames DEF Closes, Describes
  <2>2. ASSUME NEW n
        PROVE  /\ Has(scanq', {Sc(n)}) <=> Has(scanq, {Sc(n)})
               /\ Has(back', {Rm(n)}) <=> Has(back, {Rm(n)})
    <3> DEFINE X == {Sc(n)}
               Y == {Rm(n)}
               w == St(m)
    <3>1. w \notin X /\ w \notin Y
      BY <2>1
    <3>2. /\ scanq' = Append(scanq, w) \/ scanq' = Without(scanq, w)
          /\ back' = back \/ back' = Append(back, w)
      BY <2>1
    <3> HIDE DEF X, Y, w
    <3>3. (Has(Append(scanq, w), X) <=> Has(scanq, X)) /\ (Has(Append(back, w), Y) <=> Has(back, Y))
      BY <1>1, <3>1, HasAppend
    <3>4. Has(Without(scanq, w), X) <=> Has(scanq, X)
      BY <1>1, <3>1, HasWithout
    <3>5. (Has(scanq', X) <=> Has(scanq, X)) /\ (Has(back', Y) <=> Has(back, Y))
      BY <3>2, <3>3, <3>4
    <3> QED BY <3>5 DEF X, Y
  <2>3. ASSUME NEW p \in Node, NEW n \in Children(p)
        PROVE  Down(p, n)' /\ Up(p, n)'
    <3>1. Ahead(scanq, Sc(p), Sc(n)) => Ahead(scanq', Sc(p), Sc(n))
      BY <1>1, <2>1, AheadAppend, AheadWithout
    <3>2. Ahead(back, Rm(n), Rm(p)) => Ahead(back', Rm(n), Rm(p))
      BY <1>1, <2>1, AheadAppend
    <3> QED BY <1>1, <1>3, <2>2, <3>1, <3>2
  <2>4. sep = "live"
    BY <1>1, <2>1
  <2> QED BY <2>1, <2>3, <2>4 DEF ShredOrder
<1>8. ASSUME NEW m \in Node, Hands(m)
      PROVE  ShredOrder'
  <2>1. /\ ScanCurrent = Sc(m) /\ scur' = NoTask /\ scanq' = Without(scanq, Sc(m))
        /\ front' = <<Ds(m)>> \o front /\ back' = <<Rm(m)>> \o back
        /\ scanq # <<>> /\ Head(scanq) = Sc(m) /\ Has(scanq, {Sc(m)}) /\ sep = "live"
    BY <1>1, <1>8 DEF Hands
  <2>2. ASSUME NEW n \in Node
        PROVE  /\ Has(scanq', {Sc(n)}) <=> Has(scanq, {Sc(n)}) /\ n # m
               /\ Has(back', {Rm(n)}) <=> Has(back, {Rm(n)}) \/ n = m
    <3>1. Once(scanq, {Sc(n)}) /\ (Sc(m) \in {Sc(n)} <=> n = m) /\ (Rm(m) \in {Rm(n)} <=> n = m)
      BY TaskNames DEF SeenOK, SeenOnce
    <3>2. Has(scanq', {Sc(n)}) <=> Has(scanq, {Sc(n)}) /\ n # m
      BY <1>1, <2>1, <3>1, HasWithout
    <3>3. Has(back', {Rm(n)}) <=> Has(back, {Rm(n)}) \/ n = m
      BY <1>1, <2>1, <3>1, HasCons
    <3> QED BY <3>2, <3>3
  <2>3. ASSUME NEW p \in Node, NEW n \in Children(p)
        PROVE  Down(p, n)' /\ Up(p, n)'
    <3>1. Down(p, n)'
      <4> SUFFICES ASSUME Has(scanq', {Sc(p)})
                   PROVE  ~Has(back', {Rm(n)}) /\ Ahead(scanq', Sc(p), Sc(n))
        BY <1>1
      <4>1. Has(scanq, {Sc(p)}) /\ p # m
        BY <2>2
      <4>2. ~Has(back, {Rm(n)}) /\ Ahead(scanq, Sc(p), Sc(n)) /\ n \in Node
        BY <1>3, <4>1
      <4>3. n # m
        BY <1>1, <2>1, <4>2, AheadHead
      <4>4. Sc(m) # Sc(p)
        BY <4>1, TaskNames
      <4> QED BY <1>1, <2>1, <2>2, <4>2, <4>3, <4>4, AheadWithout
    <3>2. Up(p, n)'
      <4> SUFFICES ASSUME n \in src, n = m \/ ~Has(scanq, {Sc(n)})
                   PROVE  Ahead(back', Rm(n), Rm(p))
        BY <1>1, <1>3, <2>2
      <4>1. p # m
        <5>1. p = m => Has(scanq, {Sc(n)})
          BY <1>8, ChildWaits
        <5>2. n = m => p # m
          <6>1. Down(p, n) /\ (n = m => Head(scanq) = Sc(n))
            BY <1>3, <2>1
          <6>2. n = m /\ p = m => Ahead(scanq, Sc(p), Sc(n))
            BY <2>1, <6>1
          <6> QED BY <1>1, <2>1, <6>1, <6>2, AheadHead
        <5> QED BY <5>1, <5>2
      <4>2. Rm(m) # Rm(p) /\ (n # m => Ahead(back, Rm(n), Rm(p)))
        BY <1>3, <4>1, TaskNames
      <4> QED BY <1>1, <2>1, <4>2, AheadCons
    <3> QED BY <3>1, <3>2
  <2>4. wcur # NoTask => wcur.act = "destroy" /\ Has(front', {wcur})
    BY <1>1, <2>1, HasCons DEF ShredOrder
  <2> QED BY <2>1, <2>3, <2>4 DEF ShredOrder
<1> QED BY <1>4, <1>5, <1>6, <1>7, <1>8 DEF CalmScans
LEMMA ShredOrderWork ==
  ASSUME TypeOK, KindsOK, op = "srm", Calm, looping, ShredOrder, ScanWaits, CalmWorks,
         UNCHANGED <<op, looping, scanq, scur>>
  PROVE  ShredOrder'
<1>1. /\ front \in Seq(FrontOf(op)) /\ back \in Seq(BackOf(op))
      /\ scanq # <<>> => sep = "live"
      /\ \A n : Sc(n)' = Sc(n)
      /\ \A t \in WorkOf(op) : /\ t.act \in {"remove", "stat", "destroy"} /\ t # NoTask
                               /\ t.act = "remove" => t = Rm(t.node)
  BY ShredHeads
<1>2. ASSUME NEW t, NEW X
      PROVE  Has(Without(back, t), X) => Has(back, X)
  BY <1>1, HasWithout
<1>3. CASE Waits
  <2>1. UNCHANGED <<front, sep, back, wcur, cur, src>>
    BY <1>3 DEF Waits
  <2> QED BY <1>1, <2>1 DEF ShredOrder
<1>4. CASE Separates
  <2>1. sep' = "freed" /\ front = <<>> /\ UNCHANGED <<front, back, wcur, cur, src>>
    BY <1>4 DEF Separates
  <2>2. scanq = <<>>
    BY <1>4 DEF Separates, ScanWaits, Calm, Idler
  <2> QED BY <1>1, <2>1, <2>2 DEF ShredOrder
<1>5. ASSUME NEW t \in WorkOf(op), GoesOn(t)
      PROVE  ShredOrder'
  <2>1. WorkCurrent = t /\ t.act = "destroy" /\ wcur' = t /\ (cur'.open => cur.open)
        /\ UNCHANGED <<front, sep, back, src>>
    BY <1>1, <1>5 DEF GoesOn
  <2>2. Has(front, {t})
    <3>1. t \notin BackOf(op) /\ t # NoTask
      BY <1>1, <2>1 DEF BackOf, BackActs, Moves
    <3>2. wcur # NoTask => wcur = t
      BY <2>1 DEF WorkCurrent
    <3> QED BY <2>1, <3>1, <3>2, KindTasks DEF ShredOrder
  <2> QED BY <1>1, <2>1, <2>2 DEF ShredOrder
<1>6. ASSUME NEW t \in WorkOf(op), Ends(t)
      PROVE  ShredOrder'
  <2>1. /\ wcur' = NoTask /\ front' = Without(front, t) /\ back' = Without(back, t) /\ sep' = sep
        /\ ~cur'.open
        /\ src' = IF t.act = "remove" THEN src \ {t.node} ELSE src
    BY <1>6 DEF Ends, Fresh
  <2>2. front = <<>> => front' = <<>>
    BY <2>1 DEF Without
  <2>3. ASSUME NEW p \in Node, NEW n \in Children(p), n \in src', ~Has(scanq, {Sc(n)})
        PROVE  Ahead(back', Rm(n), Rm(p))
    <3>1. Ahead(back, Rm(n), Rm(p)) /\ n \in src
      BY <2>1, <2>3 DEF ShredOrder
    <3>2. t # Rm(n)
      BY <2>1, <2>3, TaskNames
    <3> QED BY <1>1, <2>1, <3>1, <3>2, AheadWithout
  <2> QED BY <1>1, <1>2, <2>1, <2>2, <2>3 DEF ShredOrder
<1> QED BY <1>3, <1>4, <1>5, <1>6 DEF CalmWorks

\* What the work idler removes has nothing left in it.
LEMMA ShredFinds ==
  ASSUME TypeOK, KindsOK, op = "srm", SeenOK, ShredOrder, NEW t \in WorkOf(op), WorkCurrent = t
  PROVE  /\ t.act # "copy"
         /\ t.act = "remove" => Doing(t.node) /\ t.node \in src /\ Children(t.node) \cap src = {}
<1>1. /\ front \in Seq(FrontOf(op)) /\ back \in Seq(BackOf(op)) /\ t.act # "copy" /\ t # NoTask /\ t.node \in Node
      /\ t.act = "remove" => t = Rm(t.node)
      /\ \A n : Doing(n) <=> Has(back, {Rm(n)})
  BY ShredHeads
<1> SUFFICES ASSUME t.act = "remove"
             PROVE  Doing(t.node) /\ t.node \in src /\ Children(t.node) \cap src = {}
  BY <1>1
<1>2. wcur = NoTask
  BY DEF WorkCurrent, ShredOrder
<1>3. front = <<>>
  <2>1. \A u \in FrontOf(op) : u.act = "destroy"
    BY DEF FrontOf, FrontActs, Moves
  <2> QED BY <1>1, <1>2, <2>1, KindTasks
<1>4. Has(back, {t}) /\ back # <<>> /\ t = Head(back) /\ sep # "live"
  <2>1. Has(back, {t}) /\ sep # "live"
    BY <1>1, <1>2, <1>3, KindTasks
  <2>2. back # <<>>
    BY <2>1, HasEmpty
  <2> QED BY <1>1, <1>2, <1>3, <2>1, <2>2 DEF WorkCurrent, WorkHead
<1>5. scanq = <<>> /\ \A n : ~Has(scanq, {Sc(n)})
  BY <1>4, ShredHeads, HasEmpty
<1>6. Doing(t.node) /\ t.node \in src
  BY <1>1, <1>4 DEF SeenOK, SeenOnce
<1>7. ASSUME NEW n \in Children(t.node), n \in src
      PROVE  FALSE
  <2>1. Ahead(back, Rm(n), Rm(t.node))
    BY <1>1, <1>5, <1>7 DEF ShredOrder
  <2> QED BY <1>1, <1>4, <2>1, AheadHead
<1> QED BY <1>6, <1>7

LEMMA ShredOrderMain ==
  ASSUME TypeOK, KindsOK, Before, op = "srm", SeenOK, ShredOrder, ~looping, QueuesNext \/ StartsLoop,
         UNCHANGED <<op, scur, dir, ents, listed, front, sep, back, wcur, cur, src>>
  PROVE  ShredOrder'
<1>1. /\ ~dir /\ listed = {} /\ wcur = NoTask /\ scur = NoTask /\ sep # "freed"
      /\ scanq \in Seq(ScanOf(op)) /\ \A n : (Doing(n) <=> Has(back, {Rm(n)})) /\ Sc(n)' = Sc(n)
  BY ShredHeads DEF Before
<1>2. CASE QueuesNext
  <2> DEFINE h == Head(todo)
  <2>1. Parent[h] = NoNode /\ scanq' = Append(scanq, Sc(h))
    BY <1>2, TodoTail DEF QueuesNext, SeenOK, TodoUnseen
  <2> HIDE DEF h
  <2>2. \A n : Has(scanq', {Sc(n)}) <=> Has(scanq, {Sc(n)}) \/ n = h
    BY <1>1, <2>1, HasAppend, TaskNames
  <2>3. ASSUME NEW p \in Node, NEW n \in Children(p)
        PROVE  /\ Has(scanq', {Sc(p)'}) => ~Has(back', {Rm(n)}) /\ Ahead(scanq', Sc(p)', Sc(n)')
               /\ n \in src' => Has(scanq', {Sc(n)'}) \/ Ahead(back', Rm(n), Rm(p))
    <3>1. n \in Node /\ Parent[n] = p /\ p # NoNode
      BY <2>3, TreeAssumption DEF Children
    <3>2. ~Seen(n) /\ n # h
      BY <1>1, <2>1, <3>1 DEF SeenOK, SeenUnder
    <3>3. ~Has(back, {Rm(n)}) /\ ~Has(scanq', {Sc(n)})
      BY <1>1, <2>2, <3>2 DEF Seen
    <3>4. Ahead(scanq', Sc(p), Sc(n))
      BY <3>3, AheadNone
    <3>5. n \in src => Has(scanq, {Sc(n)}) \/ Ahead(back, Rm(n), Rm(p))
      BY DEF ShredOrder
    <3> QED BY <1>1, <2>2, <3>3, <3>4, <3>5
  <2> QED BY <1>1, <2>3 DEF ShredOrder
<1>3. CASE StartsLoop
  BY <1>1, <1>3 DEF StartsLoop, ShredOrder
<1> QED BY <1>2, <1>3
-----------------------------------------------------------------------------
(* Nothing goes wrong of itself.                                           *)

\* Faults are counted, never taken back.
LEMMA FaultsGrow ==
  ASSUME TypeOK, [Next]_vars, faults' = 0
  PROVE  faults = 0
<1>1. faults \in Nat
  BY DEF TypeOK, CtlOK
<1>2. faults' \in {faults, faults + 1}
  <2>1. CASE Exited \/ UNCHANGED vars
    BY <2>1 DEF Exited, vars, askVars
  <2>2. CASE Main
    BY <2>2 DEF Main, MainLinks, MainRenames, MainGivesUp, MainQueues, MainLoops, askVars
  <2>3. CASE User
    BY <2>3 DEF User, AnswerError, AnswerOverwrite, AbortArrives, askVars
  <2>4. CASE Scan
    BY <2>4 DEF Scan, ScanEmpty, ScanSleeps, ScanHeld, ScanGivesUp, ScanAborts, ScanFails, ScanOpens, ScanChild,
                ScanDirRead, ScanPushes, askVars
  <2>5. CASE Work
    <3>1. CASE WorkFails
      <4>1. PICK t \in WorkTask : \/ t.act = "copy" /\ CopyError(t)
                                  \/ t.act = "remove" /\ RemoveError(t)
                                  \/ t.act \in {"symlink", "rename"} /\ RelinkError(t)
        BY <3>1 DEF WorkFails
      <4> QED BY <4>1 DEF CopyError, RemoveError, RelinkError
    <3>2. CASE WorkDropsSeparator \/ WorkFindsNothing \/ WorkSleeps \/ WorkHeld \/ WorkGivesUp \/ WorkAborts
               \/ WorkAsks \/ WorkDeclines
      BY <3>2 DEF WorkDropsSeparator, WorkFindsNothing, WorkSleeps, WorkHeld, WorkGivesUp, WorkAborts, WorkAsks,
                  WorkDeclines, askVars
    <3>3. CASE WorkCopiesAtOnce \/ WorkOpens \/ WorkCopiesNothing \/ WorkCopiesChunk \/ WorkReachesEof
      BY <3>3 DEF WorkCopiesAtOnce, WorkOpens, WorkCopiesNothing, WorkCopiesChunk, WorkReachesEof, askVars
    <3>4. CASE WorkStats \/ WorkRemoves \/ WorkSymlinks \/ WorkRenames \/ WorkWipes \/ WorkWipesNothing
      BY <3>4 DEF WorkStats, WorkRemoves, WorkSymlinks, WorkRenames, WorkWipes, WorkWipesNothing, askVars
    <3> QED BY <2>5, <3>1, <3>2, <3>3, <3>4 DEF Work
  <2> QED BY <2>1, <2>2, <2>3, <2>4, <2>5 DEF Next
<1> QED BY <1>1, <1>2

\* An abort adds no error of its own.
LEMMA CalmAbort ==
  ASSUME TypeOK, Calm, abort', Scan \/ Work
  PROVE  Calm'
<1>1. "scan" \in Idler /\ "work" \in Idler
  BY DEF Idler
<1>2. \A e \in Idler : ~Sleeps(e) /\ ~GivesUp(e) /\ ~Held(e) /\ ~ToldToAbort(e)
  BY CalmFacts
<1>3. CASE ScanEmpty \/ ScanAborts
  <2>1. UNCHANGED <<err, overwrite, skipped, recursed, crashed>>
    <3>1. CASE ScanEmpty
      BY <3>1 DEF ScanEmpty, ctlVars, histVars
    <3>2. CASE ScanAborts
      BY <3>2 DEF ScanAborts, Calm, histVars
    <3> QED BY <1>3, <3>1, <3>2
  <2> QED BY <2>1 DEF Calm
<1>4. CASE WorkDropsSeparator \/ WorkFindsNothing \/ WorkAborts
  <2>1. UNCHANGED <<err, overwrite, skipped, recursed, crashed>>
    <3>1. CASE WorkDropsSeparator \/ WorkFindsNothing
      BY <3>1 DEF WorkDropsSeparator, WorkFindsNothing, ctlVars, histVars
    <3>2. CASE WorkAborts
      BY <3>2 DEF WorkAborts, Calm, histVars
    <3> QED BY <1>4, <3>1, <3>2
  <2> QED BY <2>1 DEF Calm
<1>5. CASE ScanSleeps \/ ScanHeld \/ ScanGivesUp \/ WorkSleeps \/ WorkHeld \/ WorkGivesUp
  BY <1>1, <1>2, <1>5 DEF ScanSleeps, ScanHeld, ScanGivesUp, WorkSleeps, WorkHeld, WorkGivesUp
<1>6. CASE ScanFails \/ ScanOpens \/ ScanChild \/ ScanDirRead \/ ScanPushes
  BY <1>6 DEF ScanFails, ScanOpens, ScanChild, ScanDirRead, ScanPushes, Scans
<1>7. ASSUME NEW t \in WorkTask, NEW k, Works(t, k)
      PROVE  FALSE
  BY <1>7 DEF Works
<1>8. CASE WorkAsks \/ WorkDeclines \/ WorkFails \/ WorkCopiesAtOnce \/ WorkOpens \/ WorkCopiesNothing
           \/ WorkCopiesChunk \/ WorkReachesEof
  BY <1>7, <1>8 DEF WorkAsks, WorkDeclines, WorkFails, WorkCopiesAtOnce, WorkOpens, WorkCopiesNothing,
                    WorkCopiesChunk, WorkReachesEof
<1>9. CASE WorkStats \/ WorkRemoves \/ WorkSymlinks \/ WorkRenames \/ WorkWipes \/ WorkWipesNothing
  BY <1>7, <1>9 DEF WorkStats, WorkRemoves, WorkSymlinks, WorkRenames, WorkWipes, WorkWipesNothing
<1> QED BY <1>3, <1>4, <1>5, <1>6, <1>8, <1>9 DEF Scan, Work

\* Where nothing went wrong nothing is asked.
LEMMA NobodyAnswers ==
  ASSUME TypeOK, Marked, Calm, User
  PROVE  AbortArrives /\ Calm'
<1>1. Reads => asked.error = 0 /\ asked.overwrite = 0
  <2>1. Reads => Failing /\ asked.error + asked.overwrite <= 1
    BY DEF Reads, Marked, Live, Calm
  <2>2. ~err["scan"] /\ ~err["work"]
    BY DEF Calm, Idler
  <2> QED BY <2>1, <2>2, CtlFacts DEF Failing
<1>2. AbortArrives
  BY <1>1, CtlFacts DEF User, AnswerError, AnswerOverwrite
<1> QED BY <1>2 DEF AbortArrives, Calm, passVars, histVars

LEMMA OrderInit == Init => OrderInv
<1> SUFFICES ASSUME Init, Smooth
             PROVE  Calm /\ (op = "copy" => CopyOrder) /\ (op # "copy" => SeenOK)
                    /\ (op = "remove" => RemoveOrder) /\ (op = "srm" => ShredOrder)
  BY DEF OrderInv, Ordering
<1>1. /\ scanq = <<>> /\ front = <<>> /\ back = <<>> /\ wcur = NoTask /\ scur = NoTask /\ ~dir /\ listed = {}
      /\ cur = Fresh /\ src = Node /\ ~looping /\ left = <<>> /\ ~cur.open
      /\ op = "srm" => sep = "live"
  BY DEF Init, Fresh
<1>2. Calm
  BY DEF Init, Calm
<1>3. \A a, b : Ahead(<<>>, a, b) /\ ~Has(<<>>, {a})
  BY HasEmpty, AheadNone
<1>4. CopyOrder
  BY <1>1, <1>3 DEF CopyOrder, CopiedBefore
<1>5. RemoveOrder
  BY <1>1 DEF RemoveOrder
<1>6. op = "srm" => ShredOrder
  BY <1>1, <1>3 DEF ShredOrder
<1> QED BY <1>2, <1>4, <1>5, <1>6, SeenInit DEF Smooth, Anew

\* What the other invariants say in such a state.
Agreed ==
  /\ KindsOK /\ Before /\ (Anew => AnewOK) /\ Marked
  /\ op \in {"remove", "srm"} => NodesReached /\ CopyWhole /\ ScanWaits /\ QuitWhenDone

LEMMA OrderMain ==
  ASSUME TypeOK, Agreed, Smooth, Calm, Ordering, Main, [Next]_vars
  PROVE  Ordering'
<1>1. /\ op \in {"copy", "remove", "srm"} /\ KindsOK /\ Before
      /\ op = "copy" => AnewOK
  BY DEF Smooth, Anew, Agreed
<1>2. /\ ~looping /\ (QueuesNext \/ StartsLoop)
      /\ UNCHANGED <<op, scur, dir, ents, listed, front, sep, back, wcur, cur, left, src, dst>>
  BY <1>1, CalmMain DEF Smooth
<1>3. CASE op = "copy"
  BY <1>1, <1>2, <1>3, CopyOrderMain DEF Ordering
<1>4. CASE op = "remove"
  BY <1>1, <1>2, <1>4, SeenMain, RemoveOrderMain DEF Ordering
<1>5. CASE op = "srm"
  BY <1>1, <1>2, <1>5, SeenMain, ShredOrderMain DEF Ordering
<1> QED BY <1>1, <1>3, <1>4, <1>5

LEMMA OrderScan ==
  ASSUME TypeOK, Agreed, Smooth, Calm, Ordering, Scan, ~abort', faults' = 0
  PROVE  Calm' /\ Ordering'
<1>1. /\ op \in {"copy", "remove", "srm"} /\ KindsOK
      /\ op = "copy" => AnewOK
  BY DEF Smooth, Anew, Agreed
<1>2. looping /\ looping' /\ UNCHANGED <<op, looping, sep, wcur, cur, src, dst>>
  BY ScanSteps DEF ScanStep, Turn, Running, mainVars, argVars, diskVars
<1>3. \A n \in Node : Has(scanq, {Sc(n)}) => n \in src
  BY <1>1 DEF Ordering, CopyOrder, SeenOK, SeenOnce
<1>4. op = "srm" /\ scanq # <<>> => sep = "live"
  BY <1>1, ShredHeads DEF Ordering
<1>5. CalmScans /\ Calm'
  BY <1>1, <1>3, <1>4, CalmScan DEF Smooth
<1>6. CASE op = "copy"
  BY <1>1, <1>2, <1>5, <1>6, CopyOrderScan DEF Ordering
<1>7. CASE op = "remove"
  <2>1. SeenOK' /\ RemoveOrder'
    BY <1>1, <1>2, <1>5, <1>7, SeenScan, RemoveOrderScan DEF Ordering
  <2> QED BY <1>2, <1>5, <1>7, <2>1 DEF Ordering
<1>8. CASE op = "srm"
  <2>1. SeenOK' /\ ShredOrder'
    BY <1>1, <1>2, <1>5, <1>8, SeenScan, ShredOrderScan DEF Ordering, Agreed
  <2> QED BY <1>2, <1>5, <1>8, <2>1 DEF Ordering
<1> QED BY <1>1, <1>6, <1>7, <1>8

LEMMA OrderWork ==
  ASSUME TypeOK, Agreed, Smooth, Calm, Ordering, Work, ~abort', faults' = 0
  PROVE  Calm' /\ Ordering'
<1>1. /\ op \in {"copy", "remove", "srm"} /\ KindsOK
  BY DEF Smooth, Anew, Agreed
<1>2. looping /\ looping' /\ UNCHANGED <<op, looping, scanq, scur, dir, ents, listed>>
  BY WorkSteps DEF WorkStep, Turn, Running, mainVars, argVars, scanVars
<1>3. cur.open => wcur # NoTask /\ Kind[wcur.node] = "file"
  <2>1. ~Fresh.open
    BY DEF Fresh
  <2> QED BY <1>1, <2>1 DEF Ordering, CopyOrder, RemoveOrder, ShredOrder, Agreed, CopyWhole
<1>4. ASSUME NEW t \in WorkOf(op), WorkCurrent = t
      PROVE  /\ t.act = "remove" => /\ op # "copy" => Doing(t.node)
                                   /\ t.node \in src /\ Children(t.node) \cap src = {}
             /\ t.act = "copy" => t.node \in src /\ ParentReady(t.node)
  <2>1. CASE op = "copy"
    BY <1>1, <1>4, <2>1, CopyFinds DEF Ordering
  <2>2. CASE op = "remove"
    BY <1>1, <1>4, <2>2, RemoveFinds DEF Ordering
  <2>3. CASE op = "srm"
    BY <1>1, <1>4, <2>3, ShredFinds DEF Ordering
  <2> QED BY <1>1, <2>1, <2>2, <2>3
<1>5. CalmWorks /\ Calm'
  BY <1>1, <1>3, <1>4, CalmWork DEF Smooth, Agreed
<1>6. ASSUME op # "copy", NEW n \in Node, WorkCurrent = Rm(n)
      PROVE  Doing(n)
  <2>1. Rm(n) # NoTask /\ Rm(n).act = "remove" /\ Rm(n).node = n
    BY ShredTasks, NoTaskAssumption
  <2>2. Rm(n) \in WorkOf(op)
    BY <1>1, <1>6, <2>1, KindTasks
  <2> QED BY <1>4, <1>6, <2>1, <2>2
<1>7. CASE op = "copy"
  BY <1>1, <1>2, <1>5, <1>7, CopyOrderWork DEF Ordering
<1>8. CASE op = "remove"
  <2>1. SeenOK' /\ RemoveOrder'
    BY <1>1, <1>2, <1>5, <1>6, <1>8, SeenWork, RemoveOrderWork DEF Ordering
  <2> QED BY <1>2, <1>5, <1>8, <2>1 DEF Ordering
<1>9. CASE op = "srm"
  <2>1. SeenOK' /\ ShredOrder'
    BY <1>1, <1>2, <1>5, <1>6, <1>9, SeenWork, ShredOrderWork DEF Ordering, Agreed
  <2> QED BY <1>2, <1>5, <1>9, <2>1 DEF Ordering
<1> QED BY <1>1, <1>7, <1>8, <1>9
LEMMA OrderStep ==
  ASSUME TypeOK, IdlerInv, EndInv, OrderInv, [Next]_vars
  PROVE  OrderInv'
<1>1. CASE Exited \/ UNCHANGED vars
  <2>1. UNCHANGED vars
    BY <1>1 DEF Exited
  <2>2. UNCHANGED <<op, todo, looping, scanq, scur, dir, ents, listed, front, sep, back, wcur, cur, idlers, left,
                    crashed, abort, err, overwrite, faults, src, dst, skipped, recursed>>
    BY <2>1 DEF vars, mainVars, argVars, scanVars, workVars, passVars, ctlVars, askVars, diskVars, histVars
  <2>3. \A n : (Seen(n)' <=> Seen(n)) /\ (Doing(n)' <=> Doing(n)) /\ Sc(n)' = Sc(n) /\ Wk(n)' = Wk(n)
    BY <2>2 DEF Seen, Doing, Lane, Sc, Wk
  <2>4. Lane' = Lane
    BY <2>2 DEF Lane
  <2>5. (Smooth' <=> Smooth) /\ (Calm' <=> Calm)
    BY <2>2 DEF Smooth, Calm, Anew
  <2>6. SeenOK' <=> SeenOK
    BY <2>2, <2>3, <2>4 DEF SeenOK, TodoUnseen, DirUnseen, SeenUnder, SeenOnce, Todo
  <2>7. CopyOrder' <=> CopyOrder
    BY <2>2, <2>3 DEF CopyOrder, CopiedBefore
  <2>8. (RemoveOrder' <=> RemoveOrder) /\ (ShredOrder' <=> ShredOrder)
    BY <2>2, <2>3 DEF RemoveOrder, ShredOrder
  <2> QED BY <2>2, <2>5, <2>6, <2>7, <2>8 DEF OrderInv, Ordering
<1>2. ASSUME Main \/ Scan \/ Work \/ User, Smooth'
      PROVE  Calm' /\ (~abort' => Ordering')
  <2>1. op' = op /\ (abort => abort')
    <3>1. CASE Scan \/ Work
      BY <3>1, ScanSteps, WorkSteps DEF ScanStep, WorkStep, mainVars, argVars
    <3>2. CASE Main
      BY <3>2 DEF Main, MainLinks, MainRenames, MainGivesUp, MainQueues, MainLoops, mainVars, argVars,
                  ctlVars
    <3>3. CASE User
      BY <3>3 DEF User, AnswerError, AnswerOverwrite, AbortArrives, mainVars, argVars
    <3> QED BY <1>2, <3>1, <3>2, <3>3
  <2>2. Smooth /\ faults' = 0
    BY <1>2, <2>1, FaultsGrow, SameOp DEF Smooth
  <2>3. Calm /\ (~abort => Ordering)
    BY <2>2 DEF OrderInv
  <2>4. Agreed \/ abort
    <3>1. Surely /\ (op \in {"remove", "srm"} => Sure)
      BY <2>2 DEF Smooth, Surely, Sure
    <3>2. ~crashed
      BY <2>3 DEF Calm
    <3> QED BY <3>1, <3>2 DEF IdlerInv, EndInv, Agreed
  <2>5. CASE Main
    <3>1. Calm'
      BY <2>2, <2>3, <2>5, CalmMain DEF Smooth, IdlerInv
    <3> QED BY <2>1, <2>2, <2>3, <2>4, <2>5, <3>1, OrderMain
  <2>6. CASE User
    <3>1. Surely
      BY <2>2 DEF Smooth, Surely
    <3>2. AbortArrives /\ Calm'
      BY <2>3, <2>6, <3>1, NobodyAnswers DEF IdlerInv
    <3> QED BY <3>2 DEF AbortArrives
  <2>7. CASE Scan
    <3>1. CASE abort'
      BY <2>3, <2>7, <3>1, CalmAbort
    <3>2. CASE ~abort'
      BY <2>1, <2>2, <2>3, <2>4, <2>7, <3>2, OrderScan
    <3> QED BY <3>1, <3>2
  <2>8. CASE Work
    <3>1. CASE abort'
      BY <2>3, <2>8, <3>1, CalmAbort
    <3>2. CASE ~abort'
      BY <2>1, <2>2, <2>3, <2>4, <2>8, <3>2, OrderWork
    <3> QED BY <3>1, <3>2
  <2> QED BY <1>2, <2>5, <2>6, <2>7, <2>8
<1> QED BY <1>1, <1>2 DEF Next, OrderInv

LEMMA OrdersAgree == Spec => []OrderInv
<1>1. TypeOK /\ IdlerInv /\ EndInv /\ OrderInv /\ [Next]_vars => OrderInv'
  BY OrderStep
<1> QED BY <1>1, OrderInit, TypeCorrect, IdlersAgree, EndsAgree, PTL DEF Spec

\* A remove, a shredding, or a copy to where nothing is meets no error that the
\* system did not cause, whatever the tree and the order the idlers run in: each
\* directory is made before what goes into it, and nothing is removed twice
\* (_e_fm_op_scan_atom, _e_fm_op_work_idler).
THEOREM NoErrorOfItsOwn == Spec => [](op \in {"remove", "srm"} \/ Anew => NoSpuriousError)
<1>1. OrderInv => (op \in {"remove", "srm"} \/ Anew => NoSpuriousError)
  BY DEF OrderInv, Smooth, Calm, NoSpuriousError
<1> QED BY <1>1, OrdersAgree, PTL

\* While nothing fails in them rmdir() finds its directory empty in every remove
\* and shredding: "This should never happen due to way tasks are added to the
\* work queue" (_e_fm_op_remove_atom).
THEOREM RmdirEmptyUnlessFaulted == Spec => [](Smooth => RmdirFindsEmpty)
<1>1. OrderInv => (Smooth => RmdirFindsEmpty)
  BY DEF OrderInv, Calm, RmdirFindsEmpty
<1> QED BY <1>1, OrdersAgree, PTL

-----------------------------------------------------------------------------
(* The progress.  What the total is ahead of what is done is the cost of    *)
(* the queued tasks, less what the copy at hand has written.  The sum over  *)
(* a queue is given by its partial sums, which need no recursion.           *)

Task == WorkTask \cup {NoTask}

\* What _e_fm_op_scan_atom adds to the total for a work task.
Cost == [t \in Task |->
           IF t = NoTask THEN 0 ELSE IF t.act = "copy" THEN Size[t.node] ELSE ChunkCost]

\* f[i] is the cost of the first i tasks of q.
Sums(q, f) == f[0] = 0 /\ \A i \in 1..Len(q) : f[i] = f[i - 1] + Cost[q[i]]

\* The tasks of q cost k.
Costs(q, k) == \E f \in [0..Len(q) -> Int] : Sums(q, f) /\ f[Len(q)] = k

\* The tasks of both halves of the work queue cost k.
Owe(p, q, k) == \E i, j \in Int : Costs(p, i) /\ Costs(q, j) /\ i + j = k

LEMMA CostType ==
  /\ Cost \in [Task -> Int] /\ ChunkCost \in Int
  /\ \A t \in WorkTask : /\ t \in Task /\ t # NoTask /\ t.node \in Node /\ Size[t.node] \in Nat
                         /\ Cost[t] = IF t.act = "copy" THEN Size[t.node] ELSE ChunkCost
<1>1. \A t \in WorkTask : t \in Task /\ t # NoTask /\ t.node \in Node /\ Size[t.node] \in Nat
  BY NoTaskAssumption, TreeAssumption DEF Task, WorkTask
<1> QED BY <1>1 DEF Cost, Task, ChunkCost

LEMMA CostsEmpty ==
  ASSUME NEW k \in Int
  PROVE  Costs(<<>>, k) <=> k = 0
<1>1. Len(<<>>) = 0 /\ 0..0 = {0} /\ 1..0 = {}
  OBVIOUS
<1>2. ASSUME k = 0 PROVE Costs(<<>>, k)
  <2> DEFINE f == [i \in 0..0 |-> 0]
  <2>1. f \in [0..0 -> Int] /\ f[0] = 0
    BY <1>1
  <2> HIDE DEF f
  <2>2. Sums(<<>>, f)
    BY <1>1, <2>1 DEF Sums
  <2> QED BY <1>1, <1>2, <2>1, <2>2 DEF Costs
<1>3. Costs(<<>>, k) => k = 0
  BY <1>1 DEF Costs, Sums
<1> QED BY <1>2, <1>3

\* A task comes to the end of a queue.
LEMMA CostsAppend ==
  ASSUME NEW q \in Seq(Task), NEW u \in Task, NEW k \in Int, Costs(q, k)
  PROVE  Costs(Append(q, u), k + Cost[u])
<1>1. /\ Len(q) \in Nat /\ Len(Append(q, u)) = Len(q) + 1 /\ Cost[u] \in Int
      /\ \A i \in 1..Len(q) : Append(q, u)[i] = q[i]
      /\ Append(q, u)[Len(q) + 1] = u
  BY AppendProperties, LenProperties, CostType
<1>2. PICK f \in [0..Len(q) -> Int] : Sums(q, f) /\ f[Len(q)] = k
  BY DEF Costs
<1> DEFINE g == [i \in 0..(Len(q) + 1) |-> IF i <= Len(q) THEN f[i] ELSE k + Cost[u]]
<1>3. /\ g \in [0..(Len(q) + 1) -> Int] /\ g[0] = 0 /\ g[Len(q) + 1] = k + Cost[u] /\ g[Len(q)] = k
      /\ \A i \in 0..Len(q) : g[i] = f[i]
  BY <1>1, <1>2 DEF Sums
<1> HIDE DEF g
<1>4. ASSUME NEW i \in 1..(Len(q) + 1) PROVE g[i] = g[i - 1] + Cost[Append(q, u)[i]]
  <2>1. CASE i = Len(q) + 1
    BY <1>1, <1>3, <2>1
  <2>2. CASE i \in 1..Len(q)
    <3>1. i - 1 \in 0..Len(q) /\ i \in 0..Len(q)
      BY <1>1, <2>2
    <3> QED BY <1>1, <1>2, <1>3, <2>2, <3>1 DEF Sums
  <2> QED BY <1>1, <2>1, <2>2
<1>5. Sums(Append(q, u), g)
  BY <1>1, <1>3, <1>4 DEF Sums
<1> QED BY <1>1, <1>3, <1>5 DEF Costs

\* A task comes to the head of a queue.
LEMMA CostsCons ==
  ASSUME NEW q \in Seq(Task), NEW u \in Task, NEW k \in Int, Costs(q, k)
  PROVE  Costs(<<u>> \o q, k + Cost[u])
<1>1. /\ Len(q) \in Nat /\ Len(<<u>> \o q) = Len(q) + 1 /\ Cost[u] \in Int
      /\ \A i \in 2..(Len(q) + 1) : (<<u>> \o q)[i] = q[i - 1]
      /\ (<<u>> \o q)[1] = u
  <2>1. <<u>> \in Seq(Task) /\ Len(<<u>>) = 1 /\ <<u>>[1] = u /\ Len(q) \in Nat /\ Cost[u] \in Int
    BY LenProperties, CostType
  <2>2. /\ Len(<<u>> \o q) = Len(<<u>>) + Len(q)
        /\ \A i \in 1..(Len(<<u>>) + Len(q)) : (<<u>> \o q)[i] =
              IF i <= Len(<<u>>) THEN <<u>>[i] ELSE q[i - Len(<<u>>)]
    BY <2>1, ConcatProperties
  <2> QED BY <2>1, <2>2
<1>2. PICK f \in [0..Len(q) -> Int] : Sums(q, f) /\ f[Len(q)] = k
  BY DEF Costs
<1> DEFINE w == <<u>> \o q
           g == [i \in 0..(Len(q) + 1) |-> IF i = 0 THEN 0 ELSE Cost[u] + f[i - 1]]
<1>3. /\ g \in [0..(Len(q) + 1) -> Int] /\ g[0] = 0 /\ g[Len(q) + 1] = k + Cost[u]
      /\ \A i \in 1..(Len(q) + 1) : g[i] = Cost[u] + f[i - 1]
  <2>1. \A i \in 1..(Len(q) + 1) : i - 1 \in 0..Len(q) /\ f[i - 1] \in Int
    BY <1>1, <1>2
  <2>2. g \in [0..(Len(q) + 1) -> Int]
    BY <1>1, <2>1
  <2>3. (Len(q) + 1) - 1 = Len(q) /\ Len(q) + 1 \in 1..(Len(q) + 1) /\ 0 \in 0..(Len(q) + 1)
    BY <1>1
  <2>4. \A i \in 1..(Len(q) + 1) : g[i] = Cost[u] + f[i - 1]
    OBVIOUS
  <2>5. g[Len(q) + 1] = Cost[u] + f[Len(q)]
    BY <2>3, <2>4
  <2> QED BY <1>1, <1>2, <2>2, <2>3, <2>4, <2>5
<1> HIDE DEF g
<1>4. ASSUME NEW i \in 1..(Len(q) + 1) PROVE g[i] = g[i - 1] + Cost[w[i]]
  <2>1. CASE i = 1
    <3>1. g[1] = Cost[u] + f[0] /\ f[0] = 0 /\ w[1] = u /\ i - 1 = 0
      BY <1>1, <1>2, <1>3, <2>1 DEF Sums
    <3> QED BY <1>1, <1>3, <2>1, <3>1
  <2>2. CASE i # 1
    <3>1. /\ i - 1 \in 1..Len(q) /\ i - 1 \in 1..(Len(q) + 1) /\ i \in 2..(Len(q) + 1) /\ (i - 1) - 1 \in 0..Len(q)
      BY <1>1, <2>2
    <3>2. f[i - 1] = f[(i - 1) - 1] + Cost[q[i - 1]] /\ w[i] = q[i - 1] /\ q[i - 1] \in Task
      BY <1>1, <1>2, <3>1, ElementOfSeq DEF Sums
    <3>3. g[i] = Cost[u] + f[i - 1] /\ g[i - 1] = Cost[u] + f[(i - 1) - 1]
      BY <1>3, <3>1
    <3>4. f[(i - 1) - 1] \in Int /\ Cost[q[i - 1]] \in Int
      BY <1>2, <3>1, <3>2, CostType
    <3> HIDE DEF w
    <3> QED BY <1>1, <3>2, <3>3, <3>4
  <2> QED BY <2>1, <2>2
<1>5. Sums(w, g)
  BY <1>1, <1>3, <1>4 DEF Sums
<1> QED BY <1>1, <1>3, <1>5 DEF Costs

\* A task leaves a queue.
LEMMA CostsWithout ==
  ASSUME NEW q \in Seq(Task), NEW u \in Task, NEW k \in Int, Costs(q, k), Has(q, {u})
  PROVE  Costs(Without(q, u), k - Cost[u])
<1> DEFINE w == Without(q, u)
           n == Len(q)
<1>1. n \in Nat /\ Cost[u] \in Int /\ Len(w) = n - 1 /\ w \in Seq(Task)
      /\ \E m \in 1..n : q[m] = u /\ \A i \in 1..Len(w) : w[i] = IF i < m THEN q[i] ELSE q[i + 1]
  <2>1. \E i \in 1..Len(q) : q[i] = u
    BY DEF Has
  <2> QED BY <2>1, WithoutIndex, LenProperties, CostType
<1>2. PICK f \in [0..n -> Int] : Sums(q, f) /\ f[n] = k
  BY DEF Costs
<1> HIDE DEF w, n
<1>3. PICK m \in 1..n : q[m] = u /\ \A i \in 1..(n - 1) : w[i] = IF i < m THEN q[i] ELSE q[i + 1]
  BY <1>1
<1>4. /\ f[0] = 0 /\ \A i \in 1..n : i - 1 \in 0..n /\ i \in 0..n /\ f[i] = f[i - 1] + Cost[q[i]]
      /\ \A i \in 1..n : Cost[q[i]] \in Int
  <2>1. \A i \in 1..n : q[i] \in Task
    BY ElementOfSeq DEF n
  <2> QED BY <1>1, <1>2, <2>1, CostType DEF Sums, n
<1> DEFINE g == [i \in 0..(n - 1) |-> IF i < m THEN f[i] ELSE f[i + 1] - Cost[u]]
<1>5. \A i \in 0..(n - 1) : i \in 0..n /\ i + 1 \in 0..n /\ f[i] \in Int /\ f[i + 1] \in Int
  BY <1>1, <1>2
<1>6. /\ g \in [0..(n - 1) -> Int] /\ g[0] = 0
      /\ \A i \in 0..(n - 1) : g[i] = IF i < m THEN f[i] ELSE f[i + 1] - Cost[u]
  <2>1. g \in [0..(n - 1) -> Int]
    BY <1>1, <1>5
  <2>2. 0 \in 0..(n - 1) /\ 0 < m
    BY <1>1, <1>3
  <2> QED BY <1>4, <2>1, <2>2
<1> HIDE DEF g
<1>7. ASSUME NEW i \in 1..(n - 1) PROVE g[i] = g[i - 1] + Cost[w[i]]
  <2>1. i \in 0..(n - 1) /\ i - 1 \in 0..(n - 1) /\ i \in 1..n /\ i + 1 \in 1..n /\ (i - 1) + 1 = i /\ (i + 1) - 1 = i
    BY <1>1
  <2>2. f[i] = f[i - 1] + Cost[q[i]] /\ f[i + 1] = f[i] + Cost[q[i + 1]]
    BY <1>4, <2>1
  <2> DEFINE a == f[i - 1]  b == f[i]  c == f[i + 1]  x == Cost[q[i]]  y == Cost[q[i + 1]]
  <2>6. a \in Int /\ b \in Int /\ c \in Int /\ x \in Int /\ y \in Int /\ b = a + x /\ c = b + y
    BY <1>2, <1>4, <2>1, <2>2
  <2>3. CASE i < m
    BY <1>3, <1>6, <2>1, <2>2, <2>3
  <2>4. CASE i = m
    <3>1. g[i] = f[i + 1] - Cost[u] /\ g[i - 1] = f[i - 1] /\ w[i] = q[i + 1] /\ q[i] = u
      BY <1>3, <1>6, <2>1, <2>4
    <3>2. g[i] = c - x /\ g[i - 1] = a /\ Cost[w[i]] = y
      BY <3>1
    <3> HIDE DEF a, b, c, x, y
    <3>3. c - x = a + y
      BY <2>6
    <3> QED BY <3>2, <3>3
  <2>5. CASE i > m
    <3>1. g[i] = f[i + 1] - Cost[u] /\ g[i - 1] = f[i] - Cost[u] /\ w[i] = q[i + 1]
      <4>1. ~(i < m) /\ ~(i - 1 < m)
        BY <1>1, <2>5
      <4> QED BY <1>3, <1>6, <2>1, <4>1
    <3>2. g[i] = c - Cost[u] /\ g[i - 1] = b - Cost[u] /\ Cost[w[i]] = y
      BY <3>1
    <3> HIDE DEF a, b, c, x, y
    <3> QED BY <1>1, <2>6, <3>2
  <2> QED BY <1>1, <1>3, <2>3, <2>4, <2>5
<1>8. g[n - 1] = k - Cost[u]
  <2>1. n - 1 \in 0..(n - 1) /\ (n - 1) + 1 = n /\ n \in 1..n
    BY <1>1, <1>3
  <2>2. f[n] = f[n - 1] + Cost[q[n]]
    BY <1>4, <2>1
  <2>3. CASE m = n
    BY <1>1, <1>2, <1>3, <1>5, <1>6, <2>1, <2>2, <2>3
  <2>4. CASE m # n
    BY <1>1, <1>2, <1>3, <1>6, <2>1, <2>4
  <2> QED BY <2>3, <2>4
<1>9. Sums(w, g)
  BY <1>1, <1>6, <1>7 DEF Sums
<1> QED BY <1>1, <1>6, <1>8, <1>9 DEF Costs, w

\* A shredding reports another percentage.  What fails or is given up is taken
\* back in several ways that do not agree (_e_fm_op_rollback).
Undisturbed == Sure /\ op # "srm" /\ faults = 0 /\ skipped = {} /\ ~abort /\ ~crashed

\* The task at the work idler is queued, only a copy has written something, and
\* the progress is the cost of what is not queued any more.
Counted ==
  /\ wcur # NoTask => Has(front, {wcur}) \/ Has(back, {wcur})
  /\ cur.open => wcur # NoTask /\ wcur.act = "copy"
  /\ ~cur.open => cur.pos = 0
  /\ Owe(front, back, total - done + cur.pos)

CountInv == Undisturbed => Counted

LEMMA CountTasks ==
  ASSUME TypeOK, KindsOK, Sure, op # "srm"
  PROVE  /\ op \in {"copy", "remove", "symlink"}
         /\ front \in Seq(Task) /\ back \in Seq(Task)
         /\ total \in Int /\ done \in Int /\ cur.pos \in Int
         /\ \A t : ~(Has(front, {t}) /\ Has(back, {t}))
         /\ \A t \in WorkOf(op) : /\ t \in WorkTask /\ t.act \in {"copy", "stat", "remove", "symlink"}
                                  /\ t.act = "copy" => op = "copy" /\ t = Cp(t.node)
                                  /\ t.act = "remove" => op = "remove"
         /\ \A t \in WorkTask : Unlinked(t) = back
<1>1. op \in {"copy", "remove", "symlink"}
  BY EndTasks
<1>2. front \in Seq(FrontOf(op)) /\ back \in Seq(BackOf(op))
  BY DEF KindsOK
<1>3. FrontOf(op) \subseteq Task /\ BackOf(op) \subseteq Task
  BY KindFacts DEF Task
<1>4. front \in Seq(Task) /\ back \in Seq(Task)
  BY <1>2, <1>3, SeqMonotonic
<1>5. total \in Int /\ done \in Int /\ cur.pos \in Int
  BY DEF TypeOK, DiskOK, WorkOK
<1>6. /\ \A t : Has(front, {t}) => t \in FrontOf(op)
      /\ \A t : Has(back, {t}) => t \in BackOf(op)
  BY <1>2, ElementOfSeq DEF Has
<1>7. \A t \in FrontOf(op) : t \notin BackOf(op)
  <2>1. NoTask \notin FrontOf(op)
    BY KindFacts
  <2> QED BY <1>1, <2>1 DEF FrontOf, BackOf, FrontActs, BackActs, Moves
<1>8. \A t \in WorkOf(op) : /\ t \in WorkTask /\ t.act \in {"copy", "stat", "remove", "symlink"}
                            /\ t.act = "copy" => op = "copy" /\ t = Cp(t.node)
                            /\ t.act = "remove" => op = "remove"
  <2>1. WorkOf(op) \subseteq WorkTask
    BY KindFacts
  <2> QED BY <1>1, <2>1 DEF WorkOf, FrontActs, BackActs, Moves, Cp
<1>9. ASSUME NEW t \in WorkTask PROVE Unlinked(t) = back
  <2> DEFINE u == [act |-> "remove", node |-> t.node]
  <2>1. u \notin BackOf(op)
    <3>1. u \in WorkTask
      BY CostType DEF WorkTask
    <3>2. u # NoTask /\ u.act = "remove"
      BY <3>1, NoTaskAssumption
    <3>3. "remove" \notin BackActs(op)
      BY <1>1 DEF BackActs, Moves
    <3> QED BY <3>2, <3>3 DEF BackOf
  <2> HIDE DEF u
  <2>2. Without(back, u) = back
    BY <1>6, <2>1 DEF Without, Has
  <2> QED BY <2>2 DEF Unlinked, u
<1> QED BY <1>1, <1>4, <1>5, <1>6, <1>7, <1>8, <1>9

\* The task that is done, or given up, leaves one of the halves.
LEMMA OweDequeued ==
  ASSUME TypeOK, KindsOK, Sure, op # "srm", NEW t \in WorkOf(op), Has(front, {t}) \/ Has(back, {t}),
         Finishes(t), NEW k \in Int, Owe(front, back, k)
  PROVE  Owe(front', back', k - Cost[t])
<1>1. front \in Seq(Task) /\ back \in Seq(Task) /\ t \in Task /\ Cost[t] \in Int
  BY CountTasks, CostType
<1>2. front' = Without(front, t) /\ back' = Without(back, t)
  BY DEF Finishes, Dequeues
<1>3. PICK i \in Int, j \in Int : Costs(front, i) /\ Costs(back, j) /\ i + j = k
  BY DEF Owe
<1>4. CASE Has(front, {t})
  <2>1. ~Has(back, {t})
    BY <1>4, CountTasks
  <2>2. Without(back, t) = back
    BY <2>1 DEF Without, Has
  <2>3. Costs(front', i - Cost[t])
    BY <1>1, <1>2, <1>3, <1>4, CostsWithout
  <2>4. i - Cost[t] \in Int /\ (i - Cost[t]) + j = k - Cost[t]
    BY <1>1, <1>3
  <2> QED BY <1>2, <1>3, <2>2, <2>3, <2>4 DEF Owe
<1>5. CASE Has(back, {t})
  <2>1. ~Has(front, {t})
    BY <1>5, CountTasks
  <2>2. Without(front, t) = front
    BY <2>1 DEF Without, Has
  <2>3. Costs(back', j - Cost[t])
    BY <1>1, <1>2, <1>3, <1>5, CostsWithout
  <2>4. j - Cost[t] \in Int /\ i + (j - Cost[t]) = k - Cost[t]
    BY <1>1, <1>3
  <2> QED BY <1>2, <1>3, <2>2, <2>3, <2>4 DEF Owe
<1> QED BY <1>4, <1>5

\* What is pushed is added to the total, and nothing leaves.
LEMMA OwePushed ==
  ASSUME TypeOK, KindsOK, Sure, op # "srm", NEW t \in ScanOf(op), Pushes(t),
         NEW k \in Int, Owe(front, back, k)
  PROVE  /\ total' \in Int /\ Owe(front', back', k + (total' - total))
         /\ \A X : (Has(front, X) => Has(front', X)) /\ (Has(back, X) => Has(back', X))
<1>1. /\ front \in Seq(Task) /\ back \in Seq(Task) /\ op \in {"copy", "remove", "symlink"} /\ total \in Int
      /\ t.node \in Node /\ t.act \in {op, "stat"}
  BY CountTasks, EndTasks DEF Sc
<1>2. PICK i \in Int, j \in Int : Costs(front, i) /\ Costs(back, j) /\ i + j = k
  BY DEF Owe
<1> DEFINE u == [act |-> t.act, node |-> t.node]
<1>3. u \in WorkTask /\ u.act = t.act /\ u.node = t.node
  BY <1>1 DEF WorkTask
<1>4. u \in Task /\ Cost[u] \in Int /\ Cost[u] = IF t.act = "copy" THEN Size[t.node] ELSE ChunkCost
  BY <1>3, CostType
<1>5. ASSUME NEW c \in Int, total' = total + c
      PROVE  /\ total' \in Int /\ i + c \in Int /\ j + c \in Int
             /\ (i + c) + j = k + (total' - total) /\ i + (j + c) = k + (total' - total)
  BY <1>1, <1>2, <1>5
<1>6. CASE t.act \in {"copy", "stat"}
  <2>1. front' = front /\ back' = Append(back, u) /\ total' = total + Cost[u]
    BY <1>4, <1>6 DEF Pushes
  <2> HIDE DEF u
  <2>2. Costs(back', j + Cost[u])
    BY <1>1, <1>2, <1>4, <2>1, CostsAppend
  <2>3. \A X : Has(back, X) => Has(back', X)
    BY <1>1, <2>1, HasAppend
  <2>4. j + Cost[u] \in Int /\ i + (j + Cost[u]) = k + (total' - total) /\ total' \in Int
    BY <1>4, <1>5, <2>1
  <2> QED BY <1>2, <2>1, <2>2, <2>3, <2>4 DEF Owe
<1>7. CASE t.act \in {"remove", "symlink"}
  <2>1. front' = <<u>> \o front /\ back' = back /\ total' = total + Cost[u]
    BY <1>4, <1>7 DEF Pushes
  <2> HIDE DEF u
  <2>2. Costs(front', i + Cost[u])
    BY <1>1, <1>2, <1>4, <2>1, CostsCons
  <2>3. \A X : Has(front, X) => Has(front', X)
    BY <1>1, <2>1, HasCons
  <2>4. i + Cost[u] \in Int /\ (i + Cost[u]) + j = k + (total' - total) /\ total' \in Int
    BY <1>4, <1>5, <2>1
  <2> QED BY <1>2, <2>1, <2>2, <2>3, <2>4 DEF Owe
<1> QED BY <1>1, <1>6, <1>7

LEMMA CountScan ==
  ASSUME TypeOK, KindsOK, Sure, op # "srm", Counted, Scan, ~abort', skipped' = {}
  PROVE  Counted'
<1>1. UNCHANGED <<wcur, cur>>
  BY ScanSteps DEF ScanStep
<1>2. CASE UNCHANGED <<front, back, done, total>>
  BY <1>1, <1>2 DEF Counted
<1>3. CASE ScanPushes
  <2>1. PICK t \in ScanTask : t = ScanCurrent /\ t # NoTask /\ Pushes(t) /\ done' = done
    BY <1>3 DEF ScanPushes, Scans
  <2>2. t \in ScanOf(op)
    BY <2>1, KindTasks
  <2>3. total - done + cur.pos \in Int /\ total \in Int /\ done \in Int /\ cur.pos \in Int
    BY CountTasks
  <2>4. /\ total' \in Int /\ Owe(front', back', (total - done + cur.pos) + (total' - total))
        /\ \A X : (Has(front, X) => Has(front', X)) /\ (Has(back, X) => Has(back', X))
    BY <2>1, <2>2, <2>3, OwePushed DEF Counted
  <2>5. (total - done + cur.pos) + (total' - total) = total' - done' + cur'.pos
    BY <1>1, <2>1, <2>3, <2>4
  <2>6. Owe(front, back, total - done + cur.pos)'
    BY <2>4, <2>5
  <2> QED BY <1>1, <2>4, <2>6 DEF Counted
<1>4. CASE ScanEmpty \/ ScanSleeps \/ ScanHeld
  BY <1>2, <1>4 DEF ScanEmpty, ScanSleeps, ScanHeld, workVars, progVars
<1>5. CASE ScanFails \/ ScanOpens
  BY <1>2, <1>5 DEF ScanFails, ScanOpens, workVars, progVars
<1>6. CASE ScanChild \/ ScanDirRead
  BY <1>2, <1>6 DEF ScanChild, ScanDirRead, workVars, progVars
<1>7. ~ScanAborts
  BY DEF ScanAborts
<1>8. ~ScanGivesUp
  <2> SUFFICES ASSUME ScanGivesUp PROVE FALSE
    OBVIOUS
  <2>1. ScanCurrent \in ScanOf(op) /\ skipped' = skipped \cup Below(ScanCurrent.node)
    BY KindTasks DEF ScanGivesUp
  <2>2. ScanCurrent.node \in Below(ScanCurrent.node)
    BY <2>1, BelowDown DEF ScanOf
  <2> QED BY <2>1, <2>2
<1> QED BY <1>3, <1>4, <1>5, <1>6, <1>7, <1>8 DEF Scan

\* A step of the work idler: the task at hand stays, or is done.
CountSteps ==
  \/ /\ UNCHANGED <<front, back>> /\ wcur' \in {wcur, WorkCurrent}
     /\ cur' = cur \/ (WorkCurrent # NoTask /\ wcur' = WorkCurrent)
     /\ total' - done' + cur'.pos = total - done + cur.pos
     /\ cur'.open => cur.open \/ (WorkCurrent # NoTask /\ wcur' = WorkCurrent /\ wcur'.act = "copy")
     /\ ~cur'.open => cur'.pos = 0
  \/ /\ Finishes(WorkCurrent) /\ WorkCurrent # NoTask
     /\ total' - done' = (total - done + cur.pos) - Cost[WorkCurrent]

LEMMA CountsWork ==
  ASSUME TypeOK, KindsOK, Sure, op # "srm", CopyWhole, Counted, Work, ~abort', skipped' = {},
         op = "remove" => recursed' = {}
  PROVE  CountSteps
<1>1. /\ total \in Int /\ done \in Int /\ cur.pos \in Int /\ ChunkCost \in Int
      /\ cur \in CurType /\ WorkCurrent \in WorkOf(op) \cup {NoTask}
  BY CountTasks, KindTasks, CostType DEF TypeOK, WorkOK, CurType
<1>2. \A t \in WorkTask : WorkCurrent = t /\ t # NoTask =>
        /\ t.act \in {"copy", "stat", "remove", "symlink"} /\ t.node \in Node /\ Size[t.node] \in Int
        /\ Cost[t] = IF t.act = "copy" THEN Size[t.node] ELSE ChunkCost
        /\ t.act = "copy" => op = "copy" /\ t = Cp(t.node)
        /\ Unlinked(t) = back
        /\ t.act # "copy" => ~cur.open
  <2>1. cur.open => wcur # NoTask /\ wcur.act = "copy"
    BY DEF Counted
  <2>2. wcur # NoTask => WorkCurrent = wcur
    BY DEF WorkCurrent
  <2> QED BY <1>1, <2>1, <2>2, CountTasks, CostType
<1>3. ~cur.open => cur.pos = 0
  BY DEF Counted
<1> USE DEF Works, Stays, progVars
<1>4. CASE WorkDropsSeparator \/ WorkFindsNothing \/ WorkSleeps \/ WorkHeld
  BY <1>1, <1>3, <1>4 DEF WorkDropsSeparator, WorkFindsNothing, WorkSleeps, WorkHeld, workVars, CountSteps
<1>5. ~WorkGivesUp /\ ~WorkDeclines /\ ~WorkAborts
  BY SkippedWork DEF WorkAborts
<1>6. CASE WorkAsks
  <2>1. /\ UNCHANGED <<front, back, done, total>> /\ WorkCurrent # NoTask /\ wcur' = WorkCurrent
        /\ ~cur.open /\ cur'.open = cur.open /\ cur'.pos = cur.pos
    BY <1>1, <1>6 DEF WorkAsks, CurType
  <2> QED BY <1>3, <2>1 DEF CountSteps
<1>7. CASE WorkOpens \/ WorkCopiesNothing
  <2>1. /\ UNCHANGED <<front, back, done, total>> /\ WorkCurrent # NoTask /\ wcur' = WorkCurrent
        /\ WorkCurrent.act = "copy" /\ ~cur.open /\ cur'.pos = cur.pos
    BY <1>1, <1>7 DEF WorkOpens, WorkCopiesNothing, CurType
  <2> QED BY <1>3, <2>1 DEF CountSteps
<1>8. CASE WorkCopiesChunk
  <2>1. /\ UNCHANGED <<front, back, total>> /\ WorkCurrent # NoTask /\ wcur' = WorkCurrent
        /\ WorkCurrent.act = "copy" /\ cur.open /\ cur'.open = cur.open /\ cur'.pos = cur.pos + 1 /\ done' = done + 1
    BY <1>1, <1>8 DEF WorkCopiesChunk, Advances, CurType
  <2>2. total' - done' + cur'.pos = total - done + cur.pos
    BY <1>1, <2>1
  <2> QED BY <2>1, <2>2 DEF CountSteps
<1>9. CASE WorkCopiesAtOnce
  <2>1. PICK t \in WorkTask :
          /\ WorkCurrent = t /\ t # NoTask /\ t.act = "copy" /\ ~cur.open /\ Finishes(t)
          /\ done' = done + Size[t.node] /\ total' = total
    BY <1>9 DEF WorkCopiesAtOnce, Advances
  <2>2. Cost[t] = Size[t.node] /\ Size[t.node] \in Int /\ cur.pos = 0
    BY <1>2, <1>3, <2>1
  <2>3. total' - done' = (total - done + cur.pos) - Cost[t]
    BY <1>1, <2>1, <2>2
  <2> QED BY <2>1, <2>3 DEF CountSteps
<1>10. CASE WorkReachesEof
  <2>1. PICK t \in WorkTask :
          /\ WorkCurrent = t /\ t # NoTask /\ t.act = "copy" /\ AtEof(t) /\ Finishes(t) /\ UNCHANGED <<done, total>>
    BY <1>10 DEF WorkReachesEof
  <2>2. t = Cp(t.node) /\ op = "copy" /\ Cost[t] = Size[t.node] /\ Size[t.node] \in Int /\ t.node \in Node
    BY <1>2, <2>1
  <2>3. cur.pos = cur.rd /\ cur.rd <= Size[t.node] /\ cur.rd >= Size[t.node] /\ cur.rd \in Int
    BY <1>1, <2>1, <2>2, CopyAtHand DEF AtEof, CurType
  <2>4. cur.pos = Cost[t]
    BY <2>2, <2>3
  <2>5. total' - done' = (total - done + cur.pos) - Cost[t]
    BY <1>1, <2>1, <2>4
  <2> QED BY <2>1, <2>5 DEF CountSteps
<1>11. CASE WorkFails
  <2>1. PICK t \in WorkTask :
          /\ WorkCurrent = t /\ t # NoTask /\ wcur' = t /\ UNCHANGED <<front, done, total>>
          /\ back' \in {back, Unlinked(t)}
          /\ \/ t.act = "copy" /\ CopyError(t)
             \/ t.act = "remove" /\ RemoveError(t)
             \/ t.act \in {"symlink", "rename"} /\ RelinkError(t)
    BY <1>11 DEF WorkFails
  <2>2. cur'.open = cur.open /\ cur'.pos = cur.pos
    <3>1. CASE CopyError(t)
      BY <1>1, <3>1 DEF CopyError, CurType
    <3>2. CASE RemoveError(t) \/ RelinkError(t)
      BY <1>1, <3>2 DEF RemoveError, RelinkError, CurType
    <3> QED BY <2>1, <3>1, <3>2
  <2>3. back' = back
    BY <1>2, <2>1
  <2> QED BY <1>3, <2>1, <2>2, <2>3 DEF CountSteps
<1>12. CASE WorkStats \/ WorkRemoves \/ WorkSymlinks
  <2>1. PICK t \in WorkTask :
          /\ WorkCurrent = t /\ t # NoTask /\ t.act \in {"stat", "remove", "symlink"} /\ Finishes(t)
          /\ done' = done + ChunkCost /\ total' = total
    <3>1. CASE WorkRemoves
      <4>1. PICK t \in WorkTask :
              /\ WorkCurrent = t /\ t # NoTask /\ t.act = "remove" /\ Finishes(t)
              /\ t.node \in recursed' \/ Advances(ChunkCost)
        BY <3>1 DEF WorkRemoves
      <4>2. op = "remove"
        BY <1>1, <4>1, CountTasks
      <4> QED BY <4>1, <4>2 DEF Advances
    <3>2. CASE WorkStats \/ WorkSymlinks
      BY <3>2 DEF WorkStats, WorkSymlinks, Advances
    <3> QED BY <1>12, <3>1, <3>2
  <2>2. Cost[t] = ChunkCost /\ cur.pos = 0
    BY <1>2, <1>3, <2>1
  <2>3. total' - done' = (total - done + cur.pos) - Cost[t]
    BY <1>1, <2>1, <2>2
  <2> QED BY <2>1, <2>3 DEF CountSteps
<1>13. ~WorkRenames /\ ~WorkWipes /\ ~WorkWipesNothing
  BY <1>2 DEF WorkRenames, WorkWipes, WorkWipesNothing
<1> QED BY <1>4, <1>5, <1>6, <1>7, <1>8, <1>9, <1>10, <1>11, <1>12, <1>13 DEF Work

LEMMA CountWork ==
  ASSUME TypeOK, KindsOK, Sure, op # "srm", CopyWhole, Counted, Work, ~abort', skipped' = {},
         op = "remove" => recursed' = {}
  PROVE  Counted'
<1>1. /\ total \in Int /\ done \in Int /\ cur.pos \in Int
      /\ WorkCurrent \in WorkOf(op) \cup {NoTask} /\ NoTask \notin WorkOf(op)
  BY CountTasks, KindTasks, KindFacts
<1>2. WorkCurrent # NoTask => Has(front, {WorkCurrent}) \/ Has(back, {WorkCurrent})
  BY KindTasks DEF Counted, WorkCurrent
<1>3. CASE /\ UNCHANGED <<front, back>> /\ wcur' \in {wcur, WorkCurrent}
           /\ cur' = cur \/ (WorkCurrent # NoTask /\ wcur' = WorkCurrent)
           /\ total' - done' + cur'.pos = total - done + cur.pos
           /\ cur'.open => cur.open \/ (WorkCurrent # NoTask /\ wcur' = WorkCurrent /\ wcur'.act = "copy")
           /\ ~cur'.open => cur'.pos = 0
  <2>1. cur.open => wcur # NoTask /\ wcur.act = "copy" /\ WorkCurrent = wcur
    BY DEF Counted, WorkCurrent
  <2>2. wcur' # NoTask => Has(front', {wcur'}) \/ Has(back', {wcur'})
    BY <1>2, <1>3 DEF Counted
  <2>3. cur'.open => wcur' # NoTask /\ wcur'.act = "copy"
    BY <1>3, <2>1
  <2>4. Owe(front, back, total - done + cur.pos)'
    BY <1>3 DEF Counted
  <2> QED BY <1>3, <2>2, <2>3, <2>4 DEF Counted
<1>4. CASE /\ Finishes(WorkCurrent) /\ WorkCurrent # NoTask
           /\ total' - done' = (total - done + cur.pos) - Cost[WorkCurrent]
  <2>1. wcur' = NoTask /\ cur' = Fresh
    BY <1>4 DEF Finishes, Dequeues
  <2>2. total - done + cur.pos \in Int /\ Owe(front, back, total - done + cur.pos)
    BY <1>1 DEF Counted
  <2>3. Owe(front', back', (total - done + cur.pos) - Cost[WorkCurrent])
    <3> DEFINE k == total - done + cur.pos
               t == WorkCurrent
    <3>1. k \in Int /\ Owe(front, back, k) /\ t \in WorkOf(op) /\ Finishes(t) /\ (Has(front, {t}) \/ Has(back, {t}))
      BY <1>1, <1>2, <1>4, <2>2
    <3> HIDE DEF k, t
    <3>2. Owe(front', back', k - Cost[t])
      BY <3>1, OweDequeued
    <3> QED BY <3>2 DEF k, t
  <2>4. Cost[WorkCurrent] \in Int /\ ~cur'.open /\ cur'.pos = 0
    BY <1>1, <1>4, <2>1, CostType, CountTasks DEF Fresh
  <2>5. total' - done' + cur'.pos = (total - done + cur.pos) - Cost[WorkCurrent]
    BY <1>1, <1>4, <2>4
  <2>6. Owe(front, back, total - done + cur.pos)'
    BY <2>3, <2>5
  <2> QED BY <2>1, <2>4, <2>6 DEF Counted
<1> QED BY <1>3, <1>4, CountsWork DEF CountSteps

LEMMA CountInit == Init => CountInv
<1> SUFFICES ASSUME Init PROVE Counted
  BY DEF CountInv
<1>1. /\ front = <<>> /\ back = <<>> /\ wcur = NoTask /\ ~cur.open /\ cur.pos = 0
      /\ total - done + cur.pos = 0
  BY DEF Init, Fresh
<1>2. Costs(<<>>, 0) /\ 0 \in Int /\ 0 + 0 = 0
  BY CostsEmpty
<1> QED BY <1>1, <1>2 DEF Counted, Owe

\* What was skipped, or is gone, stays so.
LEMMA SkippedGrow ==
  ASSUME TypeOK, KindsOK, [Next]_vars, Undisturbed'
  PROVE  Undisturbed
<1>1. op' = op /\ (abort => abort') /\ (crashed => crashed') /\ skipped \subseteq skipped'
  <2>1. CASE Exited \/ UNCHANGED vars
    BY <2>1 DEF Exited, vars, mainVars, argVars, ctlVars, passVars, histVars
  <2>2. CASE Main
    BY <2>2 DEF Main, MainLinks, MainRenames, MainGivesUp, MainQueues, MainLoops, mainVars, argVars, passVars,
                ctlVars, histVars
  <2>3. CASE User
    BY <2>3 DEF User, AnswerError, AnswerOverwrite, AbortArrives, mainVars, argVars, passVars, histVars
  <2>4. CASE Scan
    <3>1. op' = op /\ (abort => abort') /\ ~crashed
      BY <2>4, ScanSteps DEF ScanStep, mainVars, argVars, Turn, Running
    <3>2. skipped \subseteq skipped'
      BY <2>4 DEF Scan, ScanEmpty, ScanSleeps, ScanHeld, ScanGivesUp, ScanAborts, ScanFails, ScanOpens, ScanChild,
                  ScanDirRead, ScanPushes, histVars
    <3> QED BY <3>1, <3>2
  <2>5. CASE Work
    <3>1. op' = op /\ (abort => abort') /\ ~crashed
      BY <2>5, WorkSteps DEF WorkStep, mainVars, argVars, Turn, Running
    <3> QED BY <2>5, <3>1, SkippedWork
  <2> QED BY <2>1, <2>2, <2>3, <2>4, <2>5 DEF Next
<1>2. faults' = 0 => faults = 0
  BY FaultsGrow
<1> QED BY <1>1, <1>2, SameOp DEF Undisturbed

LEMMA CountStep ==
  ASSUME TypeOK, IdlerInv, EndInv, CountInv, OrderInv', [Next]_vars
  PROVE  CountInv'
<1> SUFFICES ASSUME Undisturbed' PROVE Counted'
  BY DEF CountInv
<1>1. Undisturbed /\ Counted /\ KindsOK /\ Before
  <2>1. CASE crashed
    <3>1. crashed'
      <4>1. CASE Exited \/ UNCHANGED vars
        BY <2>1, <4>1 DEF Exited, vars, passVars
      <4>2. CASE Main
        BY <2>1, <4>2 DEF Main, MainLinks, MainRenames, MainGivesUp, MainQueues, MainLoops, passVars
      <4>3. CASE User
        BY <2>1, <4>3 DEF User, AnswerError, AnswerOverwrite, AbortArrives, passVars
      <4>4. CASE Scan \/ Work
        BY <2>1, <4>4, ScanSteps, WorkSteps DEF ScanStep, WorkStep, Turn, Running
      <4> QED BY <4>1, <4>2, <4>3, <4>4 DEF Next
    <3> QED BY <3>1 DEF Undisturbed
  <2>2. CASE ~crashed
    <3>1. KindsOK /\ Before
      BY <2>2 DEF IdlerInv
    <3>2. Undisturbed
      BY <3>1, SkippedGrow
    <3> QED BY <3>1, <3>2 DEF CountInv
  <2> QED BY <2>1, <2>2
<1>2. Sure /\ op # "srm" /\ CopyWhole
  BY <1>1 DEF Undisturbed, EndInv
<1>3. ~abort' /\ skipped' = {} /\ faults' = 0
  BY DEF Undisturbed
<1>4. CASE UNCHANGED <<front, back, wcur, cur, done, total>>
  BY <1>1, <1>4 DEF Counted
<1>5. CASE Exited \/ UNCHANGED vars
  BY <1>4, <1>5 DEF Exited, vars, workVars, progVars
<1>6. CASE Main
  <2>1. UNCHANGED <<front, back, wcur, cur>>
    BY <1>1, <1>2, <1>6, MainSure
  <2>2. UNCHANGED <<done, total>>
    BY <1>6 DEF Main, MainLinks, MainRenames, MainGivesUp, MainQueues, MainLoops, progVars
  <2> QED BY <1>4, <2>1, <2>2
<1>7. CASE User
  BY <1>4, <1>7 DEF User, AnswerError, AnswerOverwrite, AbortArrives, workVars, progVars
<1>8. CASE Scan
  BY <1>1, <1>2, <1>3, <1>8, CountScan
<1>9. CASE Work
  <2>1. op' = op
    BY <1>9, WorkSteps DEF WorkStep, mainVars, argVars
  <2>2. op = "remove" => recursed' = {}
    BY <1>3, <2>1 DEF OrderInv, Smooth, Calm
  <2> QED BY <1>1, <1>2, <1>3, <1>9, <2>2, CountWork
<1> QED BY <1>5, <1>6, <1>7, <1>8, <1>9 DEF Next

\* An operation that nothing disturbed and that ends by itself reports that all
\* is done: each task counts what it was announced with, over all its turns
\* (_e_fm_op_update_progress).
THEOREM ProgressIsFull == Spec => [](Sure => FullProgress)
<1>1. TypeOK /\ IdlerInv /\ EndInv /\ CountInv /\ OrderInv' /\ [Next]_vars => CountInv'
  BY CountStep
<1>2. TypeOK /\ IdlerInv /\ EndInv /\ CountInv => (Sure => FullProgress)
  <2> SUFFICES ASSUME TypeOK, EndInv, CountInv, IdlerInv, Sure, EndedNormally, faults = 0, skipped = {}, op # "srm"
               PROVE  done = total
    BY DEF FullProgress
  <2>1. Empty /\ CopyWhole /\ Counted /\ KindsOK
    BY DEF EndedNormally, Ended, EndInv, QuitWhenDone, CountInv, Undisturbed, IdlerInv
  <2>2. total \in Int /\ done \in Int /\ cur.pos = 0
    BY <2>1, CountTasks DEF Empty, CopyWhole, Fresh
  <2>3. PICK i \in Int, j \in Int : Costs(<<>>, i) /\ Costs(<<>>, j) /\ i + j = total - done + cur.pos
    BY <2>1 DEF Counted, Owe, Empty
  <2>4. i = 0 /\ j = 0
    BY <2>3, CostsEmpty
  <2> QED BY <2>2, <2>3, <2>4
<1> QED BY <1>1, <1>2, CountInit, TypeCorrect, IdlersAgree, EndsAgree, OrdersAgree, PTL DEF Spec
=============================================================================
