-------------------------------- MODULE FmOp --------------------------------
(***************************************************************************)
(* The file operation slave of the file manager (e_fm_op.c): a process     *)
(* that copies, moves, removes, shreds, links or renames a list of files.  *)
(* Two idlers of the Ecore main loop share the work.  The scan idler walks *)
(* the arguments and pushes small tasks; the work idler performs the task  *)
(* at the head of the work queue, one atom (a chunk, a system call) at a   *)
(* time.  A failed system call sends a question over stdout and suspends   *)
(* the idlers until the answer arrives on stdin.                           *)
(*                                                                         *)
(* The work queue is kept as its two halves around the NULL separator that *)
(* a move or a secure remove puts into it: new copies go to the head of    *)
(* front, the removes of the copied files right behind the separator, that *)
(* is to the head of back.  Without a separator the queue is front \o back.*)
(***************************************************************************)
EXTENDS Integers, FiniteSets, Sequences

CONSTANTS
  Node,             \* the files and directories under the arguments
  NoNode,           \* the parent of an argument
  NoTask,           \* a NULL list node or task
  Parent,           \* [Node -> Node \cup {NoNode}], the source tree
  Kind,             \* [Node -> FileKind], the st_mode
  Size,             \* [Node -> Nat], the st_size in units of one chunk
  Ops,              \* the operations argv[1] may name
  Args,             \* argv[2..last], a sequence of Node
  ToDirs,           \* whether the last argument is an existing directory
  CrossDev,         \* the nodes that lie on another device than the target
  Exists,           \* the nodes whose target exists before the operation
  Faulty,           \* the system calls that may fail
  MaxFaults,        \* bound on the number of failing system calls
  ErrorAnswers,     \* the answers the user may give to an error
  OverwriteAnswers, \* the answers the user may give to an overwrite question
  MayAbort          \* the user may press abort, or close stdin

FileKind == {"dir", "file", "link", "fifo", "special"}
OpType   == {"copy", "move", "remove", "srm", "symlink", "rename"}
Fault    == {"lstat", "opendir", "make", "open", "read", "write", "flush",
             "remove", "link", "rename", "wipe"}
ErrorAnswer     == {"retry", "ignore", "ignoreAll", "abort"}
OverwriteAnswer == {"yes", "yesAll", "no", "noAll"}

ASSUME TreeAssumption ==
  /\ NoNode \notin Node
  /\ Parent \in [Node -> Node \cup {NoNode}]
  /\ Kind \in [Node -> FileKind]
  /\ Size \in [Node -> Nat]
  /\ \A n \in Node : Parent[n] # NoNode => Kind[Parent[n]] = "dir"

ASSUME ArgsAssumption ==
  /\ Ops \subseteq OpType
  /\ Args \in Seq(Node)
  /\ ToDirs \subseteq BOOLEAN
  /\ CrossDev \subseteq Node
  /\ Exists \subseteq Node
  /\ \A n \in Exists : Parent[n] \in Exists \cup {NoNode}
  /\ \A i, j \in 1..Len(Args) : Args[i] = Args[j] => i = j
  /\ \A i \in 1..Len(Args) : Parent[Args[i]] = NoNode
  /\ FALSE \in ToDirs => Len(Args) = 1

ASSUME UserAssumption ==
  /\ Faulty \subseteq Fault
  /\ MaxFaults \in Nat
  /\ ErrorAnswers \subseteq ErrorAnswer
  /\ OverwriteAnswers \subseteq OverwriteAnswer
  /\ MayAbort \in BOOLEAN

Idler    == {"scan", "work"}
ScanTask == [act: OpType \cup {"stat"}, node: Node]
WorkTask == [act: {"copy", "stat", "remove", "destroy", "symlink", "rename"},
             node: Node]

ASSUME NoTaskAssumption == NoTask \notin ScanTask \cup WorkTask

NbPass    == 3  \* NB_PASS
ChunkCost == 1  \* REMOVECHUNKSIZE, the progress of a task without data

VARIABLES
  op,        \* main(): argv[1]
  toDir,     \* main(): the last argument is an existing directory
  todo,      \* main(): the arguments not yet looked at
  type,      \* main(): the type the next argument gets
  looping,   \* main() has set up the idlers and entered the main loop
  scanq,     \* _e_fm_op_scan_queue
  scur,      \* the static node of the scan idler
  dir,       \* its static iterator is open
  ents,      \* the entries the iterator has not returned yet
  listed,    \* directories whose entries are all queued (task->started)
  slen,      \* st_size of the scan task at scur, 0 before the lstat
  front,     \* _e_fm_op_work_queue before the separator
  sep,       \* _e_fm_op_separator: "none", "live", or "freed" (dangling)
  back,      \* _e_fm_op_work_queue behind the separator
  wcur,      \* the static node of the work idler
  cur,       \* what the task at wcur remembers between two atoms
  link,      \* nodes whose copy (or destroy) task has a task->link
  idlers,    \* the idlers registered with Ecore, oldest first
  left,      \* the idlers still to run in this pass of the main loop
  quit,      \* ecore_main_loop_quit() was called
  crashed,   \* undefined behaviour: nothing is said of what follows
  abort,     \* _e_fm_op_abort
  err,       \* _e_fm_op_scan_error and _e_fm_op_work_error
  overwrite, \* _e_fm_op_overwrite
  errResp,   \* _e_fm_op_error_response
  owResp,    \* _e_fm_op_overwrite_response
  asked,     \* questions sent to the user and not answered yet
  faults,    \* system calls that failed so far
  done,      \* _e_fm_op_done of _e_fm_op_update_progress
  total,     \* _e_fm_op_total
  src,       \* the nodes that exist at the source
  dst,       \* what exists at the target of each node
  wiped,     \* the files overwritten with random data NB_PASS times
  skipped,   \* history: nodes the user gave up or kept, with what is below
  recursed   \* history: directories handed to ecore_file_recursive_rm

argVars  == <<op, toDir>>
mainVars == <<argVars, todo, type, looping>>
scanVars == <<scanq, scur, dir, ents, listed, slen>>
workVars == <<front, sep, back, wcur, cur, link>>
passVars == <<idlers, left, quit, crashed>>
ctlVars  == <<abort, err, overwrite, errResp, owResp>>
askVars  == <<asked, faults>>
progVars == <<done, total>>
diskVars == <<src, dst, wiped>>
histVars == <<skipped, recursed>>
vars == <<mainVars, scanVars, workVars, passVars, ctlVars, askVars, progVars,
          diskVars, histVars>>

-----------------------------------------------------------------------------
(* Helpers.                                                                *)

\* The queue without its first t (eina_list_remove_list of the node of t).
Without(q, t) ==
  IF \E i \in 1..Len(q) : q[i] = t
  THEN LET i == CHOOSE j \in 1..Len(q) : q[j] = t
       IN SubSeq(q, 1, i - 1) \o SubSeq(q, i + 1, Len(q))
  ELSE q

\* n and everything under it in the source tree.
Below(n) ==
  {m \in Node : \A S \in SUBSET Node :
     (n \in S /\ \A x \in Node : Parent[x] \in S => x \in S) => m \in S}

\* The operation is about the arguments and what is under them, no more.
ASSUME NodeAssumption == \A n \in Node : \E i \in 1..Len(Args) : n \in Below(Args[i])

Children(n) == {m \in Node : Parent[m] = n}

\* The directory a target goes into is there.
ParentReady(n) ==
  \A m \in Node : m = Parent[n] => dst[m] \in {"old", "new"}

Fresh == [ovr |-> "none", open |-> FALSE, rd |-> 0, pos |-> 0]

CanFail(f) == f \in Faulty /\ faults < MaxFaults

MainOK ==
  /\ op \in Ops /\ toDir \in ToDirs
  /\ todo \in Seq(Node) /\ type \in OpType /\ looping \in BOOLEAN

ScanOK ==
  /\ scanq \in Seq(ScanTask) /\ scur \in ScanTask \cup {NoTask}
  /\ dir \in BOOLEAN /\ ents \subseteq Node /\ listed \subseteq Node
  /\ slen \in Nat

WorkOK ==
  /\ front \in Seq(WorkTask) /\ sep \in {"none", "live", "freed"}
  /\ back \in Seq(WorkTask \cup {NoTask}) /\ wcur \in WorkTask \cup {NoTask}
  /\ cur \in [ovr: OverwriteAnswer \cup {"none"}, open: BOOLEAN,
              rd: Nat, pos: Nat]
  /\ link \subseteq Node

PassOK ==
  /\ idlers \in Seq(Idler) /\ left \in Seq(Idler)
  /\ quit \in BOOLEAN /\ crashed \in BOOLEAN

CtlOK ==
  /\ abort \in BOOLEAN /\ err \in [Idler -> BOOLEAN] /\ overwrite \in BOOLEAN
  /\ errResp \in ErrorAnswer \cup {"none"}
  /\ owResp \in OverwriteAnswer \cup {"none"}
  /\ asked \in [{"error", "overwrite"} -> Nat] /\ faults \in Nat

DiskOK ==
  /\ done \in Int /\ total \in Int
  /\ src \subseteq Node /\ dst \in [Node -> {"absent", "old", "part", "new"}]
  /\ wiped \subseteq Node /\ skipped \subseteq Node /\ recursed \subseteq Node

TypeOK == MainOK /\ ScanOK /\ WorkOK /\ PassOK /\ CtlOK /\ DiskOK

Init ==
  /\ op \in Ops /\ toDir \in ToDirs
  /\ todo = Args /\ type = op /\ looping = FALSE
  /\ scanq = <<>> /\ scur = NoTask /\ dir = FALSE /\ ents = {} /\ listed = {}
  /\ slen = 0
  /\ front = <<>> /\ back = <<>> /\ wcur = NoTask /\ cur = Fresh /\ link = {}
  /\ sep = IF op = "srm" THEN "live" ELSE "none"
  /\ idlers = <<>> /\ left = <<>> /\ quit = FALSE /\ crashed = FALSE
  /\ abort = FALSE /\ err = [i \in Idler |-> FALSE] /\ overwrite = FALSE
  /\ errResp = "none" /\ owResp = "none"
  /\ asked = [error |-> 0, overwrite |-> 0] /\ faults = 0
  /\ done = 0 /\ total = 0
  /\ src = Node /\ wiped = {}
  /\ dst = [n \in Node |-> IF n \in Exists THEN "old" ELSE "absent"]
  /\ skipped = {} /\ recursed = {}

-----------------------------------------------------------------------------
(* main(): the arguments are examined one by one before the main loop.     *)

\* A rename onto another device becomes a move, for this argument and for all
\* that follow; a move of one file to a file name becomes a rename.
ArgType(n) ==
  CASE type = "rename" /\ toDir /\ n \in CrossDev -> "move"
    [] type = "move" /\ ~toDir                    -> "rename"
    [] OTHER                                      -> type

\* rename() of n takes the whole tree with it.
Renamed(n) ==
  /\ src' = src \ Below(n)
  /\ dst' = [m \in Node |-> IF m \in Below(n) \cap src THEN "new" ELSE dst[m]]
  /\ UNCHANGED wiped

\* symlink() in main() succeeds: no task.  A single argument ends the program.
MainLinks ==
  /\ ~looping /\ todo # <<>> /\ type = "symlink" /\ dst[Head(todo)] = "absent"
  /\ dst' = [dst EXCEPT ![Head(todo)] = "new"]
  /\ todo' = Tail(todo)
  /\ quit' = ~toDir /\ looping' = ~toDir
  /\ UNCHANGED <<argVars, type, scanVars, workVars, idlers, left, crashed,
                 ctlVars, askVars, progVars, src, wiped, histVars>>

\* mvf into a directory: rename() succeeds, no task.
MainRenames ==
  /\ ~looping /\ todo # <<>> /\ type = "rename" /\ toDir
  /\ dst[Head(todo)] = "absent" /\ Head(todo) \notin CrossDev
  /\ Renamed(Head(todo))
  /\ todo' = Tail(todo)
  /\ UNCHANGED <<argVars, type, looping, scanVars, workVars, passVars, ctlVars,
                 askVars, progVars, histVars>>

\* rename() fails and not for the device: main() sends the error and returns,
\* with the tasks queued for earlier arguments never run.
MainGivesUp ==
  /\ ~looping /\ todo # <<>> /\ type = "rename" /\ toDir
  /\ dst[Head(todo)] = "absent" /\ Head(todo) \notin CrossDev
  /\ CanFail("rename") /\ faults' = faults + 1
  /\ err' = [err EXCEPT !["scan"] = TRUE]
  /\ asked' = [asked EXCEPT !.error = @ + 1]
  /\ quit' = TRUE /\ looping' = TRUE
  /\ UNCHANGED <<argVars, todo, type, scanVars, workVars, idlers, left,
                 crashed, abort, overwrite, errResp, owResp, progVars,
                 diskVars, histVars>>

\* Every other argument becomes a scan task; each move adds a separator, and
\* _e_fm_op_separator stays the first.
MainQueues ==
  /\ ~looping /\ todo # <<>>
  /\ LET n == Head(todo)
         t == ArgType(n)
     IN /\ (type = "rename" /\ toDir /\ dst[n] = "absent") => n \in CrossDev
        /\ IF type = "symlink" /\ dst[n] = "absent"
           THEN CanFail("link") /\ faults' = faults + 1
           ELSE UNCHANGED faults
        /\ type' = IF op \in {"remove", "srm"} THEN type ELSE t
        /\ scanq' = Append(scanq, [act |-> t, node |-> n])
        /\ IF t = "move"
           THEN /\ sep' = "live"
                /\ back' = IF sep = "live" THEN Append(back, NoTask) ELSE back
           ELSE UNCHANGED <<sep, back>>
  /\ todo' = Tail(todo)
  /\ UNCHANGED <<argVars, looping, scur, dir, ents, listed, slen, front, wcur,
                 cur, link, passVars, ctlVars, asked, progVars, diskVars,
                 histVars>>

\* _e_fm_op_set_up_idlers() and ecore_main_loop_begin().
MainLoops ==
  /\ ~looping /\ todo = <<>>
  /\ looping' = TRUE /\ idlers' = <<"scan", "work">>
  /\ UNCHANGED <<argVars, todo, type, scanVars, workVars, left, quit, crashed,
                 ctlVars, askVars, progVars, diskVars, histVars>>

Main == MainLinks \/ MainRenames \/ MainGivesUp \/ MainQueues \/ MainLoops

-----------------------------------------------------------------------------
(* The main loop: in one pass every registered idler runs once, in order    *)
(* of registration; stdin is read between passes only; ecore_main_loop_quit *)
(* lets the pass finish.                                                    *)

Due == IF left = <<>> THEN idlers ELSE left

Running == looping /\ ~crashed /\ ~(quit /\ left = <<>>)

Turn(i) ==
  /\ Running /\ Due # <<>> /\ Head(Due) = i
  /\ left' = Tail(Due)

Registered(i) == \E j \in 1..Len(idlers) : idlers[j] = i

\* Mutation of WithIdlers: the work idler is not registered again.
WithIdlersScanOnly(q) ==
  IF \E j \in 1..Len(q) : q[j] = "scan" THEN q ELSE Append(q, "scan")

\* _e_fm_op_set_up_idlers
WithIdlers(q) ==
  LET s == IF \E j \in 1..Len(q) : q[j] = "scan" THEN q ELSE Append(q, "scan")
  IN IF \E j \in 1..Len(s) : s[j] = "work" THEN s ELSE Append(s, "work")

-----------------------------------------------------------------------------
(* _e_fm_op_idler_handle_error: the cases an idler with a task meets first. *)

\* Mutation of Sleeps: an open overwrite question stops nobody.
SleepsOnErrorOnly(e) == ~overwrite /\ err[e] /\ errResp = "none"

\* No response yet: the idler deletes itself until the response is there.
Sleeps(e) ==
  \/ overwrite /\ owResp = "none"
  \/ ~overwrite /\ err[e] /\ errResp = "none"

GivesUp(e) == ~overwrite /\ err[e] /\ errResp \in {"ignore", "ignoreAll"}

\* Mutation of Held: an idler goes on while the other waits.
HeldNever(e) == FALSE

\* The other idler waits for a response.
Held(e) == ~overwrite /\ ~err[e] /\ \E o \in Idler : err[o]

ToldToAbort(e) == ~overwrite /\ err[e] /\ errResp = "abort"

Proceeds(e) == ~Sleeps(e) /\ ~GivesUp(e) /\ ~Held(e)

\* The marks and the response as the idler finds them when it proceeds: an
\* overwrite response clears both marks, a retry its own mark and itself.
Marks(e) ==
  IF overwrite THEN [i \in Idler |-> FALSE] ELSE [err EXCEPT ![e] = FALSE]

Response(e) == IF ~overwrite /\ err[e] THEN "none" ELSE errResp

Cleared(e) == err' = Marks(e) /\ errResp' = Response(e)

\* _e_fm_op_send_error for an error: nothing is sent once the user chose to
\* ignore all errors.
SendsError(e, kind) ==
  /\ err' = [Marks(e) EXCEPT ![e] = TRUE]
  /\ errResp' = Response(e)
  /\ asked' = IF Response(e) = "ignoreAll" THEN asked
              ELSE [asked EXCEPT ![kind] = @ + 1]

-----------------------------------------------------------------------------
(* _e_fm_op_scan_idler.                                                    *)

ScanCurrent ==
  IF scur # NoTask THEN scur
  ELSE IF scanq = <<>> THEN NoTask ELSE Head(scanq)

IsDirScan(t) == t.act \notin {"symlink", "rename"} /\ Kind[t.node] = "dir"

\* Mutation of ScanEmpty: _e_fm_op_scan_idler_p is not reset.
ScanEmptyKeepsIdler ==
  /\ Turn("scan") /\ ScanCurrent = NoTask
  /\ UNCHANGED <<mainVars, scanVars, workVars, idlers, quit, crashed, ctlVars,
                 askVars, progVars, diskVars, histVars>>

ScanEmpty ==
  /\ Turn("scan") /\ ScanCurrent = NoTask
  /\ idlers' = Without(idlers, "scan")
  /\ UNCHANGED <<mainVars, scanVars, workVars, quit, crashed, ctlVars, askVars,
                 progVars, diskVars, histVars>>

ScanSleeps ==
  /\ Turn("scan") /\ ScanCurrent # NoTask /\ Sleeps("scan")
  /\ idlers' = Without(idlers, "scan")
  /\ scur' = ScanCurrent
  /\ UNCHANGED <<mainVars, scanq, dir, ents, listed, slen, workVars, quit,
                 crashed, ctlVars, askVars, progVars, diskVars, histVars>>

ScanHeld ==
  /\ Turn("scan") /\ ScanCurrent # NoTask /\ Held("scan")
  /\ scur' = ScanCurrent
  /\ UNCHANGED <<mainVars, scanq, dir, ents, listed, slen, workVars, idlers,
                 quit, crashed, ctlVars, askVars, progVars, diskVars,
                 histVars>>

\* _e_fm_op_rollback of a scan task t: its cost is taken back, although only
\* the tasks of the work queue were ever added to the total.
ScanRollback(t) ==
  IF t.act = "copy"
  THEN done' = done /\ total' = total - slen
  ELSE done' = done - ChunkCost /\ total' = total - ChunkCost

ScanGivesUp ==
  /\ Turn("scan") /\ ScanCurrent # NoTask /\ GivesUp("scan")
  /\ ScanRollback(ScanCurrent)
  /\ scanq' = Without(scanq, ScanCurrent) /\ scur' = NoTask /\ slen' = 0
  /\ err' = [err EXCEPT !["scan"] = FALSE]
  /\ errResp' = IF errResp = "ignoreAll" THEN errResp ELSE "none"
  /\ skipped' = skipped \cup Below(ScanCurrent.node)
  /\ UNCHANGED <<mainVars, dir, ents, listed, workVars, idlers, quit, crashed,
                 abort, overwrite, owResp, askVars, diskVars, recursed>>

\* The idler ends (ECORE_CALLBACK_CANCEL) but _e_fm_op_scan_idler_p keeps its
\* value, so the work idler still takes it for registered in this last pass.
ScanAborts ==
  /\ Turn("scan") /\ ScanCurrent # NoTask /\ Proceeds("scan")
  /\ abort \/ ToldToAbort("scan")
  /\ abort' = TRUE /\ quit' = TRUE
  /\ err' = IF overwrite THEN [i \in Idler |-> FALSE] ELSE err
  /\ IF ToldToAbort("scan")
     THEN errResp' = "none" /\ ScanRollback(ScanCurrent)
     ELSE UNCHANGED <<errResp, progVars>>
  /\ scur' = ScanCurrent
  /\ UNCHANGED <<mainVars, scanq, dir, ents, listed, slen, workVars, idlers,
                 crashed, overwrite, owResp, askVars, diskVars, histVars>>

\* The idler gets to the task t.
Scans(t) ==
  /\ Turn("scan") /\ ScanCurrent = t /\ t # NoTask
  /\ Proceeds("scan") /\ ~abort /\ ~ToldToAbort("scan")

\* lstat() fails, on a file that is gone or otherwise, or the directory cannot
\* be opened.
ScanFails ==
  \E t \in ScanTask :
    /\ Scans(t) /\ t.act # "stat" /\ ~dir /\ t.node \notin listed
    /\ \/ t.node \notin src /\ UNCHANGED <<slen, faults>>
       \/ t.node \in src /\ CanFail("lstat")
          /\ faults' = faults + 1 /\ UNCHANGED slen
       \/ t.node \in src /\ IsDirScan(t) /\ CanFail("opendir")
          /\ faults' = faults + 1 /\ slen' = Size[t.node]
    /\ SendsError("scan", "error")
    /\ scur' = t
    /\ UNCHANGED <<mainVars, scanq, dir, ents, listed, workVars, idlers, quit,
                   crashed, abort, overwrite, owResp, progVars, diskVars,
                   histVars>>

ScanOpens ==
  \E t \in ScanTask :
    /\ Scans(t) /\ t.act # "stat" /\ ~dir /\ t.node \notin listed
    /\ t.node \in src /\ IsDirScan(t)
    /\ dir' = TRUE /\ ents' = Children(t.node) \cap src
    /\ slen' = Size[t.node] /\ scur' = t
    /\ Cleared("scan")
    /\ UNCHANGED <<mainVars, scanq, listed, workVars, idlers, quit, crashed,
                   abort, overwrite, owResp, askVars, progVars, diskVars,
                   histVars>>

\* Mutations of Queued: always depth first, always breadth first.
QueuedDepthFirst(t, act) == <<t>> \o scanq
QueuedBreadthFirst(t, act) == Append(scanq, t)

\* A remove scans depth first, every other operation breadth first.
Queued(t, act) ==
  IF act = "remove" THEN <<t>> \o scanq ELSE Append(scanq, t)

ScanChild ==
  \E t \in ScanTask, c \in ents :
    /\ Scans(t) /\ t.act # "stat" /\ dir
    /\ scanq' = Queued([act |-> t.act, node |-> c], t.act)
    /\ ents' = ents \ {c}
    /\ scur' = t
    /\ Cleared("scan")
    /\ UNCHANGED <<mainVars, dir, listed, slen, workVars, idlers, quit,
                   crashed, abort, overwrite, owResp, askVars, progVars,
                   diskVars, histVars>>

\* The directory is read: a task for its attributes follows, and the directory
\* itself when the idler meets it again.
ScanDirRead ==
  \E t \in ScanTask :
    /\ Scans(t) /\ t.act # "stat" /\ dir /\ ents = {}
    /\ scanq' = Queued([act |-> "stat", node |-> t.node], t.act)
    /\ listed' = listed \cup {t.node}
    /\ dir' = FALSE /\ scur' = NoTask /\ slen' = 0
    /\ Cleared("scan")
    /\ UNCHANGED <<mainVars, ents, workVars, idlers, quit, crashed, abort,
                   overwrite, owResp, askVars, progVars, diskVars, histVars>>

\* Mutation of LinksRemove: behind the tasks that wait there already.
LinksRemoveLast(n) ==
  IF sep = "live"
  THEN /\ back' = Append(back, [act |-> "remove", node |-> n])
       /\ link' = link \cup {n}
       /\ UNCHANGED crashed
  ELSE crashed' = TRUE /\ UNCHANGED <<back, link>>

\* The second task of a move or secure remove, linked to the first, relative to
\* the separator; once that is freed the insertion is undefined.
LinksRemove(n) ==
  IF sep = "live"
  THEN /\ back' = <<[act |-> "remove", node |-> n]>> \o back
       /\ link' = link \cup {n}
       /\ UNCHANGED crashed
  ELSE crashed' = TRUE /\ UNCHANGED <<back, link>>

\* Mutations of Pushes: the task keeps the type of the scan task, the remove
\* goes before its partner.
PushesScanType(t) ==
  /\ front' = <<t>> \o front
  /\ UNCHANGED <<total, back, link, crashed>>
PushesRemoveFirst(t) ==
  /\ front' = <<[act |-> "remove", node |-> t.node],
                [act |-> "destroy", node |-> t.node]>> \o front
  /\ UNCHANGED <<total, back, link, crashed>>

\* _e_fm_op_scan_atom: the tasks for the work idler.
Pushes(t) ==
  LET n == t.node
      Prepends(a) == front' = <<[act |-> a, node |-> n]>> \o front
      Appends(a)  == back' = Append(back, [act |-> a, node |-> n])
  IN \/ /\ t.act \in {"copy", "stat"}
        /\ total' = total + (IF t.act = "copy" THEN Size[n] ELSE ChunkCost)
        /\ Appends(t.act) /\ UNCHANGED <<front, link, crashed>>
     \/ /\ t.act \in {"remove", "symlink", "rename"}
        /\ total' = total + ChunkCost
        /\ Prepends(t.act) /\ UNCHANGED <<back, link, crashed>>
     \/ /\ t.act \in {"move", "srm"}
        /\ total' = total + Size[n] + ChunkCost
        /\ Prepends(IF t.act = "move" THEN "copy" ELSE "destroy")
        /\ LinksRemove(n)

\* A file is done at its first turn, a directory and its attributes later.
ScanPushes ==
  \E t \in ScanTask :
    /\ Scans(t) /\ ~dir
    /\ t.act = "stat" \/ t.node \in listed
       \/ (t.node \in src /\ ~IsDirScan(t))
    /\ Pushes(t)
    /\ scanq' = Without(scanq, t) /\ scur' = NoTask /\ slen' = 0
    /\ Cleared("scan")
    /\ UNCHANGED <<mainVars, dir, ents, listed, sep, wcur, cur, idlers, quit,
                   abort, overwrite, owResp, askVars, done, diskVars,
                   histVars>>

Scan ==
  \/ ScanEmpty \/ ScanSleeps \/ ScanHeld \/ ScanGivesUp \/ ScanAborts
  \/ ScanFails \/ ScanOpens \/ ScanChild \/ ScanDirRead \/ ScanPushes

-----------------------------------------------------------------------------
(* _e_fm_op_work_idler.                                                    *)

WorkHead ==
  CASE front # <<>>                                -> Head(front)
    [] front = <<>> /\ sep = "live"                -> NoTask
    [] front = <<>> /\ sep # "live" /\ back = <<>> -> NoTask
    [] OTHER                                       -> Head(back)

WorkCurrent == IF wcur # NoTask THEN wcur ELSE WorkHead

WorkQueueEmpty == front = <<>> /\ sep # "live" /\ back = <<>>

\* Mutation of WorkDropsSeparator: the scan idler is not looked at.
WorkDropsSeparatorEarly ==
  /\ Turn("work") /\ WorkCurrent = NoTask
  /\ sep = "live" /\ front = <<>>
  /\ sep' = "freed"
  /\ UNCHANGED <<mainVars, scanVars, front, back, wcur, cur, link, idlers,
                 quit, crashed, ctlVars, askVars, progVars, diskVars,
                 histVars>>

\* Nothing but the separator is left of the first half, and no scan idler is
\* registered: the removes behind it may run.
WorkDropsSeparator ==
  /\ Turn("work") /\ WorkCurrent = NoTask
  /\ sep = "live" /\ front = <<>> /\ ~Registered("scan")
  /\ sep' = "freed"
  /\ UNCHANGED <<mainVars, scanVars, front, back, wcur, cur, link, idlers,
                 quit, crashed, ctlVars, askVars, progVars, diskVars,
                 histVars>>

\* Mutation of WorkFindsNothing: an empty work queue is the end.
WorkFindsNothingLeft ==
  /\ Turn("work") /\ WorkCurrent = NoTask
  /\ ~(sep = "live" /\ front = <<>> /\ ~Registered("scan"))
  /\ quit' = (quit \/ front = <<>>)
  /\ UNCHANGED <<mainVars, scanVars, workVars, idlers, crashed, ctlVars,
                 askVars, progVars, diskVars, histVars>>

WorkFindsNothing ==
  /\ Turn("work") /\ WorkCurrent = NoTask
  /\ ~(sep = "live" /\ front = <<>> /\ ~Registered("scan"))
  /\ quit' = \/ quit
             \/ ~Registered("scan") /\ \A i \in Idler : ~err[i]
             \/ WorkQueueEmpty /\ scanq = <<>>
  /\ UNCHANGED <<mainVars, scanVars, workVars, idlers, crashed, ctlVars,
                 askVars, progVars, diskVars, histVars>>

WorkSleeps ==
  /\ Turn("work") /\ WorkCurrent # NoTask /\ Sleeps("work")
  /\ idlers' = Without(idlers, "work")
  /\ wcur' = WorkCurrent
  /\ UNCHANGED <<mainVars, scanVars, front, sep, back, cur, link, quit,
                 crashed, ctlVars, askVars, progVars, diskVars, histVars>>

WorkHeld ==
  /\ Turn("work") /\ WorkCurrent # NoTask /\ Held("work")
  /\ wcur' = WorkCurrent
  /\ UNCHANGED <<mainVars, scanVars, front, sep, back, cur, link, idlers, quit,
                 crashed, ctlVars, askVars, progVars, diskVars, histVars>>

HasLink(t) == t.act \in {"copy", "destroy"} /\ t.node \in link

\* Mutation of Unlinked: the link task stays queued.
UnlinkedNever(t) == back

\* The queue behind the separator without the link task of t, and the link
\* set without the link of t (_e_fm_op_remove_link_task).
Unlinked(t) ==
  IF HasLink(t) THEN Without(back, [act |-> "remove", node |-> t.node])
  ELSE back
Links(t) == IF HasLink(t) THEN link \ {t.node} ELSE link

\* eina_list_remove_list and _e_fm_op_task_free of the current task, when q is
\* what back becomes otherwise.
Dequeues(t, q) ==
  /\ front' = Without(front, t)
  /\ back' = Without(q, t)
  /\ link' = Links(t)
  /\ wcur' = NoTask /\ cur' = Fresh
  /\ UNCHANGED sep

Finishes(t) == Dequeues(t, back)

\* The task stays where it is, and the idler on it.
Stays(t) == wcur' = t /\ UNCHANGED <<front, sep, back, link>>

\* _e_fm_op_rollback of a work task.
WorkRollback(t) ==
  IF t.act = "copy"
  THEN /\ done' = done - cur.pos
       /\ total' = total - Size[t.node] - (IF HasLink(t) THEN ChunkCost ELSE 0)
  ELSE done' = done - ChunkCost /\ total' = total - ChunkCost

WorkGivesUp ==
  /\ Turn("work") /\ WorkCurrent # NoTask /\ GivesUp("work")
  /\ WorkRollback(WorkCurrent)
  /\ Dequeues(WorkCurrent, Unlinked(WorkCurrent))
  /\ err' = [err EXCEPT !["work"] = FALSE]
  /\ errResp' = IF errResp = "ignoreAll" THEN errResp ELSE "none"
  /\ skipped' = skipped \cup {WorkCurrent.node}
  /\ UNCHANGED <<mainVars, scanVars, idlers, quit, crashed, abort, overwrite,
                 owResp, askVars, diskVars, recursed>>

\* Mutation of WorkAborts: the idler does not quit the main loop.
WorkAbortsOnly ==
  /\ Turn("work") /\ WorkCurrent # NoTask /\ Proceeds("work") /\ abort
  /\ Stays(WorkCurrent)
  /\ UNCHANGED <<mainVars, scanVars, cur, idlers, quit, crashed, ctlVars,
                 askVars, progVars, diskVars, histVars>>

\* With the abort mark a copy rolls back and a shredding stops where it is,
\* both leave the queue; the attributes are still copied; any other task just
\* returns.  Then the main loop quits.
WorkAborts ==
  /\ Turn("work") /\ WorkCurrent # NoTask /\ Proceeds("work")
  /\ abort \/ ToldToAbort("work")
  /\ abort' = TRUE /\ quit' = TRUE
  /\ err' = IF overwrite THEN [i \in Idler |-> FALSE] ELSE err
  /\ errResp' = IF ToldToAbort("work") THEN "none" ELSE errResp
  /\ IF ToldToAbort("work") \/ (WorkCurrent.act = "copy" /\ cur.open)
     THEN WorkRollback(WorkCurrent)
     ELSE /\ done' = IF WorkCurrent.act = "stat" THEN done + ChunkCost ELSE done
          /\ UNCHANGED total
  /\ IF WorkCurrent.act \in {"copy", "destroy", "stat"}
     THEN Finishes(WorkCurrent)
     ELSE Stays(WorkCurrent) /\ UNCHANGED cur
  /\ UNCHANGED <<mainVars, scanVars, idlers, crashed, overwrite, owResp,
                 askVars, diskVars, histVars>>

\* Mutation of Works: the abort mark is not looked at.
WorksOn(t, act) ==
  /\ Turn("work") /\ WorkCurrent = t /\ t # NoTask /\ t.act = act
  /\ Proceeds("work") /\ ~ToldToAbort("work")
  /\ UNCHANGED <<mainVars, scanVars, idlers, quit, crashed, abort>>

\* The idler gets to an atom of the task t, which does act.
Works(t, act) ==
  /\ Turn("work") /\ WorkCurrent = t /\ t # NoTask /\ t.act = act
  /\ Proceeds("work") /\ ~abort /\ ~ToldToAbort("work")
  /\ UNCHANGED <<mainVars, scanVars, idlers, quit, crashed, abort>>

-----------------------------------------------------------------------------
(* _e_fm_op_handle_overwrite.                                              *)

\* task->overwrite: a response read by the idler is stored in the task.
TaskOverwrite == IF overwrite THEN owResp ELSE cur.ovr

Verdict(t) ==
  LET Says(r) == TaskOverwrite = r \/ owResp = r
  IN CASE Says("yesAll") -> "yesAll"
       [] ~Says("yesAll") /\ Says("yes") -> "yes"
       [] ~Says("yesAll") /\ ~Says("yes") /\ Says("no") -> "no"
       [] ~Says("yesAll") /\ ~Says("yes") /\ ~Says("no") /\ Says("noAll")
            -> "noAll"
       [] OTHER -> IF dst[t.node] = "absent" THEN "free" ELSE "ask"

\* Mutation of Consumed: _e_fm_op_overwrite stays set.
ConsumedAnswerOnly(t) ==
  /\ UNCHANGED overwrite
  /\ owResp' = IF Verdict(t) \in {"yes", "no"} THEN "none" ELSE owResp

\* A single yes or no is used up.
Consumed(t) ==
  /\ overwrite' = FALSE
  /\ owResp' = IF Verdict(t) \in {"yes", "no"} THEN "none" ELSE owResp

\* The target may be written.
MayWrite(t) == Verdict(t) \in {"yesAll", "yes", "free"} /\ Consumed(t)

AsksFirst == {"copy", "symlink", "rename"}

\* The target exists: ask, and wait for the response.
WorkAsks ==
  \E t \in WorkTask :
    /\ t.act \in AsksFirst /\ Works(t, t.act) /\ ~cur.open
    /\ Verdict(t) = "ask"
    /\ overwrite' = TRUE
    /\ SendsError("work", "overwrite")
    /\ Stays(t) /\ cur' = [cur EXCEPT !.ovr = TaskOverwrite]
    /\ UNCHANGED <<owResp, faults, progVars, diskVars, histVars>>

\* The response was no: the task is dropped with its link task.
WorkDeclines ==
  \E t \in WorkTask :
    /\ t.act \in AsksFirst /\ Works(t, t.act) /\ ~cur.open
    /\ Verdict(t) \in {"no", "noAll"}
    /\ WorkRollback(t)
    /\ Dequeues(t, Unlinked(t))
    /\ Consumed(t)
    /\ Cleared("work")
    /\ skipped' = skipped \cup {t.node}
    /\ UNCHANGED <<askVars, diskVars, recursed>>

-----------------------------------------------------------------------------
(* The atoms.                                                              *)

\* Mutation of Advances: the progress is added to the wrong sum.
AdvancesTotal(k) == total' = total + k /\ UNCHANGED done

Advances(k) == done' = done + k /\ UNCHANGED total

\* _e_fm_op_copy_dir, _e_fm_op_copy_link, _e_fm_op_copy_fifo: one atom each.
CopiedAtOnce == {"dir", "link", "fifo"}

WorkCopiesAtOnce ==
  \E t \in WorkTask :
    /\ Works(t, "copy") /\ ~cur.open /\ MayWrite(t)
    /\ Kind[t.node] \in CopiedAtOnce
    /\ ParentReady(t.node)
    /\ Kind[t.node] = "link" => t.node \in src
    /\ dst' = [dst EXCEPT ![t.node] = "new"]
    /\ Advances(Size[t.node])
    /\ Finishes(t)
    /\ Cleared("work")
    /\ UNCHANGED <<askVars, src, wiped, histVars>>

\* _e_fm_op_open_files: fopen() truncates the target.
WorkOpens ==
  \E t \in WorkTask :
    /\ Works(t, "copy") /\ ~cur.open /\ MayWrite(t)
    /\ Kind[t.node] = "file" /\ t.node \in src /\ ParentReady(t.node)
    /\ dst' = [dst EXCEPT ![t.node] = "part"]
    /\ Stays(t) /\ cur' = [cur EXCEPT !.open = TRUE, !.ovr = TaskOverwrite]
    /\ Cleared("work")
    /\ UNCHANGED <<askVars, progVars, src, wiped, histVars>>

\* No branch of _e_fm_op_copy_atom matches a socket or a device.
WorkCopiesNothing ==
  \E t \in WorkTask :
    /\ Works(t, "copy") /\ ~cur.open /\ MayWrite(t)
    /\ Kind[t.node] = "special"
    /\ Stays(t) /\ cur' = [cur EXCEPT !.ovr = TaskOverwrite]
    /\ Cleared("work")
    /\ UNCHANGED <<askVars, progVars, diskVars, histVars>>

\* Mutation of AtEof: the last chunk is taken for the end of the file.
AtEofShort(t) == cur.rd + 1 >= Size[t.node]

AtEof(t) == cur.rd >= Size[t.node]

\* _e_fm_op_copy_chunk: one chunk read and written.
WorkCopiesChunk ==
  \E t \in WorkTask :
    /\ Works(t, "copy") /\ cur.open /\ ~AtEof(t)
    /\ Stays(t)
    /\ cur' = [cur EXCEPT !.rd = @ + 1, !.pos = @ + 1, !.ovr = TaskOverwrite]
    /\ Advances(1)
    /\ Cleared("work")
    /\ UNCHANGED <<overwrite, owResp, askVars, diskVars, histVars>>

\* End of file.  The result of fclose() is not looked at: what stdio still had
\* to flush may be lost, as is a chunk whose write failed and was retried.
WorkReachesEof ==
  \E t \in WorkTask, flushed \in BOOLEAN :
    /\ Works(t, "copy") /\ cur.open /\ AtEof(t)
    /\ IF flushed THEN UNCHANGED faults
       ELSE Size[t.node] > 0 /\ CanFail("flush") /\ faults' = faults + 1
    /\ dst' = IF flushed /\ cur.pos = Size[t.node]
              THEN [dst EXCEPT ![t.node] = "new"] ELSE dst
    /\ Finishes(t)
    /\ Cleared("work")
    /\ UNCHANGED <<overwrite, owResp, asked, progVars, src, wiped, histVars>>

\* A copy meets an error, before the files are open or between two chunks; a
\* failed write has already consumed its chunk of the source.
CopyError(t) ==
  \/ /\ ~cur.open /\ MayWrite(t)
     /\ \/ ~ParentReady(t.node) /\ UNCHANGED faults
        \/ Kind[t.node] \in {"file", "link"} /\ t.node \notin src
           /\ UNCHANGED faults
        \/ Kind[t.node] \in CopiedAtOnce /\ CanFail("make")
           /\ faults' = faults + 1
        \/ Kind[t.node] = "file" /\ CanFail("open") /\ faults' = faults + 1
     /\ Kind[t.node] # "special"
     /\ cur' = [cur EXCEPT !.ovr = TaskOverwrite]
  \/ /\ cur.open
     /\ \/ /\ CanFail("read") /\ UNCHANGED cur
        \/ /\ ~AtEof(t) /\ CanFail("write")
           /\ cur' = [cur EXCEPT !.rd = @ + 1]
     /\ faults' = faults + 1
     /\ UNCHANGED <<overwrite, owResp>>

\* unlink() or rmdir() of what is no longer there, or any failure.
RemoveError(t) ==
  /\ \/ t.node \notin src /\ UNCHANGED faults
     \/ t.node \in src /\ CanFail("remove") /\ faults' = faults + 1
  /\ UNCHANGED <<cur, overwrite, owResp>>

RelinkError(t) ==
  /\ MayWrite(t)
  /\ \/ t.act = "rename" /\ t.node \notin src /\ UNCHANGED faults
     \/ t.act = "rename" /\ t.node \in src /\ CanFail("rename")
        /\ faults' = faults + 1
     \/ t.act = "symlink" /\ CanFail("link") /\ faults' = faults + 1
  /\ cur' = [cur EXCEPT !.ovr = TaskOverwrite]

\* Sending the error drops the link task, unless an overwrite is pending.
WorkFails ==
  \E t \in WorkTask :
    /\ Works(t, t.act)
    /\ \/ t.act = "copy" /\ CopyError(t)
       \/ t.act = "remove" /\ RemoveError(t)
       \/ t.act \in {"symlink", "rename"} /\ RelinkError(t)
    /\ SendsError("work", "error")
    /\ back' = IF overwrite' THEN back ELSE Unlinked(t)
    /\ link' = IF overwrite' THEN link ELSE Links(t)
    /\ wcur' = t
    /\ UNCHANGED <<front, sep, progVars, diskVars, histVars>>

\* _e_fm_op_copy_stat_info_atom.
WorkStats ==
  \E t \in WorkTask :
    /\ Works(t, "stat")
    /\ Advances(ChunkCost)
    /\ Finishes(t)
    /\ Cleared("work")
    /\ UNCHANGED <<overwrite, owResp, askVars, diskVars, histVars>>

\* _e_fm_op_remove_atom.  A directory that is not empty goes with everything
\* that is left in it, and without counting as progress.
WorkRemoves ==
  \E t \in WorkTask :
    /\ Works(t, "remove") /\ t.node \in src
    /\ IF Children(t.node) \cap src = {}
       THEN /\ src' = src \ {t.node}
            /\ Advances(ChunkCost) /\ UNCHANGED recursed
       ELSE /\ src' = src \ Below(t.node)
            /\ recursed' = recursed \cup {t.node} /\ UNCHANGED progVars
    /\ Finishes(t)
    /\ Cleared("work")
    /\ UNCHANGED <<overwrite, owResp, askVars, dst, wiped, skipped>>

\* Mutation of WorkSymlinks: the old target is unlinked and not replaced.
WorkSymlinksUnlinks ==
  \E t \in WorkTask :
    /\ Works(t, "symlink") /\ MayWrite(t)
    /\ dst' = [dst EXCEPT ![t.node] = IF @ = "old" THEN "absent" ELSE "new"]
    /\ Advances(ChunkCost)
    /\ Finishes(t)
    /\ Cleared("work")
    /\ UNCHANGED <<askVars, src, wiped, histVars>>

\* _e_fm_op_symlink_atom.
WorkSymlinks ==
  \E t \in WorkTask :
    /\ Works(t, "symlink") /\ MayWrite(t)
    /\ dst' = [dst EXCEPT ![t.node] = "new"]
    /\ Advances(ChunkCost)
    /\ Finishes(t)
    /\ Cleared("work")
    /\ UNCHANGED <<askVars, src, wiped, histVars>>

\* _e_fm_op_rename_atom.
WorkRenames ==
  \E t \in WorkTask :
    /\ Works(t, "rename") /\ MayWrite(t) /\ t.node \in src
    /\ Renamed(t.node)
    /\ Advances(ChunkCost)
    /\ Finishes(t)
    /\ Cleared("work")
    /\ UNCHANGED <<askVars, histVars>>

\* _e_fm_op_destroy_atom: one buffer of random data, NB_PASS times over.  What
\* is no regular file, and any system call that fails, ends the task silently.
WipeWrites(n) == NbPass * (IF Size[n] = 0 THEN 1 ELSE Size[n])

WorkWipes ==
  \E t \in WorkTask :
    /\ Works(t, "destroy")
    /\ Kind[t.node] = "file" /\ t.node \in src
    /\ IF cur.pos + 1 < WipeWrites(t.node)
       THEN /\ Stays(t) /\ cur' = [cur EXCEPT !.pos = @ + 1]
            /\ UNCHANGED wiped
       ELSE /\ Finishes(t) /\ wiped' = wiped \cup {t.node}
    /\ Cleared("work")
    /\ UNCHANGED <<overwrite, owResp, askVars, progVars, src, dst, histVars>>

WorkWipesNothing ==
  \E t \in WorkTask :
    /\ Works(t, "destroy")
    /\ IF Kind[t.node] = "file" /\ t.node \in src
       THEN CanFail("wipe") /\ faults' = faults + 1 ELSE UNCHANGED faults
    /\ Finishes(t)
    /\ Cleared("work")
    /\ UNCHANGED <<overwrite, owResp, asked, progVars, diskVars, histVars>>

Work ==
  \/ WorkDropsSeparator \/ WorkFindsNothing \/ WorkSleeps \/ WorkHeld
  \/ WorkGivesUp \/ WorkAborts \/ WorkAsks \/ WorkDeclines
  \/ WorkCopiesAtOnce \/ WorkOpens \/ WorkCopiesNothing \/ WorkCopiesChunk
  \/ WorkReachesEof \/ WorkFails \/ WorkStats \/ WorkRemoves \/ WorkSymlinks
  \/ WorkRenames \/ WorkWipes \/ WorkWipesNothing

-----------------------------------------------------------------------------
(* _e_fm_op_stdin_data: what the user sends, read between two passes.      *)

Reads == Running /\ left = <<>> /\ ~quit

AnswerError ==
  /\ Reads /\ asked.error > 0
  /\ errResp' \in ErrorAnswers
  /\ asked' = [asked EXCEPT !.error = @ - 1]
  /\ idlers' = WithIdlers(idlers)
  /\ UNCHANGED <<mainVars, scanVars, workVars, left, quit, crashed, abort, err,
                 overwrite, owResp, faults, progVars, diskVars, histVars>>

AnswerOverwrite ==
  /\ Reads /\ asked.overwrite > 0
  /\ owResp' \in OverwriteAnswers
  /\ asked' = [asked EXCEPT !.overwrite = @ - 1]
  /\ idlers' = WithIdlers(idlers)
  /\ UNCHANGED <<mainVars, scanVars, workVars, left, quit, crashed, abort, err,
                 overwrite, errResp, faults, progVars, diskVars, histVars>>

\* The abort message, or stdin closed: only the mark is set.
AbortArrives ==
  /\ Reads /\ MayAbort /\ ~abort
  /\ abort' = TRUE
  /\ UNCHANGED <<mainVars, scanVars, workVars, passVars, err, overwrite,
                 errResp, owResp, askVars, progVars, diskVars, histVars>>

User == AnswerError \/ AnswerOverwrite \/ AbortArrives

\* The process is gone.
Exited == looping /\ ~Running /\ UNCHANGED vars

Next == Main \/ Scan \/ Work \/ User \/ Exited

Spec == Init /\ [][Next]_vars

\* Ecore calls every registered idler in every idle pass.
LoopSpec == Spec /\ WF_vars(Main) /\ WF_vars(Scan \/ Work)

\* The user, too, answers what is asked, and does not answer retry for ever.
\* Nobody has to press abort.
FairSpec ==
  /\ LoopSpec
  /\ WF_vars(AnswerError) /\ WF_vars(AnswerOverwrite)
  /\ SF_vars(AnswerError /\ errResp' # "retry")

-----------------------------------------------------------------------------
(* Properties.                                                             *)

\* The process ended by ecore_main_loop_quit().
Ended == looping /\ quit /\ left = <<>> /\ ~crashed

\* It ended because there was nothing left to do.
EndedNormally == Ended /\ ~abort /\ \A i \in Idler : ~err[i]

\* A move or rename never leaves a file nowhere: what is gone from the source
\* is whole at the target (the copy and its link task, _e_fm_op_scan_atom).
NothingLost ==
  op \in {"move", "rename"} => \A n \in Node \ src : dst[n] = "new"

\* What a move or rename loses nevertheless it lost to a recursive remove of a
\* directory whose rmdir() failed (_e_fm_op_remove_atom).
LostOnlyBelowRecursed ==
  op \in {"move", "rename"} =>
    \A n \in Node \ src : dst[n] = "new" \/ \E m \in recursed : n \in Below(m)

\* A secure remove has overwritten every file it removed.
ShreddedFirst ==
  op = "srm" => \A n \in Node \ src : Kind[n] = "file" => n \in wiped

\* When the operation ends by itself, everything the user did not skip has been
\* dealt with: whole at the target, gone from the source, or both.
AllDone ==
  EndedNormally =>
    \A n \in Node \ UNION {Below(m) : m \in skipped} :
      /\ op \in {"copy", "move", "rename"} => dst[n] = "new"
      /\ op \in {"remove", "srm", "move", "rename"} => n \notin src
      /\ (op = "symlink" /\ \E i \in 1..Len(Args) : Args[i] = n)
           => dst[n] = "new"

\* The work idler is only ever unregistered while the user has a question to
\* answer, otherwise nothing would ever register it again.
SleepsOnlyOnQuestion ==
  (Running /\ ~quit /\ ~Registered("work"))
    => asked.error + asked.overwrite > 0

\* The user never faces two questions at once: the answer to one would be taken
\* for the answer to the other.
OneQuestion == asked.error + asked.overwrite <= 1

\* An operation whose system calls all succeed asks nothing but overwrites: no
\* child is copied before its directory, no file removed twice.
NoSpuriousError == (faults = 0 /\ ~overwrite) => \A i \in Idler : ~err[i]

\* rmdir() finds its directory empty ("This should never happen due to way
\* tasks are added to the work queue").
RmdirFindsEmpty == recursed = {}

\* An undisturbed operation ends with the progress at 100%, a secure remove
\* apart: _e_fm_op_destroy_atom reports a percentage of its own for each file
\* and never adds to _e_fm_op_done what was added to _e_fm_op_total.
FullProgress ==
  (EndedNormally /\ faults = 0 /\ skipped = {} /\ op # "srm")
    => done = total

\* Nothing is removed from the source of a move while a copy is outstanding
\* ("they will be performed before the delete tasks").
RemovesComeLast ==
  [][(type = "move" /\ WorkRemoves)
       => /\ scanq = <<>>
          /\ \A i \in 1..Len(front) : front[i].act # "copy"]_vars

\* Once the abort mark is set neither the source nor the target is touched.
AbortFreezesFiles == [][abort => UNCHANGED diskVars]_vars

\* The operation ends, if the user answers.
Terminates == <>Ended

\* An abort ends the operation.
AbortEnds == abort ~> Ended

=============================================================================
