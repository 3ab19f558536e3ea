------------------------------- MODULE FmView -------------------------------
(***************************************************************************)
(* How a file manager view gets to show what is in a directory.  The view  *)
(* (e_fm.c) asks the daemon (e_fm_ipc.c) to list and watch the directory;  *)
(* the daemon sends the names in bursts, each confirmed by the view, and   *)
(* then whatever the kernel tells it of later changes.  The view collects  *)
(* icons in a queue, from which timers and idlers move them to the icons   *)
(* that are shown; changes that arrive while it is listing wait in a list  *)
(* of live actions.  Every request has a new identifier, by which the view *)
(* tells the messages of its present directory from those of earlier ones. *)
(*                                                                         *)
(* A file has a version, a new one each time it is created or written, and *)
(* an icon the version of the file that it was filled from.                *)
(***************************************************************************)
EXTENDS Integers, SequencesExt, FiniteSetsExt

CONSTANTS
  View,        \* file manager views
  Dir, NoDir,  \* directories, and the path of a view that is not open
  File,        \* names of files
  Order,       \* the name .order
  Bounds,      \* what a directory may hold, which views there are, and how many
               \* changes of the directories and moves of the user: one of these
  Slow         \* whether _e_fm2_queue_process may run out of time

Name == File \cup {Order}

ASSUME ViewAssumption ==
  /\ NoDir \notin Dir /\ Order \notin File
  /\ Bounds \subseteq [there : SUBSET SUBSET Name, views : SUBSET View, changes : Nat, moves : Nat]
  /\ Slow \in BOOLEAN

VARIABLES
  files,     \* the version of each file of each directory, 0 if there is none
  events,    \* what the kernel has told the daemon and it has not yet read
  eds,       \* the directories the daemon has, by the identifier of the request
  watched,   \* directories that have a monitor
  toDaemon, toWm,
  view,      \* E_Fm2_Smart_Data of each view
  last,      \* id of _e_fm_client_send_new
  bound,     \* the member of Bounds that is in force
  changes, moves  \* what it bounds

daemonVars == <<files, events, eds, watched, changes, bound>>
vars == <<daemonVars, toDaemon, toWm, view, last, moves>>

Nothing == [f \in File |-> <<>>]

Closed ==
  [path |-> NoDir, id |-> 0, listing |-> FALSE, order |-> FALSE, queue |-> Nothing, icons |-> Nothing,
   scan |-> FALSE, sort |-> FALSE, busy |-> 0, live |-> <<>>, idler |-> FALSE, timer |-> FALSE,
   mishaps |-> {}]

Init ==
  /\ bound \in Bounds /\ changes = 0
  /\ files \in [Dir -> {[f \in Name |-> IF f \in names THEN 1 ELSE 0] : names \in bound.there}]
  /\ events = <<>> /\ eds = <<>> /\ watched = {}
  /\ toDaemon = <<>> /\ toWm = <<>>
  /\ view = [v \in View |-> Closed] /\ last = 0 /\ moves = 0

Req(op, id, dir) == [op |-> op, id |-> id, dir |-> dir]
Msg(op, id, file, ver, response) ==
  [op |-> op, id |-> id, file |-> file, ver |-> ver, response |-> response]

-----------------------------------------------------------------------------
(* Other programs change the directories; the kernel tells the daemon of   *)
(* those that are watched.                                                 *)

Change(d, f, ver, event) ==
  /\ changes < bound.changes /\ changes' = changes + 1
  /\ files' = [files EXCEPT ![d][f] = ver]
  /\ events' = IF d \in watched THEN Append(events, [op |-> event, dir |-> d, file |-> f]) ELSE events
  /\ UNCHANGED <<eds, watched, toDaemon, toWm, view, last, moves, bound>>

Create(d, f) == files[d][f] = 0 /\ Change(d, f, changes + 2, "add")
Write(d, f)  == files[d][f] # 0 /\ Change(d, f, changes + 2, "change")
Delete(d, f) == files[d][f] # 0 /\ Change(d, f, 0, "del")

-----------------------------------------------------------------------------
(* The daemon.                                                             *)

DaemonStep == UNCHANGED <<view, last, moves, files, changes, bound>>

\* _e_fm_ipc_file_add_mod: a file that is no more is not sent
Sent(op, id, fs, response) ==
  LET d == eds[id].dir
      there == {f \in fs : files[d][f] # 0}
  IN [i \in 1..Cardinality(there) |->
        LET f == SetToSeq(there)[i] IN Msg(op, id, f, files[d][f], response)]

EndOfList(id) == <<Msg("add", id, "", 0, 2)>>

Listed == {id \in DOMAIN eds : eds[id].listed}

\* the first listed directory that has a monitor of its own
Previous(d) == {id \in Listed : eds[id].dir = d /\ eds[id].real = 0}

\* _e_fm_ipc_monitor_start_try
MonitorStart ==
  /\ toDaemon # <<>> /\ Head(toDaemon).op = "start"
  /\ toDaemon' = Tail(toDaemon)
  /\ LET id == Head(toDaemon).id
         d == Head(toDaemon).dir
         fq == {f \in File : files[d][f] # 0}
         ped == IF Previous(d) = {} THEN 0 ELSE CHOOSE p \in Previous(d) : \A q \in Previous(d) : p <= q
         dotOrder == files[d][Order] # 0
         ed == [dir |-> d, fq |-> fq, idler |-> TRUE, waits |-> FALSE, listed |-> TRUE, freed |-> FALSE,
                real |-> ped, refs |-> IF ped = 0 THEN 1 ELSE 0, recent |-> <<>>]
     IN /\ eds' = Append(IF ped = 0 THEN eds ELSE [eds EXCEPT ![ped].refs = @ + 1], ed)
        /\ watched' = IF ped = 0 THEN watched \cup {d} ELSE watched
        /\ toWm' = toWm
             \o (IF dotOrder THEN <<Msg("add", id, Order, 0, IF Cardinality(fq) = 1 THEN 2 ELSE 1)>> ELSE <<>>)
             \o (IF fq = {} THEN EndOfList(id) ELSE <<>>)
  /\ UNCHANGED events /\ DaemonStep

DirDel(ed) == [ed EXCEPT !.freed = TRUE, !.idler = FALSE, !.fq = {}, !.recent = <<>>]
Unref(ed) == IF ed.refs = 1 THEN DirDel([ed EXCEPT !.refs = 0]) ELSE [ed EXCEPT !.refs = @ - 1]

\* _e_fm_ipc_monitor_end: a directory whose monitor others use leaves the list
\* and lives on
MonitorEnd ==
  /\ toDaemon # <<>> /\ Head(toDaemon).op = "end"
  /\ toDaemon' = Tail(toDaemon)
  /\ LET id == Head(toDaemon).id
         real == eds[id].real
     IN eds' = IF real = 0
               THEN [eds EXCEPT ![id] = [Unref(@) EXCEPT !.listed = FALSE]]
               ELSE [eds EXCEPT ![real] = Unref(@), ![id] = [DirDel(@) EXCEPT !.listed = FALSE]]
  /\ UNCHANGED <<toWm, events, watched>> /\ DaemonStep

\* the view has taken a burst; the number that is compared is the one of the
\* directory's last burst
MonitorSync ==
  /\ toDaemon # <<>> /\ Head(toDaemon).op = "sync"
  /\ toDaemon' = Tail(toDaemon)
  /\ LET id == Head(toDaemon).id IN
       eds' = IF id \in Listed /\ eds[id].fq # {} /\ eds[id].waits
              THEN [eds EXCEPT ![id].idler = TRUE] ELSE eds
  /\ UNCHANGED <<toWm, events, watched>> /\ DaemonStep

\* _e_fm_ipc_cb_file_mon_list_idler: a burst of some files; when it is not cut
\* by sync_num the list has ended
ListIdler(id) ==
  /\ eds[id].idler
  /\ \E burst \in SUBSET eds[id].fq, cut \in BOOLEAN :
       /\ cut => burst # {}
       /\ ~cut => burst = eds[id].fq
       /\ eds' = [eds EXCEPT ![id].idler = FALSE, ![id].fq = @ \ burst, ![id].waits = cut]
       /\ toWm' = toWm \o Sent("add", id, burst, 1)
                    \o (IF cut THEN <<Msg("sync", id, "", 0, 0)>> ELSE <<>>)
                    \o (IF burst = eds[id].fq THEN EndOfList(id) ELSE <<>>)
  /\ UNCHANGED <<toDaemon, events, watched>> /\ DaemonStep

\* what each directory is told of a change
Relayed(op, ids, f) ==
  FoldLeft(LAMBDA ms, id : ms \o (IF op = "del" THEN <<Msg("del", id, f, 0, 0)>> ELSE Sent(op, id, {f}, 0)),
           <<>>, SetToSortSeq(ids, <))

\* _e_fm_ipc_cb_file_monitor, for what is created and deleted
FileMonitor ==
  /\ events # <<>> /\ Head(events).op # "change"
  /\ LET e == Head(events) IN
       toWm' = toWm \o Relayed(e.op, {id \in Listed : eds[id].dir = e.dir}, e.file)
  /\ events' = Tail(events)
  /\ UNCHANGED <<toDaemon, eds, watched>> /\ DaemonStep

\* the same for a file that was written, which is put off if it was written a
\* moment ago: of recent_mods those from the k-th on are young
FileModified ==
  /\ events # <<>> /\ Head(events).op = "change"
  /\ LET f == Head(events).file
         ids == {id \in Listed : eds[id].dir = Head(events).dir}
         longest == Max({Len(eds[id].recent) : id \in ids} \cup {0})
     IN \E k \in [ids -> 1..longest + 1] :
          LET Young(id, i) == i >= k[id] /\ eds[id].recent[i].file = f
              skip == {id \in ids : \E i \in DOMAIN eds[id].recent : Young(id, i)}
              PutOff(id) == [i \in DOMAIN eds[id].recent |->
                               [eds[id].recent[i] EXCEPT !.done = @ /\ ~Young(id, i)]]
          IN /\ eds' = [id \in DOMAIN eds |->
                          IF id \notin ids THEN eds[id]
                          ELSE [eds[id] EXCEPT !.recent =
                                  IF id \in skip THEN PutOff(id)
                                  ELSE Append(@, [file |-> f, done |-> TRUE])]]
             /\ toWm' = toWm \o Relayed("change", ids \ skip, f)
  /\ events' = Tail(events)
  /\ UNCHANGED <<toDaemon, watched>> /\ DaemonStep

\* _e_fm_ipc_cb_recent_clean, for the oldest one
RecentClean(id) ==
  /\ eds[id].recent # <<>>
  /\ eds' = [eds EXCEPT ![id].recent = Tail(@)]
  /\ LET m == Head(eds[id].recent) IN
       toWm' = IF m.done THEN toWm ELSE toWm \o Sent("change", id, {m.file}, 0)
  /\ UNCHANGED <<toDaemon, events, watched>> /\ DaemonStep

-----------------------------------------------------------------------------
(* The view: its queue and its live actions.  Mishaps are what the code is *)
(* known to get wrong: they are history.                                   *)

Queued(w) == {f \in File : w.queue[f] # <<>>}

\* _e_fm2_queue_process: what it moves before it gives up
Batches(w) ==
  IF Queued(w) = {} THEN {{}} ELSE IF Slow THEN SUBSET Queued(w) \ {{}} ELSE {Queued(w)}
Processed(w, batch) ==
  [w EXCEPT !.icons = [f \in File |-> IF f \in batch THEN @[f] \o w.queue[f] ELSE @[f]],
            !.queue = [f \in File |-> IF f \in batch THEN <<>> ELSE @[f]]]

\* (mutant: live actions are not put off until the listing has ended)
LiveBeginAtOnce(w) ==
  IF w.live = <<>> \/ w.idler \/ w.timer THEN w ELSE [w EXCEPT !.idler = TRUE, !.timer = TRUE]

LiveBegin(w) ==
  IF w.live = <<>> \/ w.idler \/ w.timer \/ w.listing \/ w.scan
  THEN w ELSE [w EXCEPT !.idler = TRUE, !.timer = TRUE]

\* (mutant: what was put off is not begun)
ListEndOnly(w) ==
  [w EXCEPT !.busy = @ - 1, !.scan = FALSE, !.sort = FALSE, !.queue = Nothing,
            !.mishaps = IF Queued(w) = {} THEN @ ELSE @ \cup {"cut"}]

\* _e_fm2_client_monitor_list_end: what is still queued is freed
ListEnd(w) ==
  LiveBegin([w EXCEPT !.busy = @ - 1, !.scan = FALSE, !.sort = FALSE, !.queue = Nothing,
                      !.mishaps = IF Queued(w) = {} THEN @ ELSE @ \cup {"cut"}])

\* _e_fm2_file_add
FileAdd(w, f, ver, unique) ==
  IF unique /\ (w.icons[f] # <<>> \/ w.queue[f] # <<>>) THEN w
  ELSE [w EXCEPT !.queue[f] = Append(@, ver)]

\* _e_fm2_file_del and FILE_CHANGE look for the icon where it is shown only
Missed(w, f) ==
  IF w.icons[f] = <<>> /\ w.queue[f] # <<>> THEN [w EXCEPT !.mishaps = @ \cup {"missed"}] ELSE w
FileDel(w, f) == [Missed(w, f) EXCEPT !.icons[f] = IF @ = <<>> THEN @ ELSE Tail(@)]
FileChange(w, f, ver) ==
  [Missed(w, f) EXCEPT !.icons[f] = IF @ = <<>> THEN @ ELSE <<ver>> \o Tail(@)]

\* _e_fm2_live_process, for one action
Lived(w, a) ==
  LET u == [w EXCEPT !.live = Tail(@), !.mishaps = IF a.id = w.id THEN @ ELSE @ \cup {"mixed"}]
  IN CASE a.op = "add"    -> IF a.file = Order THEN [u EXCEPT !.order = TRUE] ELSE FileAdd(u, a.file, a.ver, TRUE)
       [] a.op = "del"    -> IF a.file = Order THEN [u EXCEPT !.order = FALSE] ELSE FileDel(u, a.file)
       [] a.op = "change" -> IF a.file = Order THEN u ELSE FileChange(u, a.file, a.ver)
       [] OTHER           -> u

-----------------------------------------------------------------------------
(* e_fm2_client_data: the view with the identifier of a message takes it.  *)

Taken == [op |-> Head(toWm).op, resp |-> Head(toWm).response]
TakenBy(becomes) ==
  /\ toWm' = Tail(toWm)
  /\ view' = [v \in View |-> IF view[v].path # NoDir /\ view[v].id = Head(toWm).id
                             THEN becomes[v] ELSE view[v]]
  /\ UNCHANGED <<daemonVars, last, moves>>

\* a name of the listing; with an order and one other file the listing is taken
\* to end before that file has come
ListingAdd(w, m) ==
  LET known == IF w.listing THEN w ELSE [w EXCEPT !.mishaps = @ \cup {"late"}]
      scanned == IF w.scan THEN known ELSE [known EXCEPT !.scan = TRUE, !.busy = @ + 1]
      added == IF m.file = Order THEN [scanned EXCEPT !.order = TRUE]
               ELSE FileAdd(scanned, m.file, m.ver, scanned.order)
  IN IF m.response = 2 THEN [added EXCEPT !.listing = FALSE] ELSE added

FileListed ==
  /\ toWm # <<>> /\ Taken.resp # 0 /\ Head(toWm).file # ""
  /\ TakenBy([v \in View |-> ListingAdd(view[v], Head(toWm))])
  /\ UNCHANGED toDaemon

ListingEnd(w, m) == IF w.scan THEN [w EXCEPT !.listing = FALSE] ELSE ListEnd([w EXCEPT !.listing = FALSE])

ListEnds ==
  /\ toWm # <<>> /\ Taken.resp # 0 /\ Head(toWm).file = ""
  /\ TakenBy([v \in View |-> ListingEnd(view[v], Head(toWm))])
  /\ UNCHANGED toDaemon

LiveAdd(w, m) == LiveBegin([w EXCEPT !.live = Append(@, m)])

FileChanged ==
  /\ toWm # <<>> /\ Taken.resp = 0 /\ Taken.op # "sync"
  /\ TakenBy([v \in View |-> LiveAdd(view[v], Head(toWm))])
  /\ UNCHANGED toDaemon

\* every sync is answered, also one for a view that is gone
Syncs ==
  /\ toWm # <<>> /\ Taken.op = "sync"
  /\ toWm' = Tail(toWm)
  /\ toDaemon' = Append(toDaemon, Req("sync", Head(toWm).id, NoDir))
  /\ UNCHANGED <<daemonVars, view, last, moves>>

-----------------------------------------------------------------------------
(* The timers and idlers of the view.                                      *)

ViewStep(v, w) ==
  /\ view' = [view EXCEPT ![v] = w]
  /\ UNCHANGED <<daemonVars, toWm, moves>>
NoRequest == UNCHANGED <<toDaemon, last>>

ScanTimer(v) ==
  /\ view[v].scan
  /\ \E batch \in Batches(view[v]) :
       LET w == [Processed(view[v], batch) EXCEPT !.scan = FALSE]
       IN ViewStep(v, IF ~w.listing THEN ListEnd(w)
                      ELSE IF w.busy > 0 THEN [w EXCEPT !.scan = TRUE]
                      ELSE [w EXCEPT !.sort = TRUE])
  /\ NoRequest

SortIdler(v) ==
  /\ view[v].sort
  /\ \E batch \in Batches(view[v]) :
       LET w == Processed(view[v], batch)
       IN ViewStep(v, IF w.listing THEN w ELSE ListEnd([w EXCEPT !.sort = FALSE]))
  /\ NoRequest

LiveTimer(v) ==
  /\ view[v].timer
  /\ \E batch \in Batches(view[v]) :
       LET w == Processed(view[v], batch)
       IN ViewStep(v, [w EXCEPT !.timer = w.idler \/ Queued(w) # {}])
  /\ NoRequest

\* what path_set and refresh have in common: nothing is shown, and the directory
\* is asked for anew
Asks(w, d) ==
  [w EXCEPT !.path = d, !.id = last + 1, !.listing = TRUE, !.queue = Nothing, !.icons = Nothing,
            !.mishaps = {}]

\* (mutant: the old directory is not given up)
RequestsOnly(old, d) ==
  last' = last + 1 /\ toDaemon' = Append(toDaemon, Req("start", last + 1, d))

Requests(old, d) ==
  /\ last' = last + 1
  /\ toDaemon' = toDaemon
       \o (IF old.path = NoDir THEN <<>> ELSE <<Req("end", old.id, old.path)>>)
       \o <<Req("start", last + 1, d)>>

\* e_fm2_refresh
Refreshed(w) == Asks([w EXCEPT !.order = FALSE], w.path)

\* one action after the other; with the last one they have ended, and a
\* directory that has an order is read anew
LiveIdler(v) ==
  /\ view[v].idler
  /\ LET u == Lived(view[v], Head(view[v].live)) IN
       IF u.live # <<>> THEN ViewStep(v, u) /\ NoRequest
       ELSE \E batch \in Batches(u) :
              LET w == [Processed(u, batch) EXCEPT !.idler = FALSE]
                  timed == [w EXCEPT !.timer = Queued(w) # {}]
              IN IF w.order THEN ViewStep(v, Refreshed(timed)) /\ Requests(w, w.path)
                 ELSE ViewStep(v, timed) /\ NoRequest

-----------------------------------------------------------------------------
(* The user.                                                               *)

Moves(v, w) ==
  /\ v \in bound.views /\ moves < bound.moves /\ moves' = moves + 1
  /\ view' = [view EXCEPT ![v] = w]
  /\ UNCHANGED <<daemonVars, toWm>>

\* e_fm2_path_set
PathSet(v, d) ==
  /\ view[v].path # d
  /\ Moves(v, Asks(view[v], d)) /\ Requests(view[v], d)

Refresh(v) ==
  /\ view[v].path # NoDir
  /\ Moves(v, Refreshed(view[v])) /\ Requests(view[v], view[v].path)

\* _e_fm2_smart_del
Close(v) ==
  /\ view[v].path # NoDir
  /\ Moves(v, Closed)
  /\ toDaemon' = Append(toDaemon, Req("end", view[v].id, view[v].path)) /\ UNCHANGED last

-----------------------------------------------------------------------------
Outside == \E d \in Dir, f \in Name : Create(d, f) \/ Write(d, f) \/ Delete(d, f)
Requested == MonitorStart \/ MonitorEnd \/ MonitorSync
Told == FileMonitor \/ FileModified
Received == FileListed \/ ListEnds \/ FileChanged \/ Syncs
User == \E v \in View : Refresh(v) \/ Close(v) \/ \E d \in Dir : PathSet(v, d)

Daemon == Requested \/ Told \/ \E id \in DOMAIN eds : ListIdler(id) \/ RecentClean(id)
WindowManager ==
  Received \/ \E v \in View : ScanTimer(v) \/ SortIdler(v) \/ LiveTimer(v) \/ LiveIdler(v)

Next == Outside \/ User \/ Daemon \/ WindowManager

Spec == Init /\ [][Next]_vars

(***************************************************************************)
(* Each of the two main loops goes on with something as long as there is   *)
(* something to do: a message to read, a timer or an idler to run.         *)
(***************************************************************************)
FairSpec == Spec /\ WF_vars(Daemon) /\ WF_vars(WindowManager)

-----------------------------------------------------------------------------
Asked(v) == \E i \in DOMAIN toDaemon : toDaemon[i].op = "start" /\ toDaemon[i].id = view[v].id
Owned(id) == \/ \E v \in View : view[v].path # NoDir /\ view[v].id = id
             \/ \E i \in DOMAIN toDaemon : toDaemon[i].op = "end" /\ toDaemon[i].id = id

\* The daemon lists and watches a directory for each open view and for nothing
\* else, in spite of moves and refreshes that overtake its answers; and a
\* directory whose monitor others use lives as long as they do.
MonitorsMatchViews ==
  /\ \A v \in View : view[v].path # NoDir =>
       \/ Asked(v)
       \/ view[v].id \in Listed /\ eds[view[v].id].dir = view[v].path /\ view[v].path \in watched
  /\ \A id \in Listed : ~eds[id].freed /\ Owned(id)
  /\ \A id \in DOMAIN eds : eds[id].real = 0 =>
       eds[id].refs = Cardinality({i \in Listed : eds[i].real = id}) + (IF id \in Listed THEN 1 ELSE 0)

\* Nothing is under way, neither to the view nor in it.
Quiet(v) ==
  LET w == view[v] IN
  /\ events = <<>> /\ toWm = <<>> /\ toDaemon = <<>>
  /\ \A id \in DOMAIN eds : ~eds[id].idler /\ eds[id].recent = <<>>
  /\ ~(w.scan \/ w.sort \/ w.idler \/ w.timer)

Shows(v) ==
  \A f \in File : view[v].icons[f] =
     IF files[view[v].path][f] = 0 THEN <<>> ELSE <<files[view[v].path][f]>>

\* A view to which nothing more is under way shows the files of its directory,
\* each once and as it is now, whatever was changed while it was listed and
\* however moves and refreshes crossed the answers; except for what the code is
\* known to get wrong: a change of a file whose icon is still queued, and a
\* change of the directory that was shown before.
ShowsDirectory ==
  \A v \in View : view[v].path # NoDir /\ Quiet(v) /\ view[v].mishaps = {} =>
    /\ ~view[v].listing /\ view[v].live = <<>> /\ Queued(view[v]) = {}
    /\ Shows(v)

\* Every listing ends and every change is taken up: the view comes to rest.
ComesToRest == <>[](\A v \in View : Quiet(v) /\ ~view[v].listing /\ view[v].live = <<>>)

\* "if we spent more than 1/20th of a second inserting - give up for now"
\* (e_fm.c): what was given up for now is shown in the end.
ShowsAllInTheEnd ==
  \A v \in View : view[v].path # NoDir /\ Quiet(v) /\ view[v].mishaps \subseteq {"cut"} =>
    \A f \in File : files[view[v].path][f] # 0 => view[v].icons[f] # <<>>
=============================================================================
