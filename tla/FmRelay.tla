------------------------------ MODULE FmRelay ------------------------------
(***************************************************************************)
(* A file operation as the window manager sees it.  A view starts one by a *)
(* request to the file manager daemon (enlightenment_fm), which runs a     *)
(* slave for it and relays its questions to the window manager and the     *)
(* answers of the user to the slave; the window manager keeps an entry of  *)
(* the operation in the registry until the daemon reports the end of the   *)
(* slave.  e_fm.c and e_fm_op_registry.c are the window manager's side,    *)
(* e_fm_ipc.c is the daemon.  A slave is what FmOp models in detail; here  *)
(* it asks, is answered and ends.                                          *)
(*                                                                         *)
(* The three processes are connected by FIFOs: toDaemon and toWm between   *)
(* window manager and daemon, inbox[i] and outbox[i] between the daemon    *)
(* and slave i.                                                            *)
(***************************************************************************)
EXTENDS Integers, FiniteSets, SequencesExt

CONSTANTS
  View,        \* file manager views that may be open
  NoView,      \* e_fm of an entry whose view was closed
  MaxOps,      \* bound on the operations that are started
  MaxReports,  \* bound on the questions and progress reports of a slave
  MaxRenames,  \* bound on the rename dialogs
  MaxMishaps   \* bound on aborts, on dialogs and views that are closed, and on
               \* processes that die of themselves

ASSUME RelayAssumption ==
  /\ IsFiniteSet(View) /\ NoView \notin View
  /\ MaxOps \in Nat /\ MaxReports \in Nat /\ MaxRenames \in Nat /\ MaxMishaps \in Nat

Id == 1..MaxOps
Rename == 1..MaxRenames

VARIABLES
  (* the window manager *)
  undefined,   \* it has used a null pointer or freed memory: nothing more is said
  views,       \* _e_fm2_list
  last,        \* id of _e_fm_client_send_new
  entry,       \* the registry entry of each operation
  dialog,      \* the question dialog that is open for it
  renames,     \* rename_dialogs of each view
  renameOf,    \* the operation of each rename dialog that was opened
  open,        \* the rename dialogs that are open
  connected,   \* _e_fm2_client_list holds the daemon
  spawning,    \* _e_fm2_client_spawning
  messages,    \* _e_fm2_messages
  req,         \* req of the client
  (* the daemon and the slaves *)
  daemon,      \* down, starting or up
  toDaemon, toWm,
  slaves,      \* _e_fm_ipc_slaves, with the records that were freed
  slave,       \* what each slave does
  aborting,    \* the slaves that were told to stop
  inbox, outbox,
  (* bounds and history *)
  reports,     \* reports of each slave
  mishaps,     \* what MaxMishaps bounds
  dismissed    \* operations whose question dialog was closed without an answer

wmVars == <<undefined, views, last, entry, dialog, renames, renameOf, open, dismissed>>
connVars == <<connected, spawning, messages, req>>
slaveVars == <<slave, aborting, inbox, outbox, reports>>
vars == <<wmVars, connVars, daemon, toDaemon, toWm, slaves, slaveVars, mishaps>>

Mishap == mishaps < MaxMishaps /\ mishaps' = mishaps + 1

Msg(kind, id) == [kind |-> kind, id |-> id]

ErrorAnswer == {"retry", "ignore", "give up"}
OverwriteAnswer == {"yes", "no"}
Answer == ErrorAnswer \cup OverwriteAnswer
Question == {"error", "overwrite"}

\* an error dialog has one button more when a link onto a device failed
ErrorDialog == {"error", "device error"}

Unused ==
  [life |-> "none", listed |-> FALSE, refs |-> 0, view |-> NoView, status |-> "unknown",
   finished |-> FALSE, attention |-> FALSE, dialog |-> FALSE,
   changed |-> FALSE, events |-> <<>>]

Init ==
  /\ undefined = FALSE /\ views = View /\ last = 0
  /\ entry = [i \in Id |-> Unused]
  /\ dialog = [i \in Id |-> "none"]
  /\ renames = [v \in View |-> <<>>] /\ renameOf = <<>> /\ open = {}
  /\ connected = FALSE /\ spawning = FALSE /\ messages = <<>> /\ req = 0
  /\ daemon = "down" /\ toDaemon = <<>> /\ toWm = <<>> /\ slaves = <<>>
  /\ slave = [i \in Id |-> "none"] /\ aborting = {}
  /\ inbox = [i \in Id |-> <<>>] /\ outbox = [i \in Id |-> <<>>]
  /\ reports = [i \in Id |-> 0] /\ mishaps = 0 /\ dismissed = {}

-----------------------------------------------------------------------------
(* The registry.  An entry keeps its own events: all that their delivery   *)
(* does to it is to drop a reference.                                      *)

\* (mutant: drops a reference too many)
UnrefTwice(e) == [e EXCEPT !.refs = e.refs - 2]

Unref(e) ==
  [e EXCEPT !.refs = e.refs - 1, !.life = IF e.refs = 1 THEN "freed" ELSE @]

Ref(e) == [e EXCEPT !.refs = @ + 1]

Posts(e, kind) == [e EXCEPT !.refs = @ + 1, !.events = Append(@, kind)]

\* (mutant: the queued event holds no reference)
ChangedUncounted(e) ==
  IF e.changed THEN e ELSE [e EXCEPT !.events = Append(@, "changed"), !.changed = TRUE]

\* e_fm2_op_registry_entry_changed: one event until it is delivered
Changed(e) == IF e.changed THEN e ELSE [Posts(e, "changed") EXCEPT !.changed = TRUE]

Added(v) ==
  Posts([Unused EXCEPT !.life = "live", !.listed = TRUE, !.refs = 1, !.view = v,
                       !.status = "in progress"], "add")

\* the event is freed, which gives its reference back
Delivered(e) ==
  Unref([e EXCEPT !.events = Tail(@), !.changed = @ /\ Head(e.events) # "changed"])

Deleted(e) == Unref(Posts([e EXCEPT !.listed = FALSE], "del"))

\* (mutant: an aborted operation leaves the registry at once)
AbortedAndDeleted(e) ==
  Deleted([e EXCEPT !.status = "aborted", !.attention = FALSE, !.dialog = FALSE, !.finished = TRUE])

GoneOn(e) == Changed([e EXCEPT !.status = "in progress", !.attention = FALSE, !.dialog = FALSE])
Aborted(e) ==
  Changed([e EXCEPT !.status = "aborted", !.attention = FALSE, !.dialog = FALSE, !.finished = TRUE])
NeedsAttention(e) == Changed([e EXCEPT !.attention = TRUE, !.dialog = TRUE])
Errs(e) == NeedsAttention([e EXCEPT !.status = "error"])

\* entry_get finds only what is listed
IfListed(i, e) == IF entry[i].listed THEN [entry EXCEPT ![i] = e] ELSE entry

-----------------------------------------------------------------------------
(* Requests of the window manager.                                         *)

\* _e_fm_client_send: without a daemon the request is queued and one is started
Sends(ms) ==
  IF connected
  THEN /\ toDaemon' = IF daemon = "up" THEN toDaemon \o ms ELSE toDaemon
       /\ req' = req + Len(ms)
       /\ UNCHANGED <<connected, spawning, messages, daemon>>
  ELSE /\ messages' = messages \o ms
       /\ spawning' = TRUE
       /\ daemon' = IF spawning THEN daemon ELSE "starting"
       /\ UNCHANGED <<connected, req, toDaemon>>

\* a step of the window manager for which it reads no message
WmStep == ~undefined /\ UNCHANGED <<toWm, slaves, slaveVars>>
Quietly == WmStep /\ UNCHANGED mishaps
NoDialogs == UNCHANGED <<renames, renameOf, open>>

Start(v) ==
  /\ v \in views /\ last < MaxOps
  /\ last' = last + 1
  /\ entry' = [entry EXCEPT ![last + 1] = Added(v)]
  /\ Sends(<<Msg("start", last + 1)>>)
  /\ UNCHANGED <<undefined, views, dialog, dismissed>> /\ NoDialogs /\ Quietly

\* e_fm2_operation_abort
Abort(i) ==
  /\ Mishap /\ entry[i].listed
  /\ entry' = [entry EXCEPT ![i] = Aborted(@)]
  /\ Sends(<<Msg("abort", i)>>)
  /\ UNCHANGED <<undefined, views, last, dialog, dismissed>> /\ NoDialogs /\ WmStep

\* a button of a question dialog
AnswerError(i) ==
  /\ dialog[i] \in ErrorDialog
  /\ \E a \in ErrorAnswer :
       /\ entry' = IfListed(i, IF a = "give up" THEN Aborted(entry[i]) ELSE GoneOn(entry[i]))
       /\ Sends(<<Msg(a, i)>>)
  /\ dialog' = [dialog EXCEPT ![i] = "none"]
  /\ UNCHANGED <<undefined, views, last, dismissed>> /\ NoDialogs /\ Quietly

AnswerOverwrite(i) ==
  /\ dialog[i] = "overwrite"
  /\ entry' = IfListed(i, GoneOn(entry[i]))
  /\ \E a \in OverwriteAnswer : Sends(<<Msg(a, i)>>)
  /\ dialog' = [dialog EXCEPT ![i] = "none"]
  /\ UNCHANGED <<undefined, views, last, dismissed>> /\ NoDialogs /\ Quietly
\* "Move Source": the button kept the entry, without a reference to it
MoveSource(i) ==
  /\ dialog[i] = "device error"
  /\ IF entry[i].life = "freed"
     THEN /\ undefined' = TRUE
          /\ UNCHANGED <<last, entry, connVars, daemon, toDaemon, dialog>>
     ELSE /\ last < MaxOps
          /\ last' = last + 1
          /\ entry' = [IfListed(i, Aborted(entry[i])) EXCEPT ![last + 1] = Added(entry[i].view)]
          /\ Sends(<<Msg("start", last + 1), Msg("give up", i)>>)
          /\ dialog' = [dialog EXCEPT ![i] = "none"]
          /\ UNCHANGED undefined
  /\ UNCHANGED <<views, dismissed>> /\ NoDialogs /\ Quietly

\* "Rename": the answer is no, and a dialog asks for the new name
AnswerRename(i) ==
  /\ dialog[i] = "overwrite" /\ entry[i].listed
  /\ LET d == Len(renameOf) + 1  v == entry[i].view IN
       IF v = NoView
       THEN /\ undefined' = TRUE
            /\ UNCHANGED <<entry, renames, renameOf, open, connVars, daemon, toDaemon, dialog>>
       ELSE /\ d \in Rename
            /\ renameOf' = Append(renameOf, i) /\ open' = open \cup {d}
            /\ renames' = [renames EXCEPT ![v] = Append(@, d)]
            /\ entry' = [entry EXCEPT ![i] = GoneOn(Ref(@))]
            /\ Sends(<<Msg("no", i)>>)
            /\ dialog' = [dialog EXCEPT ![i] = "none"]
            /\ UNCHANGED undefined
  /\ UNCHANGED <<views, last, dismissed>> /\ Quietly

\* eina_list_remove
Without(s, d) ==
  IF \E k \in DOMAIN s : s[k] = d THEN RemoveAt(s, CHOOSE k \in DOMAIN s : s[k] = d) ELSE s

\* the rename dialog is confirmed, which starts a copy, or cancelled; it is
\* taken out of the list of its view, which has to be there
RenameEnds(d) ==
  /\ d \in open
  /\ LET i == renameOf[d]  v == entry[i].view
         ended == [entry EXCEPT ![i] = Unref(@)] IN
       IF v = NoView
       THEN /\ undefined' = TRUE
            /\ UNCHANGED <<last, entry, renames, open, connVars, daemon, toDaemon>>
       ELSE /\ renames' = [renames EXCEPT ![v] = Without(@, d)]
            /\ open' = open \ {d}
            /\ \/ /\ entry' = ended
                  /\ UNCHANGED <<last, connVars, daemon, toDaemon>>
               \/ /\ last < MaxOps
                  /\ last' = last + 1
                  /\ entry' = [ended EXCEPT ![last + 1] = Added(v)]
                  /\ Sends(<<Msg("start", last + 1)>>)
            /\ UNCHANGED undefined
  /\ UNCHANGED <<views, dialog, renameOf, dismissed>> /\ Quietly

\* Escape, or the window is closed: nobody is told
Dismiss(i) ==
  /\ Mishap /\ dialog[i] # "none"
  /\ dialog' = [dialog EXCEPT ![i] = "none"]
  /\ dismissed' = dismissed \cup {i}
  /\ UNCHANGED <<undefined, views, last, entry, connVars, daemon, toDaemon>>
  /\ NoDialogs /\ WmStep

\* E_FREE_LIST with a callback that takes the dialog out of the list itself:
\* the macro then drops the next one, which stays open
Closed(ds) == {ds[k] : k \in {k \in DOMAIN ds : k % 2 = 1}}

\* the view is deleted: first its rename dialogs go, then the entries lose it
CloseView(v) ==
  /\ Mishap /\ v \in views
  /\ views' = views \ {v}
  /\ renames' = [renames EXCEPT ![v] = <<>>]
  /\ open' = open \ Closed(renames[v])
  /\ entry' = [i \in Id |->
       LET n == Cardinality({d \in Closed(renames[v]) : renameOf[d] = i})
           e == [entry[i] EXCEPT !.refs = @ - n,
                                 !.life = IF n > 0 /\ entry[i].refs = n THEN "freed" ELSE @]
       IN IF e.view = v /\ e.life = "live" THEN Changed([e EXCEPT !.view = NoView]) ELSE e]
  /\ UNCHANGED <<undefined, last, dialog, renameOf, dismissed, connVars, daemon, toDaemon>>
  /\ WmStep

\* the main loop delivers an event of the registry
Deliver(i) ==
  /\ entry[i].events # <<>>
  /\ entry' = [entry EXCEPT ![i] = Delivered(@)]
  /\ UNCHANGED <<undefined, views, last, dialog, dismissed, connVars, daemon, toDaemon>>
  /\ NoDialogs /\ Quietly

-----------------------------------------------------------------------------
(* e_fm2_client_data: a message of the daemon.                             *)

NoReply == UNCHANGED <<daemon, toDaemon>>
Takes(kinds) ==
  /\ ~undefined /\ toWm # <<>> /\ Head(toWm).kind \in kinds
  /\ toWm' = Tail(toWm)
  /\ UNCHANGED <<views, last, dismissed, slaves, slaveVars, mishaps>> /\ NoDialogs

\* (mutant: what was queued for the daemon is not sent)
HelloOnly ==
  /\ Takes({"hello"})
  /\ connected' = TRUE /\ spawning' = FALSE
  /\ UNCHANGED <<undefined, entry, dialog, messages, req>> /\ NoReply

\* a client that is not known: the daemon is there
Hello ==
  /\ Takes({"hello"})
  /\ connected' = TRUE /\ spawning' = FALSE
  /\ toDaemon' = IF daemon = "up" THEN toDaemon \o messages ELSE toDaemon
  /\ req' = Len(messages) /\ messages' = <<>>
  /\ UNCHANGED <<undefined, entry, dialog, daemon>>

\* counted once for each view
Ok ==
  /\ Takes({"ok"})
  /\ req' = req - Cardinality(views)
  /\ UNCHANGED <<undefined, entry, dialog, connected, spawning, messages>> /\ NoReply

\* without an entry there is no dialog; without a view its data are read all the same
ErrorArrives ==
  /\ Takes({"error"})
  /\ LET i == Head(toWm).id IN
       IF entry[i].listed /\ entry[i].view = NoView
       THEN undefined' = TRUE /\ UNCHANGED <<entry, dialog>>
       ELSE /\ \E k \in ErrorDialog :
                 dialog' = [dialog EXCEPT ![i] = IF entry[i].listed THEN k ELSE @]
            /\ entry' = IfListed(i, Errs(entry[i]))
            /\ UNCHANGED undefined
  /\ UNCHANGED connVars /\ NoReply

OverwriteArrives ==
  /\ Takes({"overwrite"})
  /\ LET i == Head(toWm).id IN
       /\ dialog' = [dialog EXCEPT ![i] = "overwrite"]
       /\ entry' = IfListed(i, NeedsAttention(entry[i]))
  /\ UNCHANGED <<undefined, connVars>> /\ NoReply

ProgressArrives ==
  /\ Takes({"progress", "complete"})
  /\ LET i == Head(toWm).id  e == entry[i] IN
       entry' = IfListed(i, Changed(IF Head(toWm).kind = "complete"
                                    THEN [e EXCEPT !.status = "successful", !.finished = TRUE]
                                    ELSE e))
  /\ UNCHANGED <<undefined, dialog, connVars>> /\ NoReply

\* (mutant: the entry is marked and kept)
QuitMarks ==
  /\ Takes({"quit"})
  /\ entry' = LET i == Head(toWm).id IN IfListed(i, Changed([entry[i] EXCEPT !.finished = TRUE]))
  /\ UNCHANGED <<undefined, dialog, connVars>> /\ NoReply

QuitArrives ==
  /\ Takes({"quit"})
  /\ LET i == Head(toWm).id IN
       entry' = IfListed(i, Deleted(Changed([entry[i] EXCEPT !.finished = TRUE])))
  /\ UNCHANGED <<undefined, dialog, connVars>> /\ NoReply

\* e_fm2_client_del
ConnectionEnds ==
  /\ Takes({"eof"})
  /\ connected' = FALSE /\ req' = 0
  /\ UNCHANGED <<undefined, entry, dialog, spawning, messages>> /\ NoReply
-----------------------------------------------------------------------------
(* The daemon.                                                             *)

HelperStep == ~undefined /\ UNCHANGED <<wmVars, connVars>>

\* it has connected and says hello
DaemonStarts ==
  /\ daemon = "starting"
  /\ daemon' = "up" /\ toWm' = <<Msg("hello", 0)>>
  /\ HelperStep /\ UNCHANGED <<toDaemon, slaves, slaveVars, mishaps>>

\* its slaves lose their pipes, what was under way to it is lost
DaemonEnds ==
  /\ daemon' = "down" /\ toDaemon' = <<>> /\ slaves' = <<>>
  /\ toWm' = IF daemon = "up" THEN Append(toWm, Msg("eof", 0)) ELSE toWm
  /\ slave' = [i \in Id |-> IF slave[i] \in {"none", "dead"} THEN slave[i] ELSE "lost"]
  /\ inbox' = [i \in Id |-> <<>>] /\ outbox' = [i \in Id |-> <<>>]
  /\ UNCHANGED <<aborting, reports>>

DaemonTakes(kinds) ==
  /\ daemon = "up" /\ toDaemon # <<>> /\ Head(toDaemon).kind \in kinds
  /\ HelperStep /\ UNCHANGED mishaps

\* every request is confirmed, whatever became of it
DaemonGoesOn ==
  /\ toDaemon' = Tail(toDaemon) /\ toWm' = Append(toWm, Msg("ok", 0))
  /\ UNCHANGED <<daemon, aborting, outbox, reports>>

\* _e_fm_ipc_slave_run
DaemonRuns ==
  /\ DaemonTakes({"start"}) /\ DaemonGoesOn
  /\ LET i == Head(toDaemon).id IN
       /\ slaves' = Append(slaves, [id |-> i, freed |-> FALSE])
       /\ slave' = [slave EXCEPT ![i] = "running"]
  /\ UNCHANGED inbox

\* what _e_fm_ipc_slave_get may return: a record that was freed is still in the
\* list, and its memory may or may not hold the identifier still
Gets(i) ==
  LET rs == {r \in ToSet(slaves) : r.id = i}
  IN IF rs = {} THEN {"null"}
     ELSE IF \E r \in rs : ~r.freed THEN {"slave"} ELSE {"null", "freed"}

\* (mutant: the slave that was started last gets it)
DaemonSendsLast(i) ==
  /\ inbox' = [inbox EXCEPT ![Last(slaves).id] = Append(@, Head(toDaemon))]
  /\ DaemonGoesOn /\ UNCHANGED <<slaves, slave>>

DaemonSends(i) ==
  /\ inbox' = [inbox EXCEPT ![i] = Append(@, Head(toDaemon))]
  /\ DaemonGoesOn /\ UNCHANGED <<slaves, slave>>

DaemonIgnores == DaemonGoesOn /\ UNCHANGED <<inbox, slaves, slave>>

\* an abort or the answer to an error looks whether there is a slave, the
\* answer to a conflict does not; writing to what was freed may kill the daemon
DaemonAnswers ==
  /\ DaemonTakes({"abort"} \cup Answer)
  /\ LET m == Head(toDaemon) IN
     \E g \in Gets(m.id) :
       \/ g = "slave" /\ DaemonSends(m.id)
       \/ g = "null" /\ m.kind \in OverwriteAnswer /\ DaemonEnds
       \/ g = "null" /\ m.kind \notin OverwriteAnswer /\ DaemonIgnores
       \/ g = "freed" /\ (DaemonEnds \/ DaemonIgnores)

\* _e_fm_ipc_slave_data_cb
DaemonRelays(i) ==
  /\ daemon = "up" /\ outbox[i] # <<>>
  /\ outbox' = [outbox EXCEPT ![i] = Tail(@)]
  /\ toWm' = Append(toWm, Head(outbox[i]))
  /\ HelperStep /\ UNCHANGED <<daemon, toDaemon, slaves, slave, aborting, inbox, reports, mishaps>>

\* _e_fm_ipc_slave_del_cb: the record is freed and stays in the list
DaemonSeesEnd(i) ==
  /\ daemon = "up" /\ slave[i] = "ended" /\ outbox[i] = <<>>
  /\ toWm' = Append(toWm, Msg("quit", i))
  /\ slaves' = [k \in DOMAIN slaves |->
                  IF slaves[k].id = i THEN [slaves[k] EXCEPT !.freed = TRUE] ELSE slaves[k]]
  /\ slave' = [slave EXCEPT ![i] = "dead"]
  /\ HelperStep /\ UNCHANGED <<daemon, toDaemon, aborting, inbox, outbox, reports, mishaps>>

DaemonDies ==
  /\ daemon # "down" /\ Mishap
  /\ DaemonEnds /\ HelperStep

-----------------------------------------------------------------------------
(* A slave, as far as its two pipes show it.                               *)

SlaveStep == HelperStep /\ UNCHANGED <<daemon, toDaemon, toWm, slaves>>

SlaveWrites(i, kinds) ==
  /\ slave[i] = "running" /\ i \notin aborting /\ reports[i] < MaxReports
  /\ reports' = [reports EXCEPT ![i] = @ + 1]
  /\ \E k \in kinds :
       /\ outbox' = [outbox EXCEPT ![i] = Append(@, Msg(k, i))]
       /\ slave' = [slave EXCEPT ![i] = IF k \in Question THEN k ELSE @]
  /\ SlaveStep /\ UNCHANGED <<aborting, inbox, mishaps>>

SlaveAsks(i) == SlaveWrites(i, Question)
SlaveReports(i) == SlaveWrites(i, {"progress", "complete"})

\* an abort does not wake a slave that waits for an answer
SlaveReads(i) ==
  /\ slave[i] \in {"running"} \cup Question /\ inbox[i] # <<>>
  /\ LET k == Head(inbox[i]).kind IN
       /\ aborting' = IF k \in {"abort", "give up"} THEN aborting \cup {i} ELSE aborting
       /\ slave' = [slave EXCEPT ![i] = IF k \in Answer THEN "running" ELSE @]
  /\ inbox' = [inbox EXCEPT ![i] = Tail(@)]
  /\ SlaveStep /\ UNCHANGED <<outbox, reports, mishaps>>

SlaveEnds(i) ==
  /\ slave[i] = "running"
  /\ slave' = [slave EXCEPT ![i] = "ended"] /\ inbox' = [inbox EXCEPT ![i] = <<>>]
  /\ SlaveStep /\ UNCHANGED <<aborting, outbox, reports, mishaps>>

SlaveDies(i) ==
  /\ slave[i] \in {"running"} \cup Question /\ Mishap
  /\ slave' = [slave EXCEPT ![i] = "ended"] /\ inbox' = [inbox EXCEPT ![i] = <<>>]
  /\ SlaveStep /\ UNCHANGED <<aborting, outbox, reports>>

-----------------------------------------------------------------------------
Answers(i) == AnswerError(i) \/ AnswerOverwrite(i) \/ MoveSource(i) \/ AnswerRename(i)
WmReceives == Hello \/ Ok \/ ErrorArrives \/ OverwriteArrives \/ ProgressArrives
                \/ QuitArrives \/ ConnectionEnds
User == \/ \E v \in View : Start(v) \/ CloseView(v)
        \/ \E i \in Id : Abort(i) \/ Answers(i) \/ Dismiss(i)
        \/ \E d \in Rename : RenameEnds(d)
Daemon == DaemonStarts \/ DaemonRuns \/ DaemonAnswers
            \/ \E i \in Id : DaemonRelays(i) \/ DaemonSeesEnd(i)
Slave(i) == SlaveAsks(i) \/ SlaveReports(i) \/ SlaveReads(i) \/ SlaveEnds(i)

Next ==
  \/ User \/ WmReceives \/ Daemon \/ DaemonDies
  \/ \E i \in Id : Deliver(i) \/ Slave(i) \/ SlaveDies(i)

Spec == Init /\ [][Next]_vars

(***************************************************************************)
(* The three main loops go on, a slave that does not wait ends, and the    *)
(* user answers the dialogs that are shown.  Nobody has to start, abort,   *)
(* dismiss or close anything, and nothing has to die.                      *)
(***************************************************************************)
FairSpec ==
  /\ Spec
  /\ WF_vars(WmReceives)
  /\ WF_vars(DaemonStarts \/ DaemonRuns \/ DaemonAnswers)
  /\ \A i \in Id :
       /\ WF_vars(Answers(i))
       /\ WF_vars(DaemonRelays(i))
       /\ WF_vars(DaemonSeesEnd(i))
       /\ WF_vars(SlaveReads(i))
       /\ WF_vars(SlaveEnds(i))
       /\ WF_vars(Deliver(i))

-----------------------------------------------------------------------------
Told == {"hello", "ok", "eof"}
Kinds == {"start", "abort", "progress", "complete", "quit"} \cup Answer \cup Question

Msgs == [kind : Kinds, id : Id] \cup [kind : Told, id : {0}]

Entry ==
  [life : {"none", "live", "freed"}, listed : BOOLEAN, refs : Nat, view : View \cup {NoView},
   status : {"unknown", "in progress", "successful", "aborted", "error"},
   finished : BOOLEAN, attention : BOOLEAN, dialog : BOOLEAN, changed : BOOLEAN,
   events : Seq({"add", "changed", "del"})]

\* Every variable has its type.
TypeOK ==
  /\ undefined \in BOOLEAN /\ views \subseteq View /\ last \in 0..MaxOps
  /\ entry \in [Id -> Entry]
  /\ dialog \in [Id -> {"none", "overwrite"} \cup ErrorDialog]
  /\ renames \in [View -> Seq(Rename)] /\ renameOf \in Seq(Id)
  /\ open \subseteq DOMAIN renameOf /\ Len(renameOf) <= MaxRenames
  /\ connected \in BOOLEAN /\ spawning \in BOOLEAN /\ req \in Int
  /\ daemon \in {"down", "starting", "up"}
  /\ messages \in Seq(Msgs) /\ toDaemon \in Seq(Msgs) /\ toWm \in Seq(Msgs)
  /\ slaves \in Seq([id : Id, freed : BOOLEAN])
  /\ slave \in [Id -> {"none", "running", "ended", "dead", "lost"} \cup Question]
  /\ inbox \in [Id -> Seq(Msgs)] /\ outbox \in [Id -> Seq(Msgs)]
  /\ reports \in [Id -> 0..MaxReports]
  /\ aborting \subseteq Id /\ dismissed \subseteq Id /\ mishaps \in 0..MaxMishaps

\* A registry entry has one reference for the registry, one for each of its
\* queued events and one for each rename dialog that is open for it, and is
\* freed when the last one goes: e_fm2_op_registry_entry_ref and _unref.
RefsCounted ==
  \A i \in 1..last : LET e == entry[i] IN
    /\ e.refs = (IF e.listed THEN 1 ELSE 0) + Len(e.events)
                  + Cardinality({d \in open : renameOf[d] = i})
    /\ e.life = IF e.refs = 0 THEN "freed" ELSE "live"

CountOf(ms, i, kinds) == Cardinality({k \in DOMAIN ms : ms[k].id = i /\ ms[k].kind \in kinds})

\* Where the question of a slave, or the answer to it, is at the moment.
Traces(i) ==
  LET q == slave[i]
      answers == IF q = "error" THEN ErrorAnswer ELSE OverwriteAnswer
      dialogs == IF q = "error" THEN ErrorDialog ELSE {"overwrite"}
  IN CountOf(outbox[i], i, {q}) + CountOf(toWm, i, {q})
     + (IF dialog[i] \in dialogs THEN 1 ELSE 0)
     + CountOf(messages, i, answers) + CountOf(toDaemon, i, answers) + CountOf(inbox[i], i, answers)

\* A slave that waits has its question under way, shown, or answered, exactly
\* one of these and with an answer of the right kind, unless the user closed
\* the dialog; a slave that works has no question and no answer anywhere, so
\* that no answer is taken for the answer to a later question.
QuestionHasOnePlace ==
  ~undefined => \A i \in Id :
    /\ slave[i] \in Question =>
         Traces(i) = IF i \in dismissed THEN 0 ELSE 1
    /\ slave[i] = "running" =>
         /\ dialog[i] = "none"
         /\ CountOf(outbox[i] \o toWm, i, Question) = 0
         /\ CountOf(messages \o toDaemon \o inbox[i], i, Answer) = 0

\* An operation is taken out of the registry only when its slave has ended.
EntryOutlivesSlave ==
  \A i \in 1..last : ~entry[i].listed => slave[i] = "dead"

\* The daemon died with the request or with the slave, or will never be started.
LostWithDaemon(i) ==
  \/ spawning /\ daemon = "down"
  \/ slave[i] = "lost"
  \/ slave[i] = "none" /\ CountOf(messages \o toDaemon, i, {"start"}) = 0

\* Every operation that was started leaves the registry, unless the user closed
\* its question without an answer or the daemon died with it.
EntryGoes ==
  \A i \in Id : entry[i].listed ~>
    (~entry[i].listed \/ undefined \/ i \in dismissed \/ LostWithDaemon(i))

\* Requests that wait for a daemon are sent, unless the daemon that was started
\* for them died before it said hello: it is never started again.
QueueFlushed ==
  messages # <<>> ~> (messages = <<>> \/ undefined \/ (spawning /\ daemon = "down"))

\* "always send back an OK for each request so e can basically keep a count of
\* outstanding requests" (e_fm_ipc.c): the window manager's count of them.
ReqCountsOutstanding ==
  connected /\ daemon = "up" =>
    req = Len(toDaemon) + Len(SelectSeq(toWm, LAMBDA m : m.kind = "ok"))

\* "if attention dialog is present then raise it" (fileman_opinfo): the dialog
\* of an entry that needs attention is open.
AttentionDialogOpen ==
  \A i \in Id : entry[i].listed /\ entry[i].attention /\ entry[i].dialog => dialog[i] # "none"
=============================================================================
