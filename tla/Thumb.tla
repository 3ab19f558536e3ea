------------------------------- MODULE Thumb -------------------------------
(***************************************************************************)
(* Thumbnails of the file manager: the window manager's side (e_thumb.c)   *)
(* and the thumbnailer process it starts (e_thumb_main.c).  An icon asks   *)
(* for its thumbnail; without a connected thumbnailer the request waits in *)
(* a queue and a process is started, whose hello flushes the queue.  When  *)
(* no request is left a timer is set that terminates the process.          *)
(*                                                                         *)
(* Each end of the connection is a FIFO: inbox[p] holds the requests on    *)
(* their way to process p, outbox[p] the messages on their way back, with  *)
(* the end of the connection as the last one.  A process identifier is     *)
(* used again once the window manager has seen the exit and the end of the *)
(* connection of the process that had it.                                  *)
(***************************************************************************)
EXTENDS Integers, FiniteSets, SequencesExt

CONSTANTS
  Icon,        \* the icons created by e_thumb_icon_add, each with its objid
  Proc,        \* process identifiers
  MaxCalls,    \* bound on the calls of begin, end and rethumb
  MaxCrashes   \* bound on thumbnailers that die without being terminated

ASSUME ThumbAssumption ==
  /\ IsFiniteSet(Icon)
  /\ IsFiniteSet(Proc)
  /\ MaxCalls \in Nat
  /\ MaxCrashes \in Nat

VARIABLES
  alive,      \* _thumbs: the icons that are not deleted
  queued,     \* the icons with eth->queued,
  busy,       \*   with eth->busy
  done,       \*   and with eth->done
  queue,      \* _thumb_queue
  pending,    \* _pending
  killTimer,  \* _kill_timer is set
  clients,    \* _thumbnailers, the next one to use first
  exes,       \* _thumbnailers_exe
  life,       \* of each process: free, starting, connected or dead
  term,       \* the processes that were sent SIGTERM
  inbox, outbox,
  list,       \* _thumblist of each process
  armed,      \* the processes with _timer set
  calls, crashes,  \* how often the bounded actions happened
  cancelled   \* history: a request was taken back after it was sent

iconVars == <<alive, queued, busy, done, queue>>
killVars == <<pending, killTimer, cancelled>>
procVars == <<term, outbox, list, armed>>
vars == <<iconVars, killVars, clients, exes, life, inbox, procVars, calls, crashes>>

BeginMsg(i)  == [kind |-> "begin",  icon |-> i]
CancelMsg(i) == [kind |-> "cancel", icon |-> i]
AnswerMsg(i) == [kind |-> "answer", icon |-> i]
Hello == [kind |-> "hello"]
Eof   == [kind |-> "eof"]

Init ==
  /\ alive = Icon /\ queued = {} /\ busy = {} /\ done = {} /\ queue = <<>>
  /\ pending = 0 /\ killTimer = FALSE /\ cancelled = FALSE
  /\ clients = <<>> /\ exes = {}
  /\ life = [p \in Proc |-> "free"] /\ term = {}
  /\ inbox = [p \in Proc |-> <<>>] /\ outbox = [p \in Proc |-> <<>>]
  /\ list = [p \in Proc |-> <<>>] /\ armed = {}
  /\ calls = 0 /\ crashes = 0

-----------------------------------------------------------------------------
(* What the handlers of the window manager do to its state, and to the     *)
(* processes it starts and writes to.                                      *)

State ==
  [queued |-> queued, busy |-> busy, done |-> done, queue |-> queue,
   pending |-> pending, killTimer |-> killTimer, cancelled |-> cancelled,
   clients |-> clients, exes |-> exes, life |-> life, inbox |-> inbox]

\* (t is s, evaluated once)
Becomes(s) ==
  \E t \in {s} :
    /\ queued' = t.queued /\ busy' = t.busy /\ done' = t.done /\ queue' = t.queue
    /\ pending' = t.pending /\ killTimer' = t.killTimer /\ cancelled' = t.cancelled
    /\ clients' = t.clients /\ exes' = t.exes
    /\ life' = t.life /\ inbox' = t.inbox

\* What is written to a dead process is lost.
Listens(s, p) == Contains(s.clients, p) /\ s.life[p] = "connected"

\* The clients take turns: of the requests in q, the k-th client gets the
\* k-th, and from there on every Len(s.clients)-th one.
Share(s, q, p) ==
  LET n == Len(s.clients)
      k == CHOOSE j \in 1..n : s.clients[j] = p
      count == IF k > Len(q) THEN 0 ELSE 1 + (Len(q) - k) \div n
  IN  [m \in 1..count |-> BeginMsg(q[k + (m - 1) * n])]

\* After m turns the list of clients is rotated by m.
Rotated(seq, m) ==
  LET r == m % Len(seq) IN SubSeq(seq, r + 1, Len(seq)) \o SubSeq(seq, 1, r)

GenBegin(s, q) ==
  IF s.clients = <<>> THEN s
  ELSE [s EXCEPT !.clients = Rotated(@, Len(q)),
                 !.inbox = [p \in Proc |->
                              IF Listens(s, p) THEN @[p] \o Share(s, q, p) ELSE @[p]]]

\* Every client is told to forget the request.
GenEnd(s, i) ==
  [s EXCEPT !.inbox = [p \in Proc |->
                         IF Listens(s, p) THEN Append(@[p], CancelMsg(i)) ELSE @[p]]]

\* Mutants of Sent: the kill timer stays, or _pending counts a flush once.
SentKeepsTimer(s, q) ==
  [GenBegin(s, q) EXCEPT !.busy = @ \cup ToSet(q), !.pending = @ + Len(q)]

SentCountsOnce(s, q) ==
  [GenBegin(s, q) EXCEPT !.busy = @ \cup ToSet(q), !.pending = @ + 1,
                         !.killTimer = @ /\ s.pending # 0]

\* The requests of the icons in q become busy and are sent.  The kill timer
\* is deleted when _pending reaches 1 on the way.
Sent(s, q) ==
  [GenBegin(s, q) EXCEPT
     !.busy = @ \cup ToSet(q),
     !.pending = @ + Len(q),
     !.killTimer = @ /\ ~(s.pending < 1 /\ s.pending + Len(q) >= 1)]

\* EINA_LIST_FREE(_thumb_queue, eth)
Flushed(s) ==
  Sent([s EXCEPT !.queue = <<>>, !.queued = @ \ ToSet(s.queue)], s.queue)

\* One request less; the last one sets the kill timer.
Settled(s, i) ==
  [s EXCEPT !.busy = @ \ {i}, !.pending = @ - 1,
            !.killTimer = @ \/ s.pending = 1]

\* A process that the window manager and its sockets know nothing of.
FreeProc(s) ==
  {p \in Proc : s.life[p] = "free" /\ outbox[p] = <<>> /\ ~Contains(s.clients, p)}

\* Mutant of Spawned: the processes that run are not counted.
SpawnedAlways(s) ==
  LET p == CHOOSE q \in FreeProc(s) : TRUE
  IN  [s EXCEPT !.exes = @ \cup {p}, !.life[p] = "starting"]

\* _num_thumbnailers is 1: a process is started when there is none.
Spawned(s) ==
  IF s.exes # {} THEN s
  ELSE LET p == CHOOSE q \in FreeProc(s) : TRUE
       IN  [s EXCEPT !.exes = @ \cup {p}, !.life[p] = "starting"]

Begun(s, i) ==
  CASE i \in s.queued \cup s.busy \cup s.done -> s
    [] i \notin s.queued \cup s.busy \cup s.done /\ s.clients = <<>> ->
         [Spawned(s) EXCEPT !.queue = Append(@, i), !.queued = @ \cup {i}]
    [] OTHER -> Sent(Flushed(s), <<i>>)

\* Mutant of Dequeued: the list node stays.
DequeuedFlagOnly(s, i) == [s EXCEPT !.queued = @ \ {i}]

Dequeued(s, i) == [s EXCEPT !.queue = RemoveFirst(@, i), !.queued = @ \ {i}]

TakenBack(s, i) ==
  IF i \in s.busy THEN [Settled(GenEnd(s, i), i) EXCEPT !.cancelled = TRUE] ELSE s

Ended(s, i) == TakenBack(IF i \in s.queued THEN Dequeued(s, i) ELSE s, i)

Rethumbed(s, i) ==
  Begun(IF i \in s.done THEN [s EXCEPT !.done = @ \ {i}] ELSE Ended(s, i), i)

-----------------------------------------------------------------------------
(* The window manager.                                                     *)

\* The bound on process identifiers: a process can be started if need be.
CanSpawn == exes # {} \/ FreeProc(State) # {}

Called(i, s) ==
  /\ i \in alive
  /\ calls < MaxCalls
  /\ CanSpawn
  /\ calls' = calls + 1
  /\ Becomes(s)
  /\ UNCHANGED <<alive, procVars, crashes>>

Begin(i)   == Called(i, Begun(State, i))
End(i)     == Called(i, Ended(State, i))
Rethumb(i) == Called(i, Rethumbed(State, i))

\* _e_thumb_del_hook: the object is freed.
Delete(i) ==
  /\ i \in alive
  /\ alive' = alive \ {i}
  /\ LET s == TakenBack(State, i) IN
     Becomes(IF i \in s.queued THEN Dequeued(s, i) ELSE s)
  /\ UNCHANGED <<procVars, calls, crashes>>

\* Any message makes its sender a client, in front of the others.
Known(p) ==
  IF Contains(clients, p) THEN State ELSE [State EXCEPT !.clients = <<p>> \o @]

Answered(s, i) ==
  IF i \in alive THEN [Settled(s, i) EXCEPT !.done = @ \cup {i}] ELSE s

\* Mutant of ClientData: the hello does not flush the queue.
ClientDataUnflushed(p) ==
  /\ outbox[p] # <<>>
  /\ LET m == Head(outbox[p]) IN
     \/ m.kind = "answer" /\ Becomes(Answered(Known(p), m.icon))
     \/ m.kind = "hello"  /\ Becomes(Known(p))
  /\ outbox' = [outbox EXCEPT ![p] = Tail(@)]
  /\ UNCHANGED <<alive, term, list, armed, calls, crashes>>

ClientData(p) ==
  /\ outbox[p] # <<>>
  /\ LET m == Head(outbox[p]) IN
     \/ m.kind = "answer" /\ Becomes(Answered(Known(p), m.icon))
     \/ m.kind = "hello"  /\ Becomes(Flushed(Known(p)))
  /\ outbox' = [outbox EXCEPT ![p] = Tail(@)]
  /\ UNCHANGED <<alive, term, list, armed, calls, crashes>>

ClientDel(p) ==
  /\ outbox[p] = <<Eof>>
  /\ Becomes([State EXCEPT !.clients = RemoveFirst(@, p)])
  /\ outbox' = [outbox EXCEPT ![p] = <<>>]
  /\ UNCHANGED <<alive, term, list, armed, calls, crashes>>

KillTimerFires ==
  /\ killTimer
  /\ killTimer' = FALSE
  /\ term' = term \cup exes
  /\ UNCHANGED <<iconVars, pending, cancelled, clients, exes, life, inbox,
                 outbox, list, armed, calls, crashes>>

\* Mutant of ExeDel: requests that wait are forgotten.
ExeDelOnly(p) ==
  /\ p \in exes /\ life[p] = "dead"
  /\ Becomes([State EXCEPT !.exes = @ \ {p}, !.life[p] = "free"])
  /\ UNCHANGED <<alive, procVars, calls, crashes>>

\* ECORE_EXE_EVENT_DEL of a thumbnailer; requests that wait need a new one.
ExeDel(p) ==
  /\ p \in exes /\ life[p] = "dead"
  /\ LET s == [State EXCEPT !.exes = @ \ {p}, !.life[p] = "free"] IN
     \/ s.exes = {} /\ queue # <<>> /\ FreeProc(s) # {} /\ Becomes(Spawned(s))
     \/ ~(s.exes = {} /\ queue # <<>>) /\ Becomes(s)
  /\ UNCHANGED <<alive, procVars, calls, crashes>>

-----------------------------------------------------------------------------
(* The thumbnailer process.                                                *)

Connect(p) ==
  /\ life[p] = "starting"
  /\ life' = [life EXCEPT ![p] = "connected"]
  /\ outbox' = [outbox EXCEPT ![p] = <<Hello>>]
  /\ UNCHANGED <<iconVars, killVars, clients, exes, inbox, term, list, armed,
                 calls, crashes>>

ServerData(p) ==
  /\ inbox[p] # <<>>
  /\ LET m == Head(inbox[p]) IN
     \/ /\ m.kind = "begin"
        /\ list' = [list EXCEPT ![p] = Append(@, m.icon)]
        /\ armed' = armed \cup {p}
     \/ /\ m.kind = "cancel"
        /\ list' = [list EXCEPT ![p] = RemoveFirst(@, m.icon)]
        /\ UNCHANGED armed
  /\ inbox' = [inbox EXCEPT ![p] = Tail(@)]
  /\ UNCHANGED <<iconVars, killVars, clients, exes, life, term, outbox, calls, crashes>>

CbTimer(p) ==
  /\ p \in armed
  /\ \/ /\ list[p] # <<>>
        /\ outbox' = [outbox EXCEPT ![p] = Append(@, AnswerMsg(Head(list[p])))]
        /\ list' = [list EXCEPT ![p] = Tail(@)]
     \/ /\ list[p] = <<>>
        /\ UNCHANGED <<outbox, list>>
  /\ armed' = IF Len(list[p]) > 1 THEN armed ELSE armed \ {p}
  /\ UNCHANGED <<iconVars, killVars, clients, exes, life, inbox, term, calls, crashes>>

\* Messages that were not flushed to the socket die with the process.
Dies(p) ==
  /\ life[p] \in {"starting", "connected"}
  /\ life' = [life EXCEPT ![p] = "dead"]
  /\ term' = term \ {p}
  /\ inbox' = [inbox EXCEPT ![p] = <<>>]
  /\ list' = [list EXCEPT ![p] = <<>>]
  /\ armed' = armed \ {p}
  /\ \/ /\ life[p] = "connected"
        /\ \E n \in 0..Len(outbox[p]) :
             outbox' = [outbox EXCEPT ![p] = Append(SubSeq(@, 1, n), Eof)]
     \/ /\ life[p] = "starting"
        /\ UNCHANGED outbox
  /\ UNCHANGED <<iconVars, killVars, clients, exes, calls>>

Terminated(p) == p \in term /\ Dies(p) /\ UNCHANGED crashes

Crash(p) == crashes < MaxCrashes /\ crashes' = crashes + 1 /\ Dies(p)

-----------------------------------------------------------------------------
\* The two processes that handle events about thumbnailer p.
WindowManager(p) == ClientData(p) \/ ClientDel(p) \/ ExeDel(p)

Thumbnailer(p) == Connect(p) \/ ServerData(p) \/ CbTimer(p)

Next ==
  \/ \E i \in Icon : Begin(i) \/ End(i) \/ Rethumb(i) \/ Delete(i)
  \/ KillTimerFires
  \/ \E p \in Proc :
       WindowManager(p) \/ Thumbnailer(p) \/ Terminated(p) \/ Crash(p)

Spec == Init /\ [][Next]_vars

\* The main loops of both programs handle what has arrived for them, and a
\* timer that is set fires.  What is called, and what dies, is left open.
FairSpec ==
  /\ Spec
  /\ WF_vars(KillTimerFires)
  /\ \A p \in Proc : WF_vars(WindowManager(p)) /\ WF_vars(Thumbnailer(p))

-----------------------------------------------------------------------------
Message == [kind : {"begin", "cancel", "answer"}, icon : Icon] \cup {Hello, Eof}

\* Every variable has its type, and one thumbnailer runs at a time.
TypeOK ==
  /\ alive \subseteq Icon /\ queued \subseteq Icon
  /\ busy \subseteq Icon /\ done \subseteq Icon
  /\ queue \in Seq(Icon)
  /\ pending \in Int
  /\ killTimer \in BOOLEAN /\ cancelled \in BOOLEAN
  /\ clients \in Seq(Proc)
  /\ exes \subseteq Proc /\ Cardinality(exes) <= 1
  /\ term \subseteq Proc /\ armed \subseteq Proc
  /\ life \in [Proc -> {"free", "starting", "connected", "dead"}]
  /\ inbox \in [Proc -> Seq(Message)]
  /\ outbox \in [Proc -> Seq(Message)]
  /\ list \in [Proc -> Seq(Icon)]
  /\ calls \in 0..MaxCalls /\ crashes \in 0..MaxCrashes

\* The queue points at exactly the icons that wait: each once, none of them
\* freed, none of them sent already (e_thumb.c frees eth in the delete hook
\* and only eth->queued says whether _thumb_queue still points at it).
QueueOK ==
  /\ ToSet(queue) = queued
  /\ IsInjective(queue)
  /\ queued \subseteq alive
  /\ queued \cap (busy \cup done) = {}

\* Requests wait only while no thumbnailer is connected, and then one is on
\* its way or its exit is still to be seen: nothing else would wake them.
QueueIsServed ==
  queue # <<>> => clients = <<>> /\ exes # {}

\* As long as no request was taken back after it was sent, _pending counts the
\* busy icons, whatever dies and whatever is lost; a late answer to a request
\* that was taken back can only make it too small.
PendingMatches ==
  /\ pending <= Cardinality(busy)
  /\ ~cancelled => pending = Cardinality(busy)

\* The kill timer never terminates a thumbnailer that has requests to answer,
\* as long as no request was taken back after it was sent.
KillsIdleOnly ==
  [][KillTimerFires /\ ~cancelled => busy = {}]_vars

\* A request that waits is sent or taken back, also when thumbnailers crash
\* or are terminated while they start.
QueueDrains ==
  \A i \in Icon : i \in queued ~> i \notin queued

\* A request that was sent is answered or taken back (e_fm.c:1923 promises a
\* callback when the generation of the thumbnail is over).
BusyAnswered ==
  \A i \in Icon : i \in busy ~> i \notin busy
=============================================================================
