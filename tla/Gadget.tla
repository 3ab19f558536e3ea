------------------------------- MODULE Gadget -------------------------------
(***************************************************************************)
(* The gadgets of the shelves (e_gadcon.c) and their drag and drop         *)
(* (e_dnd.c): a shelf shows a client for every gadget of its configuration *)
(* whose class is loaded; shelves are refreshed and built again, classes   *)
(* come and go, and a gadget is dragged from shelf to shelf, which shows   *)
(* a second client of it where it would be dropped.                        *)
(*                                                                         *)
(* A client is referred to by its owner, the drag and the events of the    *)
(* queue. The main loop handles a batch of what it has read (clicks,       *)
(* moves, requests), then everything in the queue, then reads again.       *)
(***************************************************************************)
EXTENDS Integers, SequencesExt, FiniteSetsExt

CONSTANTS
  Shelf, Class,
  Gadget,     \* entries of the configuration (E_Config_Gadcon_Client)
  ClassOf,    \* their classes
  Client,     \* E_Gadcon_Client; bounds how many there are at a time
  MaxBatch,   \* bound on what is read at once
  None

ASSUME GadgetAssumption ==
  /\ ClassOf \in [Gadget -> Class] /\ MaxBatch \in Nat \ {0}
  /\ IsFiniteSet(Shelf) /\ IsFiniteSet(Gadget) /\ IsFiniteSet(Client)
  /\ None \notin Shelf \cup Gadget \cup Client

VARIABLES
  batch,  \* what is left of what was read
  w       \* everything else

vars == <<batch, w>>

Nobody == [shelf |-> None, cf |-> None, class |-> None, refs |-> 0, deleted |-> FALSE,
           told |-> FALSE, hidden |-> FALSE, freed |-> TRUE]

\* the clients, the lists of each shelf, the queue, and the drag with the shelf the
\* pointer is over
Start(config) ==
  [client |-> [c \in Client |-> Nobody],
   clients |-> [s \in Shelf |-> <<>>],        \* gc->clients
   config |-> config,                         \* gc->cf->clients
   awaiting |-> [s \in Shelf |-> {}],         \* gc->awaiting_classes
   requests |-> [s \in Shelf |-> {}],         \* gc->populate_requests
   populated |-> [s \in Shelf |-> {}],        \* gc->populated_classes
   new |-> [s \in Shelf |-> None],            \* gc->new_gcc
   providers |-> {},
   queue |-> <<>>,
   dragged |-> None, over |-> None, active |-> {},
   deleted |-> {},                            \* freed entries of the configuration
   thrown |-> {},     \* history: those the user has removed or dropped nowhere
   mishaps |-> {},    \* history: what went wrong; see below
   short |-> FALSE]   \* there were not enough clients

Event(kind, c) == [kind |-> kind, gcc |-> c]

(***************************************************************************)
(* What the code is known to get wrong, after which less is promised:      *)
(*   "dangling"     a client was not gone when its shelf was emptied, and  *)
(*                  the reference of the drag or of an event was dropped   *)
(*   "repopulated"  a shelf was emptied that shows where the gadget would  *)
(*                  be dropped: its new_gcc is deleted and still pointed at*)
(*   "unloaded"     the class of the dragged gadget was unregistered       *)
(*   "requeued"     a class was unregistered with a client that is deleted *)
(*                  and still on its shelf: its gadget, or what it has for *)
(*                  one, is queued for that shelf again                    *)
(*   "shared"       a configuration was freed with another client that     *)
(*                  reads it                                               *)
(*   "wild"         freed memory was used; nothing more is said            *)
(***************************************************************************)

-----------------------------------------------------------------------------
(* References.                                                             *)

\* a step that touches what is freed; what follows is undefined
Wild(x) == [x EXCEPT !.mishaps = @ \cup {"wild"}]

\* _e_gadcon_client_delfn without a drag: the configuration is read for id_del, the
\* client leaves its shelf and is kept for the event of its removal
Removed(x, c) ==
  LET gcc == x.client[c]
      y == [x EXCEPT !.client[c] = [gcc EXCEPT !.told = TRUE, !.refs = gcc.refs + 1],
                     !.clients[gcc.shelf] = RemoveFirst(@, c),
                     !.queue = Append(@, Event("del", c))]
  IN IF gcc.cf \in x.deleted THEN Wild(y) ELSE y

\* e_object_free: the function is called once, and has taken a reference
Freed(x, c) ==
  IF x.client[c].told THEN [x EXCEPT !.client[c] = Nobody] ELSE Removed(x, c)

\* e_object_unref of a client that is not dragged
UnrefOther(x, c) ==
  IF x.client[c].freed THEN Wild(x)
  ELSE IF x.client[c].refs = 0 THEN x
  ELSE LET y == [x EXCEPT !.client[c].refs = @ - 1]
       IN IF y.client[c].refs = 0 THEN Freed(y, c) ELSE y

\* e_object_del
DelOther(x, c) ==
  IF x.client[c].freed THEN Wild(x)
  ELSE IF x.client[c].deleted THEN x
  ELSE UnrefOther([x EXCEPT !.client[c].deleted = TRUE], c)

\* e_gadcon_client_config_del, for the client that is to have none
ConfigDel(x, g, gcc) ==
  IF g = None THEN x
  ELSE IF g \in x.deleted THEN Wild(x)
  ELSE [x EXCEPT !.deleted = @ \cup {g},
                 !.awaiting = [s \in Shelf |-> @[s] \ {g}],
                 !.mishaps = @ \cup (IF \E c \in Client : /\ ~x.client[c].freed /\ ~x.client[c].told
                                                          /\ x.client[c].cf = g /\ c # gcc
                                     THEN {"shared"} ELSE {})]

-----------------------------------------------------------------------------
(* The drag.                                                               *)

\* (mutant: the client that shows where the gadget would go stays)
LeaveNew(x, s) ==
  IF x.client[x.dragged].shelf = s
  THEN [x EXCEPT !.client[x.dragged].hidden = TRUE] ELSE x

\* _e_gadcon_cb_dnd_leave
Leave(x, s) ==
  LET hid == IF x.client[x.dragged].shelf = s
             THEN [x EXCEPT !.client[x.dragged].hidden = TRUE] ELSE x
  IN IF x.new[s] = None THEN hid
     ELSE [DelOther(hid, x.new[s]) EXCEPT !.new[s] = None]

\* the pointer leaves the shelf it is over, if it is over one
Left(x) == IF x.over = None THEN x ELSE [Leave(x, x.over) EXCEPT !.over = None]

\* (mutant: the client keeps the configuration that was freed)
FinishedKeepsConfig(x, c, dropped) ==
  LET kept == IF dropped THEN x ELSE DelOther(ConfigDel(x, x.client[c].cf, c), c)
  IN [kept EXCEPT !.dragged = None, !.active = {}, !.over = None,
                  !.new[x.client[c].shelf] = None]

\* e_gadcon_drag_finished_cb for the client the drag is about, up to its reference
Finished(x, c, dropped) ==
  LET kept == IF dropped THEN x
              ELSE LET y == ConfigDel(x, x.client[c].cf, c)
                   IN DelOther([y EXCEPT !.client[c].cf = None], c)
  IN [kept EXCEPT !.dragged = None, !.active = {}, !.over = None,
                  !.new[x.client[c].shelf] = None]

\* (mutant: the reference of the drag is not given back)
EndKeepsRef(x, c, dropped) == Finished(x, c, dropped)

\* _e_drag_end, over nothing or with a shelf that has taken it
End(x, c, dropped) == UnrefOther(Finished(x, c, dropped), c)

\* e_object_unref, also of the client that is dragged: when its last reference goes,
\* _e_drag_free leaves the shelf and ends the drag
Unref(x, c) ==
  IF c = x.dragged /\ x.client[c].refs = 1
  THEN Freed(Finished(Left([x EXCEPT !.client[c].refs = 0]), c, FALSE), c)
  ELSE UnrefOther(x, c)

Del(x, c) ==
  IF x.client[c].freed \/ x.client[c].deleted THEN DelOther(x, c)
  ELSE Unref([x EXCEPT !.client[c].deleted = TRUE], c)

-----------------------------------------------------------------------------
(* Populating a shelf.                                                     *)

\* e_gadcon_client_new, with what its callers set: it is listed and announced. What
\* something still points at is not used again.
NewClient(x, s, g) ==
  LET free == {c \in Client :
                 /\ x.client[c].freed /\ c # x.dragged
                 /\ \A t \in Shelf : x.new[t] # c
                 /\ \A i \in DOMAIN x.queue : x.queue[i].gcc # c}
      c == CHOOSE d \in free : TRUE
  IN IF free = {} THEN [x EXCEPT !.short = TRUE]
     ELSE [x EXCEPT !.client[c] = [shelf |-> s, cf |-> g, class |-> ClassOf[g], refs |-> 2,
                                   deleted |-> FALSE, told |-> FALSE, hidden |-> FALSE,
                                   freed |-> FALSE],
                    !.clients[s] = Append(@, c),
                    !.queue = Append(@, Event("add", c))]

\* e_gadcon_client_queue
Queue(x, s, g) ==
  IF g = None \/ g \in x.deleted THEN Wild(x)
  ELSE [x EXCEPT !.awaiting[s] = @ \cup {g}]

\* _e_gadcon_provider_populate_request; the job goes to the end of the queue
Job == Event("job", None)

Request(x, s, k) ==
  IF k \in x.requests[s] THEN x
  ELSE [x EXCEPT !.requests[s] = @ \cup {k}, !.queue = Append(RemoveFirst(@, Job), Job)]

\* _e_gadcon_client_populate
PopulateOne(x, s, g) ==
  IF ClassOf[g] \in x.populated[s] THEN NewClient(x, s, g) ELSE Request(x, s, ClassOf[g])

\* e_gadcon_populate
Populate(x, s) ==
  FoldSet(LAMBDA g, y :
            CASE ClassOf[g] \notin y.providers -> Queue(y, s, g)
              [] ClassOf[g] \notin y.populated[s] -> Queue(Request(y, s, ClassOf[g]), s, g)
              [] OTHER -> PopulateOne(y, s, g),
          x, x.config[s])

\* one turn of e_gadcon_unpopulate; a client that is not gone after its deletion is
\* taken for a bug, and the reference of somebody else is given back
UnpopulateOne(x, s, c) ==
  IF c \notin ToSet(x.clients[s]) THEN x
  ELSE LET y == [Del(x, c) EXCEPT !.mishaps = IF \E t \in Shelf : x.new[t] = c
                                              THEN @ \cup {"repopulated"} ELSE @]
       IN IF c \notin ToSet(y.clients[s]) THEN y
          ELSE Unref([y EXCEPT !.mishaps = @ \cup {"dangling"}], c)

Unpopulate(x, s) ==
  [FoldLeft(LAMBDA y, c : UnpopulateOne(y, s, c), x, x.clients[s])
     EXCEPT !.awaiting[s] = {}]

\* _e_gadcon_provider_populate_job: e_gadcon_populate_class finds the classes that
\* were requested not populated and asks for them again, which changes nothing
JobRuns(x) ==
  FoldSet(LAMBDA s, y :
            LET classes == y.requests[s]
                waiting == {g \in y.awaiting[s] : ClassOf[g] \in classes}
            IN FoldSet(LAMBDA g, z : PopulateOne(z, s, g),
                       [y EXCEPT !.requests[s] = {}, !.populated[s] = @ \cup classes,
                                 !.awaiting[s] = @ \ waiting],
                       waiting),
          x, Shelf)

-----------------------------------------------------------------------------
(* The main loop.                                                          *)

\* nothing is there that a step may not touch
Sane == "wild" \notin w.mishaps

Read ==
  /\ batch = 0 /\ w.queue = <<>>
  /\ batch' \in 1 .. MaxBatch
  /\ UNCHANGED w

\* a step that handles one thing that was read and does x
Handles(x) ==
  /\ Sane /\ batch > 0
  /\ batch' = batch - 1
  /\ w' = x /\ ~x.short

\* the queue is handled when the batch is; freeing an event gives its reference back
Deliver ==
  /\ Sane /\ batch = 0 /\ w.queue # <<>>
  /\ LET rest == [w EXCEPT !.queue = Tail(@)]
     IN w' = IF Head(w.queue) = Job THEN JobRuns(rest) ELSE Unref(rest, Head(w.queue).gcc)
  /\ ~w'.short
  /\ UNCHANGED batch

-----------------------------------------------------------------------------
(* What is read.                                                           *)

Shown(c) == ~w.client[c].freed /\ ~w.client[c].deleted /\ c \notin {w.new[s] : s \in Shelf}

\* _e_shelf_cb_menu_refresh and the changes of the shelf's configuration
Refresh(s) == Handles(Populate(Unpopulate(w, s), s))

\* the shelf is deleted and made again (e_shelf_config_new): its drop handler takes no
\* part in a drag that has begun
Rebuild(s) ==
  LET gone == Unpopulate(w, s)
  IN Handles(Populate([gone EXCEPT !.populated[s] = {}, !.requests[s] = {}, !.new[s] = None,
                                   !.active = @ \ {s},
                                   !.over = IF @ = s THEN None ELSE @], s))

\* a gadget is added in the dialog of the shelf's contents
Add(s, g) ==
  /\ w.dragged = None /\ ClassOf[g] \in w.providers
  /\ g \in w.deleted /\ \A c \in Client : w.client[c].cf # g
  /\ Handles(Populate(Unpopulate([w EXCEPT !.config[s] = @ \cup {g}, !.deleted = @ \ {g},
                                           !.thrown = @ \ {g}], s), s))

\* _e_gadcon_client_cb_menu_remove
MenuRemove(c) ==
  /\ w.dragged = None /\ Shown(c)
  /\ LET s == w.client[c].shelf
         g == w.client[c].cf
         freed == [ConfigDel([w EXCEPT !.thrown = @ \cup {g}], g, c)
                     EXCEPT !.config[s] = @ \ {g}, !.client[c].cf = None]
     IN Handles(Populate(Unpopulate(Del(freed, c), s), s))

\* e_gadcon_provider_register
Register(k) ==
  /\ k \notin w.providers
  /\ Handles(FoldSet(LAMBDA s, y : IF \E g \in y.awaiting[s] : ClassOf[g] = k
                                   THEN Request(y, s, k) ELSE y,
                     [w EXCEPT !.providers = @ \cup {k}], Shelf))

\* e_gadcon_provider_unregister
Unregister(k) ==
  /\ k \in w.providers
  /\ LET listed == UNION {ToSet(w.clients[s]) : s \in Shelf}
         its == {c \in listed : w.client[c].class = k}
         left == [s \in Shelf |-> w.requests[s] \ {k}]
         x == [w EXCEPT !.requests = left,
                        !.queue = IF \A s \in Shelf : left[s] = {} THEN RemoveFirst(@, Job) ELSE @,
                        !.populated = [s \in Shelf |-> @[s] \ {k}],
                        !.mishaps = @ \cup (IF w.dragged \in its THEN {"unloaded"} ELSE {})
                                      \cup (IF \E c \in its : w.client[c].deleted
                                            THEN {"requeued"} ELSE {})]
         y == FoldSet(LAMBDA c, z :
                        LET q == Queue(z, z.client[c].shelf, z.client[c].cf)
                        IN Del([q EXCEPT !.client[c].hidden = TRUE], c), x, its)
     IN Handles([y EXCEPT !.providers = @ \ {k}])

\* _e_gadcon_client_drag_begin
DragBegin(c) ==
  /\ w.dragged = None /\ Shown(c) /\ c \in ToSet(w.clients[w.client[c].shelf])
  /\ \E hidden \in BOOLEAN :
       LET gcc == w.client[c]
       IN Handles([w EXCEPT !.dragged = c, !.active = Shelf,
                            !.client[c] = [gcc EXCEPT !.refs = gcc.refs + 1, !.hidden = hidden],
                            !.config[gcc.shelf] = @ \ {gcc.cf}])

\* _e_gadcon_cb_dnd_enter: over its own shelf the gadget shows itself, until it has
\* left it
MoveOnto(s) ==
  /\ w.dragged # None /\ w.over = None /\ s \in w.active
  /\ LET c == w.dragged
         g == w.client[c].cf
         x == IF w.new[s] = None THEN w ELSE [DelOther(w, w.new[s]) EXCEPT !.new[s] = None]
         y == NewClient(x, s, g)
         fresh == CHOOSE d \in Client : x.client[d] # y.client[d]
     IN Handles(CASE ~w.client[c].hidden /\ w.client[c].shelf = s -> [w EXCEPT !.over = s]
                  [] ClassOf[g] \notin w.providers -> [x EXCEPT !.over = s, !.client[c].hidden = TRUE]
                  [] y.short -> y
                  [] OTHER -> [y EXCEPT !.over = s, !.new[s] = fresh, !.client[c].hidden = TRUE])

MoveOff ==
  /\ w.dragged # None /\ w.over # None
  /\ Handles(Left(w))

\* (mutant: dropped where it was taken, the gadget is not put back)
DropOnNew ==
  /\ w.dragged # None /\ w.over # None
  /\ LET c == w.dragged
         s == w.over
         y == IF w.new[s] = None THEN [w EXCEPT !.client[c].hidden = FALSE]
              ELSE [Del([w EXCEPT !.config[s] = @ \cup {w.client[c].cf}], c)
                      EXCEPT !.new[s] = None]
     IN Handles(End(y, c, TRUE))

\* _e_gadcon_cb_dnd_drop
DropOn ==
  /\ w.dragged # None /\ w.over # None
  /\ LET c == w.dragged
         s == w.over
         x == [w EXCEPT !.config[s] = @ \cup {w.client[c].cf}]
         y == IF w.new[s] = None THEN [x EXCEPT !.client[c].hidden = FALSE]
              ELSE [Del(x, c) EXCEPT !.new[s] = None]
     IN Handles(End(y, c, TRUE))

DropNowhere ==
  /\ w.dragged # None /\ w.over = None
  /\ Handles(End([w EXCEPT !.thrown = @ \cup {w.client[w.dragged].cf}], w.dragged, FALSE))

\* nothing of what was read concerns the gadgets
Other == Handles(w)

-----------------------------------------------------------------------------
Init ==
  /\ batch = 0
  /\ \E config \in [Shelf -> SUBSET Gadget] :
       /\ \A g \in Gadget : Cardinality({s \in Shelf : g \in config[s]}) = 1
       /\ w = FoldSet(LAMBDA s, x : Populate(x, s), Start(config), Shelf)

Next ==
  \/ Read \/ Deliver \/ Other
  \/ \E s \in Shelf : Refresh(s) \/ Rebuild(s) \/ MoveOnto(s) \/ \E g \in Gadget : Add(s, g)
  \/ \E c \in Client : MenuRemove(c) \/ DragBegin(c)
  \/ \E k \in Class : Register(k) \/ Unregister(k)
  \/ MoveOff \/ DropOn \/ DropNowhere

Spec == Init /\ [][Next]_vars

-----------------------------------------------------------------------------
(* Properties.                                                             *)

Without(m) == w.mishaps \cap m = {}

Events(c) == Cardinality({i \in DOMAIN w.queue : w.queue[i].gcc = c})

\* A client has one reference of its owner until it is deleted, one of the drag and
\* one for each event that names it (e_object_ref and _unref in e_gadcon.c, e_dnd.c):
\* it is freed neither early nor never.
RefsCounted ==
  Without({"dangling", "wild"}) =>
    \A c \in Client : ~w.client[c].freed =>
      w.client[c].refs = (IF w.client[c].deleted THEN 0 ELSE 1)
                         + (IF w.dragged = c THEN 1 ELSE 0) + Events(c)

\* No client and no configuration is used after it was freed, unless one of the
\* known mishaps came first (_e_gadcon_client_delfn reads gcc->cf, the drag reads
\* new_gcc, the events are freed with their clients).
NothingWild == w.mishaps \subseteq {"wild"} => Sane

\* DragBegin takes a gadget out of the configuration and only the drop puts it back:
\* it is in the configuration of a shelf, being dragged, or was thrown away by the
\* user, whatever shelves and classes do meanwhile.
NoGadgetLost ==
  Without({"dangling", "wild"}) => \A g \in Gadget :
    \/ g \in w.thrown
    \/ w.dragged # None /\ w.client[w.dragged].cf = g
    \/ \E s \in Shelf : g \in w.config[s]

Quiet == batch = 0 /\ w.queue = <<>> /\ w.dragged = None

\* When all is handled every shelf shows each gadget of its configuration whose
\* class is loaded once, and nothing else: what drags, requests of classes,
\* refreshes and removals have left behind.
ShelvesShowConfig ==
  Quiet /\ w.mishaps = {} => \A s \in Shelf :
    LET shown == {g \in w.config[s] : ClassOf[g] \in w.providers}
    IN /\ {w.client[c].cf : c \in ToSet(w.clients[s])} = shown
       /\ Len(w.clients[s]) = Cardinality(shown)

\* "e_object_del does remove gcc from gc->clients", and where it does not it is a
\* bug in "rare and as-yet undetermined circumstances" (e_gadcon_unpopulate).
DelRemoves == "dangling" \notin w.mishaps
=============================================================================
