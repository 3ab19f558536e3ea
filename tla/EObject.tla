------------------------------ MODULE EObject -------------------------------
(***************************************************************************)
(* The life of an E_Object (e_object.c): references, deletion at once or   *)
(* by a job, and the walk over the functions that want to know of its end. *)
(* What else touches an object is modelled as four classes of them do it:  *)
(*                                                                         *)
(*   window  (e_win.c, e_popup.c) is deleted by a job; the compositor has  *)
(*           a function in its list, which takes itself out when called    *)
(*   border  (e_border.c) is deleted at once and takes a reference for the *)
(*           event of its removal; the compositor listens as well          *)
(*   client  (e_gadcon.c) is listened to by the gadget container, which    *)
(*           keeps it for the event of its removal while it is being freed *)
(*   dialog  (e_config_dialog.c) is deleted by an idle enterer, with a     *)
(*           function in the list that takes the enterer back; the import  *)
(*           dialog of the wallpapers refers to it                         *)
(*                                                                         *)
(* One main loop runs it all: while the list is walked nothing else runs.  *)
(***************************************************************************)
EXTENDS Integers, SequencesExt

CONSTANTS
  Listener,  \* del_fn_list entries
  MaxHolds   \* bound on the references of others

ASSUME ObjectAssumption == MaxHolds \in Nat

Class == {"window", "border", "client", "dialog"}

VARIABLES
  class,
  memory,    \* there or freed
  references, deleted, job,
  list,      \* del_fn_list
  walking,   \* walking_list
  holds,     \* references that others have taken and will give back
  events,    \* references that events will give back
  idlers,    \* idle enterers that will delete it
  stale,     \* an idle enterer was taken back that was gone
  cleared,   \* history: idle enterers that nothing takes back any more
  told       \* history: listeners that were called

object == <<memory, references, deleted, job, list, walking>>
others == <<holds, events, idlers, stale, cleared, told>>
vars == <<class, object, others>>

\* a client is created with the function of its container and the event that
\* announces it
Init ==
  /\ class \in Class
  /\ memory = "there" /\ deleted = FALSE /\ job = FALSE
  /\ walking = FALSE
  /\ holds = 0 /\ idlers = {} /\ stale = FALSE /\ cleared = {} /\ told = {}
  /\ IF class = "client"
     THEN \E l \in Listener : list = <<l>> /\ events = 1 /\ references = 2
     ELSE list = <<>> /\ events = 0 /\ references = 1

-----------------------------------------------------------------------------
(* e_object.c                                                              *)

\* what the loop can do while the list is not walked
Turn == memory = "there" /\ ~walking /\ UNCHANGED <<class, memory, told, stale>>

\* Mutant: given back twice.
UnrefTwice(remaining) ==
  /\ references' = remaining - 1
  /\ walking' = (remaining <= 1)

\* e_object_unref, with what remains of the references that are given back: the
\* last one starts e_object_free
Unref(remaining) ==
  /\ references' = remaining
  /\ walking' = (remaining = 0)

\* del_func of a border takes one for the event, unless the border is new
TakenByDel == IF class = "border" THEN {0, 1} ELSE {0}

\* e_object_del
Del ==
  IF deleted THEN UNCHANGED <<deleted, job, references, walking, events>>
  ELSE /\ deleted' = TRUE
       /\ IF class = "window"
          THEN job' = TRUE /\ UNCHANGED <<references, walking, events>>
          ELSE /\ \E taken \in TakenByDel :
                    events' = events + taken /\ Unref(references + taken - 1)
               /\ UNCHANGED job

Delete ==
  /\ Turn
  /\ Del
  /\ UNCHANGED <<list, holds, idlers, cleared>>

\* Mutant: the job adds a reference of its own to the one it gives back
JobRunsTwice ==
  /\ Turn /\ job
  /\ job' = FALSE
  /\ Unref(references)
  /\ UNCHANGED <<deleted, list, holds, events, idlers, cleared>>

\* Mutant: the job does not give back the reference the deletion has kept for it
JobRunsUncounted ==
  /\ Turn /\ job
  /\ job' = FALSE
  /\ UNCHANGED <<references, walking, deleted, list, holds, events, idlers, cleared>>

\* _delay_del
JobRuns ==
  /\ Turn /\ job
  /\ job' = FALSE
  /\ Unref(references - 1)
  /\ UNCHANGED <<deleted, list, holds, events, idlers, cleared>>

\* e_object_delfn_add
Listen(l) ==
  /\ Turn /\ class \in {"window", "border"} /\ l \notin ToSet(list) \cup told
  /\ list' = Append(list, l)
  /\ UNCHANGED <<references, deleted, job, walking, holds, events, idlers, cleared>>

\* e_object_delfn_del, by one who is not called
Leave(i) ==
  /\ Turn /\ class \in {"window", "border"}
  /\ list' = RemoveAt(list, i)
  /\ UNCHANGED <<references, deleted, job, walking, holds, events, idlers, cleared>>

-----------------------------------------------------------------------------
(* Those who refer to it.                                                  *)

Hold ==
  /\ Turn /\ holds < MaxHolds
  /\ holds' = holds + 1 /\ references' = references + 1
  /\ UNCHANGED <<deleted, job, list, walking, events, idlers, cleared>>

\* Mutant: the import dialog gives its reference back and nothing else
ClearsNothing == UNCHANGED <<list, cleared>>

\* _apply_import_del: the import dialog "gets rid of the idler delete function"
\* before it gives its reference back
Clears ==
  IF class = "dialog" THEN list' = <<>> /\ cleared' = cleared \cup idlers
  ELSE UNCHANGED <<list, cleared>>

Release ==
  /\ Turn /\ holds > 0
  /\ holds' = holds - 1
  /\ Clears
  /\ Unref(references - 1)
  /\ UNCHANGED <<deleted, job, events, idlers>>

\* an event was delivered and is freed
EventFreed ==
  /\ Turn /\ events > 0
  /\ events' = events - 1
  /\ Unref(references - 1)
  /\ UNCHANGED <<deleted, job, list, holds, idlers, cleared>>

\* e_util_defer_object_del
Defer(l) ==
  /\ Turn /\ class = "dialog" /\ l \notin ToSet(list) \cup told \cup idlers
  /\ idlers' = idlers \cup {l} /\ list' = Append(list, l)
  /\ cleared' = cleared \ {l}
  /\ UNCHANGED <<references, deleted, job, walking, holds, events>>

\* _e_util_cb_delayed_del; what it would do to a freed object is undefined. The
\* enterer is still there while it is called, also to be taken back.
IdlerRuns(l) ==
  /\ Turn /\ l \in idlers
  /\ Del
  /\ idlers' = IF walking' THEN idlers ELSE idlers \ {l}
  /\ UNCHANGED <<list, holds, cleared>>

-----------------------------------------------------------------------------
(* e_object_free.                                                          *)

\* what the function of a listener does to the object; one that takes its own entry
\* out only marks it (delete_me), and the walk frees it after the call
Called(l) ==
  /\ told' = told \cup {l}
  /\ IF class = "client" THEN references' = references + 1 /\ events' = events + 1
     ELSE UNCHANGED <<references, events>>
  /\ IF class = "dialog" THEN idlers' = idlers \ {l} /\ stale' = (stale \/ l \notin idlers)
     ELSE UNCHANGED <<idlers, stale>>

\* Mutant: an entry that takes itself out is freed at once, and the walk frees the next one
WalkCallsFrees ==
  /\ walking /\ list # <<>>
  /\ Called(Head(list))
  /\ list' = IF class = "window" /\ Len(list) > 1 THEN Tail(Tail(list)) ELSE Tail(list)
  /\ UNCHANGED <<class, memory, deleted, job, walking, holds, cleared>>

WalkCalls ==
  /\ walking /\ list # <<>>
  /\ Called(Head(list))
  /\ list' = Tail(list)
  /\ UNCHANGED <<class, memory, deleted, job, walking, holds, cleared>>

\* Mutant: references taken during the walk are not looked at
WalkEndsBlind ==
  /\ walking /\ list = <<>>
  /\ walking' = FALSE
  /\ memory' = "freed"
  /\ UNCHANGED <<class, references, deleted, job, list, others>>

\* it lives on if one of those who were called has taken a reference
WalkEnds ==
  /\ walking /\ list = <<>>
  /\ walking' = FALSE
  /\ memory' = IF references > 0 THEN "there" ELSE "freed"
  /\ UNCHANGED <<class, references, deleted, job, list, others>>

Walk == WalkCalls \/ WalkEnds

-----------------------------------------------------------------------------
Next ==
  \/ Delete \/ JobRuns \/ Hold \/ Release \/ EventFreed \/ Walk
  \/ \E l \in Listener : Listen(l) \/ Defer(l) \/ IdlerRuns(l)
  \/ \E i \in DOMAIN list : Leave(i)

Spec == Init /\ [][Next]_vars

\* The main loop runs jobs and idle enterers, frees the events it has delivered,
\* and a walk goes through; nobody is obliged to give a reference back.
FairSpec ==
  /\ Spec
  /\ WF_vars(Walk) /\ WF_vars(JobRuns) /\ WF_vars(EventFreed)
  /\ \A l \in Listener : WF_vars(IdlerRuns(l))

-----------------------------------------------------------------------------
(* Properties.                                                             *)

TypeOK ==
  /\ class \in Class /\ memory \in {"there", "freed"}
  /\ references \in Nat /\ holds \in 0 .. MaxHolds /\ events \in Nat
  /\ deleted \in BOOLEAN /\ job \in BOOLEAN /\ walking \in BOOLEAN /\ stale \in BOOLEAN
  /\ list \in Seq(Listener)
  /\ idlers \subseteq Listener /\ cleared \subseteq Listener /\ told \subseteq Listener

\* the reference the object was made with is given back by e_object_del or its job
OwnersGrip == IF ~deleted \/ job THEN 1 ELSE 0
Grips == OwnersGrip + holds + events

\* The count is the number of those who refer to the object: nobody, also not the
\* function that posts an event about an object on its way out, gives back a
\* reference it has not taken or takes one it does not give back.
CountIsRight == memory = "there" => references = Grips

\* What is freed is referred to by no event, holder or job, and by an idle enterer
\* only if somebody has cleared its entry (two deletions deferred at once).
FreedUnseen ==
  memory = "freed" =>
    /\ references = 0 /\ holds = 0 /\ events = 0 /\ ~job /\ ~walking
    /\ idlers \subseteq cleared

\* The walk never takes back an idle enterer that has run: the entry of one that
\* could not free the object is still in the list when the last reference goes.
NoStaleIdler == ~stale

\* An object goes only when nobody refers to it and everybody in its list has been
\* called, each once, although being called may give it another reference.
L == INSTANCE Lifetime WITH
       gone <- memory = "freed",
       grips <- Grips,
       waiting <- ToSet(list),
       told <- told

Implements == L!LifetimeSpec

\* What is deleted is freed, once those who hold it have given it back for good.
DeletedGoes == <>[](holds = 0) => (deleted ~> memory = "freed")

=============================================================================
