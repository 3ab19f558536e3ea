------------------------------ MODULE Lifetime ------------------------------
(***************************************************************************)
(* What an object of the window manager promises, whatever its class:  it  *)
(* goes only when nobody refers to it any more and everybody who wanted to *)
(* know of its end has been told, each once; and once nobody refers to it  *)
(* only those who are being told of its end can keep it.                   *)
(***************************************************************************)
EXTENDS Integers

CONSTANT Listener

VARIABLES
  gone,     \* the object is no more
  grips,    \* how many refer to it
  waiting,  \* who wants to know of its end
  told      \* who has been told

lifetimeVars == <<gone, grips, waiting, told>>

LifetimeInit ==
  /\ gone = FALSE /\ grips \in Nat \ {0}
  /\ waiting \in SUBSET Listener /\ told = {}

\* Those who refer to it let go, refer to it once more, or say who wants to know.
Use ==
  /\ ~gone /\ grips > 0 /\ grips' \in Nat
  /\ waiting' \in SUBSET (Listener \ told)
  /\ UNCHANGED <<gone, told>>

Tell(l) ==
  /\ ~gone /\ l \in waiting
  /\ waiting' = waiting \ {l} /\ told' = told \cup {l}
  /\ grips' \in {grips, grips + 1}
  /\ UNCHANGED gone

Go ==
  /\ ~gone /\ grips = 0 /\ waiting = {}
  /\ gone' = TRUE
  /\ UNCHANGED <<grips, waiting, told>>

LifetimeNext == Use \/ (\E l \in Listener : Tell(l)) \/ Go

LifetimeSpec == LifetimeInit /\ [][LifetimeNext]_lifetimeVars
=============================================================================
