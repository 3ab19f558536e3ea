------------------------------ MODULE FmViewMC ------------------------------
(***************************************************************************)
(* Small instances of FmView.                                              *)
(***************************************************************************)
EXTENDS FmView

CONSTANTS v1, v2

\* one view of a directory that is changed twice, and two views of an empty one
Mixed ==
  {[there |-> {{}, Name}, views |-> {v1}, changes |-> 2, moves |-> 2],
   [there |-> {{}}, views |-> {v1, v2}, changes |-> 0, moves |-> 4]}

\* one view of a directory that holds two files and is not changed
Unchanged == {[there |-> {File}, views |-> {v1}, changes |-> 0, moves |-> 1]}

=============================================================================
