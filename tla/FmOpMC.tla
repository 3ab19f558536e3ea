------------------------------- MODULE FmOpMC -------------------------------
(***************************************************************************)
(* Small source trees for FmOp.  a and b are files (a of one chunk, b of   *)
(* two, c empty), d and e are directories, sock is a socket.               *)
(***************************************************************************)
EXTENDS FmOp

CONSTANTS a, b, c, d, e, sock

SizeOf(n) == CASE n = a -> 1 [] n = b -> 2 [] OTHER -> 0

\* Three files and a socket as arguments.
FlatNode   == {a, b, c, sock}
FlatParent == [n \in FlatNode |-> NoNode]
FlatKind   == [n \in FlatNode |-> IF n = sock THEN "special" ELSE "file"]
FlatSize   == [n \in FlatNode |-> SizeOf(n)]
FlatArgs   == <<a, b, c, sock>>

\* A directory with a file and a directory with a file in it.
NestNode   == {a, b, d, e}
NestParent == [n \in NestNode |->
                 CASE n = d -> NoNode [] n = a -> e [] OTHER -> d]
NestKind   == [n \in NestNode |-> IF n \in {d, e} THEN "dir" ELSE "file"]
NestSize   == [n \in NestNode |-> SizeOf(n)]
NestArgs   == <<d>>

\* Two arguments: a directory with a file, and a file.
MixedNode   == {a, b, d}
MixedParent == [n \in MixedNode |-> IF n = a THEN d ELSE NoNode]
MixedKind   == [n \in MixedNode |-> IF n = d THEN "dir" ELSE "file"]
MixedSize   == [n \in MixedNode |-> SizeOf(n)]
MixedArgs   == <<d, b>>

=============================================================================
