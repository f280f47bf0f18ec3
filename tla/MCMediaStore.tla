---------------------------- MODULE MCMediaStore ----------------------------
(* Small instances of MediaStore for TLC. *)
EXTENDS MediaStore, TLC

CONSTANTS c1, c2, m1, m2, m3, t1, t2

\* A small and a large file of one chat, a small one of another.
ChatOfThree == m1 :> c1 @@ m2 :> c1 @@ m3 :> c2
SizeOfThree == m1 :> 1 @@ m2 :> 2 @@ m3 :> 1
=============================================================================
