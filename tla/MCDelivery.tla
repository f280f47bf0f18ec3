----------------------------- MODULE MCDelivery -----------------------------
(* Small instances of Delivery for TLC. *)
EXTENDS Delivery, TLC

CONSTANTS c1, c2, j1, j2, j3, w1, w2

\* Two jobs of one chat and one of another.
ChatOfThree == j1 :> c1 @@ j2 :> c1 @@ j3 :> c2
ChatOfTwo   == j1 :> c1 @@ j2 :> c2
Symmetry    == Permutations(Workers)
=============================================================================
