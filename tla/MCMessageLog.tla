---------------------------- MODULE MCMessageLog ----------------------------
(* Small instances of MessageLog for TLC. *)
EXTENDS MessageLog, TLC

CONSTANTS c1, c2

Symmetry == Permutations(Chats)
=============================================================================
