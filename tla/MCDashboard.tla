---------------------------- MODULE MCDashboard ----------------------------
(* A small instance of Dashboard for TLC. *)
EXTENDS Dashboard, TLC

CONSTANTS ip, o1, o2, c1, a, quoted

\* All operators behind one ingress.
OneAddress == [o \in Operators |-> ip]

Symmetry == Permutations(Operators)
=============================================================================
