---------------------------- MODULE MCLinkedTree ----------------------------
(* Two trees in one memory, for TLC. *)
EXTENDS TreeChecks

NodeSymmetry == Permutations(Node)
=============================================================================
