--------------------------- MODULE MCCStructOrder ---------------------------
(* Every file of three messages. *)
EXTENDS CStructOrder, TLC

CONSTANTS A, B, C

Symmetry == Permutations(Messages)
=============================================================================
