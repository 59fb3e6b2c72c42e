------------------------------- MODULE MCGame ------------------------------
(***************************************************************************)
(* The game of one user for TLC: two requests at a time on two elements,   *)
(* whose rows they may lock in opposite orders.                            *)
(***************************************************************************)
EXTENDS GameSessionProperties, TLC

Symmetry == Permutations(Requests) \cup Permutations(SetIds)
  \cup Permutations(Elements)

=============================================================================
