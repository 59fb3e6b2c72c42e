---------------------------- MODULE MCAuthService ----------------------------
(* Instances of AuthService for TLC. *)
EXTENDS AuthService, TLC

(* Requests, tokens and links are alike. *)
Symmetry == Permutations(Requests) \cup Permutations(Tokens) \cup Permutations(Links)
=============================================================================
