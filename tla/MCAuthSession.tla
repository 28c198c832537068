----------------------------- MODULE MCAuthSession -----------------------------
(* The constants of AuthSession for TLC. *)
EXTENDS AuthSession, TLC

Symmetry == Permutations(Tabs) \cup Permutations(Thieves)
================================================================================
