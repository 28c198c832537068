---------------------------- MODULE MCLinkCreation -----------------------------
(* The constants of LinkCreation for TLC: a code space of 6^2, with two keys  *)
(* that are coprime to it; the codes of ids 1 and 2 as aliases, and one alias *)
(* that is reserved.                                                          *)
EXTENDS LinkCreation, TLC

TakenCodes == {GenerateShortCode(id) : id \in 1..2}
ReservedAliases == {<<0>>}
SomeAliases == TakenCodes \cup ReservedAliases
================================================================================
