----------------------------- MODULE MCWebSession ------------------------------
(* The constants of WebSession for TLC. *)
EXTENDS WebSession, TLC
================================================================================
