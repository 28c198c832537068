------------------------------ MODULE MCWebLinks -------------------------------
(* The constants of WebLinks for TLC. *)
EXTENDS WebLinks, TLC
================================================================================
