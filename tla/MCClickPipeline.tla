---------------------------- MODULE MCClickPipeline ----------------------------
(* The constants of ClickPipeline for TLC. *)
EXTENDS ClickPipeline, TLC

Symmetry == Permutations(Instances) \cup Permutations(Urls)
================================================================================
