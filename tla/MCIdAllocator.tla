----------------------------- MODULE MCIdAllocator -----------------------------
(* Two instances, two callers in the first and one in the second, blocks of two. *)
EXTENDS IdAllocator, TLC

CONSTANTS i1, i2, c1, c2, c3

MCHost == (c1 :> i1) @@ (c2 :> i1) @@ (c3 :> i2)
================================================================================
