------------------------------ MODULE MCLinkCache ------------------------------
EXTENDS LinkCache, TLC

Symmetry == Permutations(Instances) \cup Permutations(Requests) \cup Permutations(Writers)
================================================================================
