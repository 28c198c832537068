------------------------------- MODULE UniqueIds -------------------------------
(***************************************************************************)
(* What the id allocator promises to the code that creates links: the ids  *)
(* it hands out, over all API instances and over all their restarts, are   *)
(* positive and never repeat.  Nothing is said of their order, nor of the  *)
(* ids that are skipped.                                                   *)
(***************************************************************************)
EXTENDS Naturals, Sequences

CONSTANT Id     \* the ids there are

VARIABLE log    \* the ids handed out so far, in the order they were handed out

Issued == {log[k] : k \in DOMAIN log}

Init == log = <<>>

Issue(id) == /\ id \notin Issued
             /\ log' = Append(log, id)

Next == \E id \in Id : Issue(id)

Spec == Init /\ [][Next]_log
================================================================================
