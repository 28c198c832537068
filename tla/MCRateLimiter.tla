----------------------------- MODULE MCRateLimiter -----------------------------
(* The constants of RateLimiter for TLC. *)
EXTENDS RateLimiter, TLC

(* apiLimiter and createLimiter; loginLimiter and registerLimiter;         *)
(* redirectLimiter; missLimiter.                                           *)
AllLimiters == {[store |-> "redis", miss |-> FALSE, block |-> 0],
                [store |-> "redis", miss |-> FALSE, block |-> 2 * Window],
                [store |-> "memory", miss |-> FALSE, block |-> 0],
                [store |-> "memory", miss |-> TRUE, block |-> 2 * Window]}

Symmetry == Permutations(Requests)
================================================================================
