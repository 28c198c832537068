------------------------------ MODULE IdAllocator ------------------------------
(***************************************************************************)
(* apps/api/src/services/idAllocator.service.ts.                           *)
(*                                                                         *)
(* Every API instance hands out ids from a block reserved with one         *)
(* nextval() on a Postgres sequence; concurrent callers of an instance     *)
(* that finds its block used up share one refill promise.  A call is       *)
(* modelled from nextId() to the return of its id: it may return at once,  *)
(* or wait for a refill, be woken and look again.  A refill promise is     *)
(* named by the call that created it.  The database may refuse the query   *)
(* or lose its answer, and an instance may crash at any moment.            *)
(***************************************************************************)
EXTENDS Naturals, Sequences

CONSTANTS
    Instances,      \* API processes
    Callers,        \* call sites: each makes one nextId() call at a time
    Host,           \* Host[c] is the process in which c runs
    BlockSize,      \* BLOCK_SIZE, 1000 in the code
    MaxSeq,         \* bound: nextval() answers no more than this
    NoCaller

ASSUME HostAssumption == Host \in [Callers -> Instances]
ASSUME BlockAssumption == BlockSize \in Nat \ {0}
ASSUME MaxSeqAssumption == MaxSeq \in Nat
ASSUME NoCallerAssumption == NoCaller \notin Callers

VARIABLES
    seq,        \* the last value of url_id_block_seq, 0 before the first nextval()
    next, end,  \* per instance: the ids left of its block are next..end
    refill,     \* per instance: the shared refill promise, by its creator
    pc,         \* per caller: idle, waiting on a promise, or woken by it
    awaits,     \* per caller: the promise it waits on
    reply,      \* per creator of a refill: the row in transit, 0 before nextval() ran
    log         \* history: the ids handed out, in order

vars == <<seq, next, end, refill, pc, awaits, reply, log>>

TypeOK ==
    /\ seq \in Nat
    /\ next \in [Instances -> Nat] /\ end \in [Instances -> Nat]
    /\ refill \in [Instances -> Callers \cup {NoCaller}]
    /\ pc \in [Callers -> {"idle", "waiting", "woken"}]
    /\ awaits \in [Callers -> Callers \cup {NoCaller}]
    /\ reply \in [Callers -> Nat]
    /\ log \in Seq(Nat \ {0})

Init ==
    /\ seq = 0
    /\ next = [i \in Instances |-> 1] /\ end = [i \in Instances |-> 0]
    /\ refill = [i \in Instances |-> NoCaller]
    /\ pc = [c \in Callers |-> "idle"]
    /\ awaits = [c \in Callers |-> NoCaller]
    /\ reply = [c \in Callers |-> 0]
    /\ log = <<>>

Exhausted(i) == next[i] > end[i]

(* "return next++" *)
Take(c) ==
    LET i == Host[c] IN
    /\ ~Exhausted(i)
    /\ next' = [next EXCEPT ![i] = @ + 1]
    /\ log' = Append(log, next[i])
    /\ pc' = [pc EXCEPT ![c] = "idle"]
    /\ UNCHANGED <<seq, end, refill, awaits, reply>>

(* Mutant: every caller asks for a block of its own. *)
Unshared(c) == c

(* The promise to wait on: the one under way, or one of the caller's own. *)
Shared(c) == IF refill[Host[c]] = NoCaller THEN c ELSE refill[Host[c]]

(* "refill ??= allocateBlock()...; await refill" *)
Wait(c) ==
    /\ Exhausted(Host[c])
    /\ refill' = [refill EXCEPT ![Host[c]] = Shared(c)]
    /\ awaits' = [awaits EXCEPT ![c] = Shared(c)]
    /\ pc' = [pc EXCEPT ![c] = "waiting"]
    /\ UNCHANGED <<seq, next, end, reply, log>>

(* nextId() is called, or its while condition is looked at again. *)
Call(c)   == pc[c] = "idle"  /\ (Take(c) \/ Wait(c))
Resume(c) == pc[c] = "woken" /\ (Take(c) \/ Wait(c))

(* A refill is under way: its creator is the one that awaits itself. *)
Refilling(p) == pc[p] = "waiting" /\ awaits[p] = p

(* Mutant: the counter is read by one statement and moved by a later one. *)
NonAtomicNextval(p) ==
    /\ Refilling(p) /\ reply[p] = 0
    /\ seq + BlockSize <= MaxSeq
    /\ seq' \in {seq, seq + BlockSize}
    /\ reply' = [reply EXCEPT ![p] = seq + BlockSize]
    /\ UNCHANGED <<next, end, refill, pc, awaits, log>>

(* Postgres runs SELECT nextval('url_id_block_seq') for the refill of p. *)
Nextval(p) ==
    /\ Refilling(p) /\ reply[p] = 0
    /\ seq + BlockSize <= MaxSeq
    /\ seq' = seq + BlockSize
    /\ reply' = [reply EXCEPT ![p] = seq + BlockSize]
    /\ UNCHANGED <<next, end, refill, pc, awaits, log>>

WaitingOn(p) == {c \in Callers : pc[c] = "waiting" /\ awaits[c] = p}

(* Mutant: the settled promise stays in "refill". *)
SettleKept(p, s) ==
    /\ pc' = [c \in Callers |-> IF c \in WaitingOn(p) THEN s ELSE pc[c]]
    /\ awaits' = [c \in Callers |-> IF c \in WaitingOn(p) THEN NoCaller ELSE awaits[c]]
    /\ reply' = [reply EXCEPT ![p] = 0]
    /\ UNCHANGED refill

(* The promise of p settles: forgotten in "finally", its waiters go to state s. *)
Settle(p, s) ==
    /\ refill' = [refill EXCEPT ![Host[p]] = NoCaller]
    /\ pc' = [c \in Callers |-> IF c \in WaitingOn(p) THEN s ELSE pc[c]]
    /\ awaits' = [c \in Callers |-> IF c \in WaitingOn(p) THEN NoCaller ELSE awaits[c]]
    /\ reply' = [reply EXCEPT ![p] = 0]

(* Mutant: the block is taken to start at the id before its first. *)
StoreFromEnd(p) ==
    /\ Refilling(p) /\ reply[p] # 0
    /\ end' = [end EXCEPT ![Host[p]] = reply[p]]
    /\ next' = [next EXCEPT ![Host[p]] = reply[p] - BlockSize]
    /\ Settle(p, "woken")
    /\ UNCHANGED <<seq, log>>

(* The row arrives: the block becomes the instance's, the waiters look again. *)
Store(p) ==
    /\ Refilling(p) /\ reply[p] # 0
    /\ end' = [end EXCEPT ![Host[p]] = reply[p]]
    /\ next' = [next EXCEPT ![Host[p]] = reply[p] - BlockSize + 1]
    /\ Settle(p, "woken")
    /\ UNCHANGED <<seq, log>>

(* The query fails, before or after nextval() ran: every waiter's call rejects. *)
QueryFails(p) ==
    /\ Refilling(p)
    /\ Settle(p, "idle")
    /\ UNCHANGED <<seq, next, end, log>>

(* The process dies and starts again: its calls and the rest of its block are gone. *)
Crash(i) ==
    /\ next' = [next EXCEPT ![i] = 1] /\ end' = [end EXCEPT ![i] = 0]
    /\ refill' = [refill EXCEPT ![i] = NoCaller]
    /\ pc' = [c \in Callers |-> IF Host[c] = i THEN "idle" ELSE pc[c]]
    /\ awaits' = [c \in Callers |-> IF Host[c] = i THEN NoCaller ELSE awaits[c]]
    /\ reply' = [c \in Callers |-> IF Host[c] = i THEN 0 ELSE reply[c]]
    /\ UNCHANGED <<seq, log>>

Next ==
    \/ \E c \in Callers : Call(c) \/ Resume(c) \/ Nextval(c) \/ Store(c) \/ QueryFails(c)
    \/ \E i \in Instances : Crash(i)

Spec == Init /\ [][Next]_vars

(***************************************************************************)
(* A query ends, one way or the other, and a woken call runs: node-postgres*)
(* rejects the queries of a broken connection, and the event loop runs     *)
(* every promise continuation.                                             *)
(***************************************************************************)
Fairness == \A c \in Callers : /\ WF_vars(Resume(c))
                               /\ WF_vars(Store(c) \/ QueryFails(c))

FairSpec == Spec /\ Fairness

--------------------------------------------------------------------------------
(* No id is handed out twice, whatever the instances, crashes, lost answers *)
(* and interleavings: two links can never get the same primary key, nor     *)
(* the same generated code.                                                 *)
UniqueLog == \A j, k \in DOMAIN log : log[j] = log[k] => j = k

(* The promise of the abstract module: every step hands out a fresh id or   *)
(* none.                                                                    *)
Ids == INSTANCE UniqueIds WITH Id <- 1..MaxSeq
RefinesUniqueIds == Ids!Spec

(* "Concurrent callers share one refill instead of each burning a block": a *)
(* live instance replaces its block only when every id of it was used.      *)
NoBlockBurned ==
    [][\A i \in Instances : end'[i] # end[i] /\ end'[i] # 0 => Exhausted(i)]_vars

(* A call that waits for a refill does not wait for ever, after a failed    *)
(* query neither: the promise is forgotten when it settles, so that the     *)
(* next call asks again.                                                    *)
CallsEnd == \A c \in Callers : pc[c] = "waiting" ~> pc[c] = "idle"
================================================================================
