------------------------------ MODULE RateLimiter ------------------------------
(***************************************************************************)
(* One limiter of apps/api/src/config/rateLimiter.ts and one of its keys:  *)
(* the sliding window of utils/rateLimiter, counted in Redis by a script   *)
(* or in the memory of each process, which is also what takes over when    *)
(* Redis does not answer; and the two middlewares that use it.             *)
(*                                                                         *)
(* Only two windows ever matter, so time is kept relative: "phase" is the  *)
(* time within the current window, a window is named by how many windows   *)
(* it lies back, a TTL is what is left of it.  No clock needs a bound.     *)
(***************************************************************************)
EXTENDS Naturals, FiniteSets

CONSTANTS
    Instances,  \* API processes
    Requests,   \* requests with this key that may be under way at the same time
    Limiters,   \* what the options can be: [store, miss, block]
    Window,     \* windowMs
    Limit,      \* max
    Latency,    \* commandTimeout: no caller waits longer for Redis
    MaxLate     \* bound: commands whose caller has given up or died

ASSUME WindowAssumption == {Window, Limit, Latency} \subseteq Nat \ {0} /\ Latency <= Window
ASSUME LateAssumption == MaxLate \in Nat
ASSUME InstancesAssumption == Instances # {} /\ "redis" \notin Instances /\ IsFiniteSet(Requests)
(* The miss limiter is in memory and blocks; a block outlasts two windows. *)
ASSUME LimitersAssumption ==
    \A l \in Limiters : /\ DOMAIN l = {"store", "miss", "block"}
                        /\ l.store \in {"redis", "memory"} /\ l.miss \in BOOLEAN
                        /\ l.block = 0 \/ (l.block \in Nat /\ l.block >= 2 * Window)
                        /\ l.miss => (l.store = "memory" /\ l.block > 0)

VARIABLES
    limiter,    \* the options
    phase,      \* Date.now() % windowMs
    redis,      \* the keys in Redis
    ttl,        \* what is left of the TTL of the counters in Redis
    memory,     \* per instance: MemoryRateLimitStore
    req,        \* per request: its hit() under way
    straggling, \* commands that Redis may yet run, whose callers have given up or died
    passed,     \* history, per store: requests let through, by window
    late,       \* history: has a command of the last window run after one of this?
    quiet,      \* history: for how long some store has refused, with nobody let through
    misses      \* history, per instance: misses in this window, but for those in a block

stores == <<redis, ttl, memory>>
vars   == <<limiter, phase, stores, req, straggling, passed, late, quiet, misses>>

(* How far a window lies back: this one, the last, and the one before, which *)
(* only a command that was sent in the last one still asks for.             *)
Back  == 0..2
Store(backs) == [n : [backs -> 0..Limit], block : Nat]
Empty(backs) == [n |-> [b \in backs |-> 0], block |-> 0]

Position == [back : 0..1, elapsed : 0..Window - 1]
Idle     == [pc |-> "idle", inst |-> CHOOSE i \in Instances : TRUE, age |-> 0,
             position |-> [back |-> 0, elapsed |-> 0]]

(* The longest time between a request let through and one that is refused, *)
(* when Redis and then a process's memory refuse in turn.                  *)
Lockout == 2 * (2 * Window + limiter.block)

TypeOK ==
    /\ limiter \in Limiters
    /\ phase \in 0..Window - 1
    /\ redis \in Store(Back)
    /\ ttl \in [Back -> 0..2 * Window]
    /\ memory \in [Instances -> Store(0..1)]
    /\ \A r \in Requests :
          /\ req[r].pc \in {"idle", "sent", "allowed", "denied", "resolving", "spent"}
          /\ req[r].inst \in Instances /\ req[r].age \in 0..Latency
          /\ req[r].position \in Position
    /\ straggling \subseteq Position
    /\ late \in BOOLEAN
    /\ quiet \in 0..Lockout + 1
    /\ misses \in [Instances -> 0..Limit]

Init ==
    /\ limiter \in Limiters
    /\ phase \in 0..Window - 1
    /\ redis = Empty(Back) /\ ttl = [b \in Back |-> 0]
    /\ memory = [i \in Instances |-> Empty(0..1)]
    /\ req = [r \in Requests |-> Idle]
    /\ straggling = {}
    /\ passed = [s \in Instances \cup {"redis"} |-> [b \in 0..1 |-> 0]]
    /\ late = FALSE
    /\ quiet = 0
    /\ misses = [i \in Instances |-> 0]

--------------------------------------------------------------------------------
(***************************************************************************)
(* The sliding window: the same in Lua and in memory.                      *)
(***************************************************************************)

(* Mutants: a fixed window; one request too many. *)
FixedWindow(previous, current, elapsed) == current >= Limit
OffByOne(previous, current, elapsed) ==
    previous * (Window - elapsed) + current * Window > Limit * Window

(* estimate() >= limit, over the common denominator. *)
Over(previous, current, elapsed) ==
    previous * (Window - elapsed) + current * Window >= Limit * Window

OverAt(s, p) == Over(s.n[p.back + 1], s.n[p.back], p.elapsed)

Passes(s, p) == s.block = 0 /\ ~OverAt(s, p)

(* Mutant: each refused request renews the block. *)
BlockRenewed(s, p) ==
    IF Passes(s, p) THEN [s EXCEPT !.n[p.back] = @ + 1]
    ELSE [s EXCEPT !.block = limiter.block]

(* What a hit leaves behind. *)
After(s, p) ==
    IF Passes(s, p) THEN [s EXCEPT !.n[p.back] = @ + 1]
    ELSE IF s.block = 0 THEN [s EXCEPT !.block = limiter.block]
    ELSE s

Here == [back |-> 0, elapsed |-> phase]

(* Whoever decides, a request would be let through. *)
Open == \A s \in {redis} \cup {memory[i] : i \in Instances} : Passes(s, Here)

LetThrough(src, back) ==
    /\ passed' = [passed EXCEPT ![src][back] = @ + 1]
    /\ quiet' = 0

Refused == UNCHANGED <<passed, quiet>>

(* MemoryRateLimitStore.hit(), which runs without a break. *)
HitMemory(i) ==
    /\ memory' = [memory EXCEPT ![i] = After(@, Here)]
    /\ IF Passes(memory[i], Here) THEN LetThrough(i, 0) ELSE Refused
    /\ UNCHANGED <<redis, ttl, late>>

--------------------------------------------------------------------------------
(***************************************************************************)
(* createRateLimiter() and the two stores.                                 *)
(***************************************************************************)

(* A limiter in memory decides at once; so does the fallback while the     *)
(* breaker is open or there is no connection.                              *)
HitLocally(r, i) ==
    /\ req[r].pc = "idle" /\ ~limiter.miss
    /\ HitMemory(i)
    /\ UNCHANGED <<limiter, phase, req, straggling, misses>>

(* RedisRateLimitStore.hit(): the window is that of the moment of sending. *)
Send(r, i) ==
    /\ req[r].pc = "idle" /\ limiter.store = "redis"
    /\ req' = [req EXCEPT ![r] = [Idle EXCEPT !.pc = "sent", !.inst = i, !.position = Here]]
    /\ UNCHANGED <<limiter, phase, stores, straggling, passed, late, quiet, misses>>

(* Mutant: the counter lives as long as its window. *)
ShortLived == Window

(* "tonumber(ARGV[2]) * 2" *)
CounterTtl == 2 * Window

(* SLIDING_WINDOW_LUA: atomic. *)
Script(p) ==
    /\ redis' = After(redis, p)
    /\ ttl' = IF Passes(redis, p) /\ redis.n[p.back] = 0
              THEN [ttl EXCEPT ![p.back] = CounterTtl] ELSE ttl
    /\ late' = (late \/ (p.back = 1 /\ redis.n[0] > 0))
    /\ UNCHANGED memory

Run(r) ==
    /\ req[r].pc = "sent"
    /\ Script(req[r].position)
    /\ req' = [req EXCEPT ![r].pc = IF Passes(redis, req[r].position) THEN "allowed" ELSE "denied"]
    /\ UNCHANGED <<limiter, phase, straggling, passed, quiet, misses>>

(* The answer of Redis. *)
Answer(r) ==
    /\ req[r].pc \in {"allowed", "denied"}
    /\ IF req[r].pc = "allowed" THEN LetThrough("redis", req[r].position.back) ELSE Refused
    /\ req' = [req EXCEPT ![r] = Idle]
    /\ UNCHANGED <<limiter, phase, stores, straggling, late, misses>>

(* No answer in time: the fallback decides.  The command may run later, or *)
(* once more when the connection is back.                                  *)
TimeOut(r) ==
    /\ req[r].pc \in {"sent", "allowed", "denied"}
    /\ HitMemory(req[r].inst)
    /\ \/ UNCHANGED straggling
       \/ /\ Cardinality(straggling) < MaxLate
          /\ straggling' = straggling \cup {req[r].position}
    /\ req' = [req EXCEPT ![r] = Idle]
    /\ UNCHANGED <<limiter, phase, misses>>

RunLate(p) ==
    /\ Script(p)
    /\ straggling' = straggling \ {p}
    /\ UNCHANGED <<limiter, phase, req, passed, quiet, misses>>

--------------------------------------------------------------------------------
(***************************************************************************)
(* createMissLimiter(): only requests for unknown codes count.             *)
(***************************************************************************)

(* guard *)
Guard(r, i) ==
    /\ req[r].pc = "idle" /\ limiter.miss
    /\ memory[i].block = 0
    /\ req' = [req EXCEPT ![r] = [Idle EXCEPT !.pc = "resolving", !.inst = i]]
    /\ UNCHANGED <<limiter, phase, stores, straggling, passed, late, quiet, misses>>

(* The code is known: nothing is counted. *)
Found(r) ==
    /\ req[r].pc = "resolving"
    /\ req' = [req EXCEPT ![r] = Idle]
    /\ UNCHANGED <<limiter, phase, stores, straggling, passed, late, quiet, misses>>

(* Mutant: the block waits for one miss more. *)
NeverSpent(i) == FALSE

(* "result.allowed && result.remaining === 0" *)
Spent(i) == Passes(memory[i], Here) /\ OverAt(After(memory[i], Here), Here)

(* record(): the first hit. *)
Miss(r) ==
    LET i == req[r].inst IN
    /\ req[r].pc = "resolving"
    /\ HitMemory(i)
    /\ req' = [req EXCEPT ![r] = IF Spent(i) THEN [@ EXCEPT !.pc = "spent"] ELSE Idle]
    /\ misses' = [misses EXCEPT ![i] = IF @ < Limit /\ memory[i].block = 0 THEN @ + 1 ELSE @]
    /\ UNCHANGED <<limiter, phase, straggling>>

(* The second hit, after an await that waits for nothing. *)
PlaceBlock(r) ==
    /\ req[r].pc = "spent"
    /\ HitMemory(req[r].inst)
    /\ req' = [req EXCEPT ![r] = Idle]
    /\ UNCHANGED <<limiter, phase, straggling, misses>>

--------------------------------------------------------------------------------
(* sweep(), with too many keys: every counter goes, the blocks stay. *)
Sweep(i) ==
    /\ memory' = [memory EXCEPT ![i].n = Empty(0..1).n]
    /\ passed' = [passed EXCEPT ![i] = [b \in 0..1 |-> 0]]
    /\ misses' = [misses EXCEPT ![i] = 0]
    /\ UNCHANGED <<limiter, phase, redis, ttl, req, straggling, late, quiet>>

(* What a process that dies has sent to Redis and Redis has not run. *)
Unrun(i) == {req[r].position : r \in {q \in Requests : req[q].pc = "sent" /\ req[q].inst = i}}

(* The process starts again, with nothing in memory; Redis may yet run what *)
(* the old one has sent.                                                    *)
Restart(i) ==
    /\ memory' = [memory EXCEPT ![i] = Empty(0..1)]
    /\ passed' = [passed EXCEPT ![i] = [b \in 0..1 |-> 0]]
    /\ misses' = [misses EXCEPT ![i] = 0]
    /\ req' = [r \in Requests |-> IF req[r].inst = i THEN Idle ELSE req[r]]
    /\ quiet' = IF \E r \in Requests : req[r].pc # "idle" /\ req[r].inst = i THEN 0 ELSE quiet
    /\ \E run \in SUBSET Unrun(i) : /\ run = {} \/ Cardinality(straggling \cup run) <= MaxLate
                                    /\ straggling' = straggling \cup run
    /\ UNCHANGED <<limiter, phase, redis, ttl, late>>

Less(n) == IF n = 0 THEN 0 ELSE n - 1

(* windowPosition(): the windows move on. *)
Shift(f, zero) == [b \in DOMAIN f |-> IF b = 0 THEN zero ELSE f[b - 1]]
Aged(p) == [p EXCEPT !.back = @ + 1]
Older(s) == [n |-> IF phase = Window - 1 THEN Shift(s.n, 0) ELSE s.n, block |-> Less(s.block)]

(* A key of Redis goes when its TTL has passed. *)
Expired(s, left) == [s EXCEPT !.n = [b \in Back |-> IF left[b] = 0 THEN 0 ELSE s.n[b]]]

(* A unit of time.  Nobody waits for Redis longer than Latency, and a late *)
(* command is lost once its window is no longer the last.                  *)
Tick ==
    LET rolls  == phase = Window - 1
        left   == [b \in Back |-> Less(ttl[b])]
        waits(r) == req[r].pc \in {"sent", "allowed", "denied"} IN
    /\ \A r \in Requests : req[r].pc # "spent" /\ (waits(r) => req[r].age < Latency)
    /\ phase' = (phase + 1) % Window
    /\ ttl' = IF rolls THEN Shift(left, 0) ELSE left
    /\ redis' = Older(Expired(redis, left))
    /\ memory' = [i \in Instances |-> Older(memory[i])]
    /\ req' = [r \in Requests |->
                  IF ~waits(r) THEN req[r]
                  ELSE [req[r] EXCEPT !.age = @ + 1,
                                      !.position = IF rolls THEN Aged(@) ELSE @]]
    /\ straggling' = IF rolls THEN {Aged(p) : p \in {q \in straggling : q.back = 0}}
                     ELSE straggling
    /\ passed' = IF rolls THEN [s \in DOMAIN passed |-> Shift(passed[s], 0)] ELSE passed
    /\ misses' = IF rolls THEN [i \in Instances |-> 0] ELSE misses
    /\ late' = (late /\ ~rolls)
    /\ quiet' = IF Open THEN 0 ELSE IF quiet > Lockout THEN quiet ELSE quiet + 1
    /\ UNCHANGED limiter

Next ==
    \/ \E r \in Requests :
          \/ \E i \in Instances : HitLocally(r, i) \/ Send(r, i) \/ Guard(r, i)
          \/ Run(r) \/ Answer(r) \/ TimeOut(r) \/ Found(r) \/ Miss(r) \/ PlaceBlock(r)
    \/ \E p \in straggling : RunLate(p)
    \/ \E i \in Instances : Sweep(i) \/ Restart(i)
    \/ Tick

Spec == Init /\ [][Next]_vars

--------------------------------------------------------------------------------
(* "Two integers per key, and no double burst at the window boundary": what *)
(* a store has let through in the last window, weighed by the part of it    *)
(* that is still less than a window ago, and in this one, does not exceed   *)
(* the limit; through lost answers, commands that run late or twice, and    *)
(* the TTL of the counters.  Where commands of two windows overtake each    *)
(* other on the boundary ("late"), the limit holds for each window alone.   *)
NoDoubleBurst ==
    \A s \in DOMAIN passed :
        /\ \A b \in 0..1 : passed[s][b] <= Limit
        /\ \/ s = "redis" /\ late
           \/ passed[s][1] * (Window - phase) + (passed[s][0] - 1) * Window < Limit * Window

(* Nobody is locked out by trying: refused requests neither count nor renew *)
(* the block ("once over the limit, reject everything for this long"), so   *)
(* that refusals end, also when Redis and the fallback refuse in turn, each *)
(* on account of requests that the other one refused.                       *)
NoLockout ==
    (\A r \in Requests : req[r].pc # "allowed") => Open \/ quiet <= Lockout

(* "60 not-found redirects a minute from one IP -> blocked": the miss that  *)
(* spends the budget places the block, so that the very next request of the *)
(* scanner is refused, however many of its requests are being resolved.     *)
MissesBlock ==
    \A i \in Instances :
        misses[i] >= Limit /\ limiter.miss /\ (\A r \in Requests : req[r].pc # "spent")
            => memory[i].block > 0
================================================================================
