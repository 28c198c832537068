----------------------------- MODULE CircuitBreaker ----------------------------
(***************************************************************************)
(* apps/api/src/utils/cache/circuitBreaker.ts: the breaker in front of the *)
(* cache Redis (and of the rate limiter's), shared by all the concurrent   *)
(* calls of one API process.                                               *)
(*                                                                         *)
(* The code compares stored times with now(); here a time is kept as its   *)
(* age, "now() - time", which every Tick increases.  An age is capped      *)
(* where the code no longer tells it from a greater one, so that the model *)
(* is finite without a bound on the clock.                                 *)
(***************************************************************************)
EXTENDS Naturals, Sequences, FiniteSets, FiniteSetsExt

CONSTANTS
    Calls,              \* calls that may be under way at the same time
    FailureThreshold, WindowMs, OpenMs,     \* BREAKER
    CallMs              \* commandTimeout: no call to Redis lasts longer

ASSUME CallsAssumption == IsFiniteSet(Calls)
ASSUME BreakerAssumption ==
    {FailureThreshold, WindowMs, OpenMs, CallMs} \subseteq Nat \ {0} /\ CallMs < OpenMs

VARIABLES
    openFor,    \* age of openedAt, or Closed when it is null
    failures,   \* ages of the recorded failures, oldest first
    probing,
    call,       \* per call: Idle, or whether it is a probe and how long it has run
    up,         \* does Redis answer?
    seen        \* history: ages, within the window, of the failures since the breaker closed

vars == <<openFor, failures, probing, call, up, seen>>

Closed == OpenMs + 1
Idle   == [probe |-> FALSE, age |-> CallMs + 1]
Running(c) == call[c] # Idle

Falling(ages) == \A j, k \in DOMAIN ages : j <= k => ages[j] >= ages[k]

(* Nothing trims "failures" while the breaker is open, yet it stays this short. *)
TypeOK ==
    /\ openFor \in 0..Closed
    /\ failures \in Seq(0..WindowMs) /\ Falling(failures)
    /\ Len(failures) < FailureThreshold + Cardinality(Calls)
    /\ probing \in BOOLEAN
    /\ call \in [Calls -> [probe : BOOLEAN, age : 0..CallMs] \cup {Idle}]
    /\ up \in BOOLEAN
    /\ seen \in Seq(0..WindowMs) /\ Falling(seen)

Init ==
    /\ openFor = Closed /\ failures = <<>> /\ probing = FALSE
    /\ call = [c \in Calls |-> Idle]
    /\ up = TRUE /\ seen = <<>>

(* Mutant: the window is taken for the time the breaker stays open. *)
ShortState == IF openFor = Closed THEN "closed"
              ELSE IF openFor >= WindowMs THEN "half-open" ELSE "open"

(* get state() *)
State == IF openFor = Closed THEN "closed"
         ELSE IF openFor >= OpenMs THEN "half-open" ELSE "open"

(* Mutant: everyone probes while the breaker is half-open. *)
RefusedWhileOpen == State = "open"

(* The call is refused with BreakerOpenError. *)
Refused == State = "open" \/ (State = "half-open" /\ probing)

(* exec(), up to the call of fn. *)
Start(c) ==
    /\ ~Running(c) /\ ~Refused
    /\ call' = [call EXCEPT ![c] = [probe |-> State = "half-open", age |-> 0]]
    /\ probing' = (probing \/ State = "half-open")
    /\ UNCHANGED <<openFor, failures, up, seen>>

(* filter(), which drops a prefix: the ages are falling. *)
InWindow(ages) ==
    LET first == Min({k \in DOMAIN ages : ages[k] < WindowMs} \cup {Len(ages) + 1})
    IN SubSeq(ages, first, Len(ages))

(* Mutants: every failure is kept, a probe's too; old failures count too; one failure late. *)
CountProbes(isProbe) ==
    /\ failures' = Append(failures, 0)
    /\ openFor' = IF isProbe \/ Len(failures') >= FailureThreshold THEN 0 ELSE openFor
    /\ seen' = Append(seen, 0)
CountAll(isProbe) ==
    IF isProbe
    THEN openFor' = 0 /\ UNCHANGED <<failures, seen>>
    ELSE /\ failures' = Append(failures, 0)
         /\ openFor' = IF Len(failures') >= FailureThreshold THEN 0 ELSE openFor
         /\ seen' = Append(seen, 0)
CountOneMore(isProbe) ==
    IF isProbe
    THEN openFor' = 0 /\ UNCHANGED <<failures, seen>>
    ELSE /\ failures' = Append(InWindow(failures), 0)
         /\ openFor' = IF Len(failures') > FailureThreshold THEN 0 ELSE openFor
         /\ seen' = Append(seen, 0)

(* recordFailure(): a probe opens the breaker again; another failure counts. *)
RecordFailure(isProbe) ==
    IF isProbe
    THEN openFor' = 0 /\ UNCHANGED <<failures, seen>>
    ELSE /\ failures' = Append(InWindow(failures), 0)
         /\ openFor' = IF Len(failures') >= FailureThreshold THEN 0 ELSE openFor
         /\ seen' = Append(seen, 0)

Reset == openFor' = Closed /\ failures' = <<>> /\ seen' = <<>>

(* Mutant: no "finally". *)
EndKeepsProbe(c) ==
    /\ call' = [call EXCEPT ![c] = Idle]
    /\ UNCHANGED <<probing, up>>

(* fn() resolves or rejects; "finally" clears the probe. *)
End(c) ==
    /\ call' = [call EXCEPT ![c] = Idle]
    /\ probing' = (probing /\ ~call[c].probe)
    /\ UNCHANGED up

Succeed(c) ==
    /\ Running(c) /\ up
    /\ IF call[c].probe THEN Reset ELSE UNCHANGED <<openFor, failures, seen>>
    /\ End(c)

Fail(c) ==
    /\ Running(c) /\ ~up
    /\ RecordFailure(call[c].probe)
    /\ End(c)

Older(age, cap) == IF age < cap THEN age + 1 ELSE age
AllOlder(ages) == [k \in DOMAIN ages |-> Older(ages[k], WindowMs)]

(* Time passes; a call under way does not outlive its timeout. *)
Tick ==
    /\ \A c \in Calls : Running(c) => call[c].age < CallMs
    /\ openFor' = Older(openFor, OpenMs)
    /\ failures' = AllOlder(failures)
    /\ seen' = InWindow(AllOlder(seen))
    /\ call' = [c \in Calls |-> IF Running(c) THEN [call[c] EXCEPT !.age = @ + 1] ELSE Idle]
    /\ UNCHANGED <<probing, up>>

Outage   == up /\ up' = FALSE /\ UNCHANGED <<openFor, failures, probing, call, seen>>
Recovery == ~up /\ up' = TRUE /\ UNCHANGED <<openFor, failures, probing, call, seen>>

Next == \/ \E c \in Calls : Start(c) \/ Succeed(c) \/ Fail(c)
        \/ Tick \/ Outage \/ Recovery

Spec == Init /\ [][Next]_vars

(* Time passes, calls end, and visitors keep coming. *)
Fairness == /\ WF_vars(Tick)
            /\ \A c \in Calls : WF_vars(Start(c)) /\ WF_vars(Succeed(c) \/ Fail(c))

FairSpec == Spec /\ Fairness

--------------------------------------------------------------------------------
Probes == {c \in Calls : Running(c) /\ call[c].probe}

(* While the breaker is half-open one request tries Redis and the others go on  *)
(* to Postgres: never two probes at a time, and "probing" is set exactly as     *)
(* long as there is one, whatever else ends meanwhile.                          *)
OneProbe == /\ \A c, d \in Probes : c = d
            /\ probing <=> Probes # {}

(* A failure of a call from before the breaker opened cannot meet the half-open *)
(* state and open it again under a probe: such calls are over by then.          *)
NoStragglers ==
    State = "half-open" => \A c \in Calls : Running(c) => call[c].probe

(* A closed breaker has seen fewer failures in the window than the threshold,   *)
(* and it opens only when it has seen as many, whatever calls end in between.   *)
OpensAtThreshold ==
    [][State = "closed" => /\ Len(seen) < FailureThreshold
                           /\ openFor' # Closed => Len(seen') >= FailureThreshold]_vars

(* When Redis is back for good the breaker closes for good.                     *)
Recovers == <>[]up => <>[](State = "closed")
================================================================================
