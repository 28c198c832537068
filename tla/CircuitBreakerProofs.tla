-------------------------- MODULE CircuitBreakerProofs -------------------------
(***************************************************************************)
(* For any number of concurrent calls, any threshold and any times with    *)
(* CallMs < OpenMs: there is at most one probe, "probing" says exactly     *)
(* whether there is one, and no call from before the breaker opened is     *)
(* under way once it is half-open.                                         *)
(*                                                                         *)
(* The last fact is not inductive: it needs that a call which is not a     *)
(* probe has run at least as long as the breaker has been open, because    *)
(* none starts while it is open.                                           *)
(*                                                                         *)
(* The second half is about what is recorded: the breaker opens only when  *)
(* the window holds as many failures as the threshold, and "failures"      *)
(* stays short while it is open, though nothing trims it then.             *)
(***************************************************************************)
EXTENDS CircuitBreaker, FiniteSetTheorems, WellFoundedInduction, TLAPS

(* The part of TypeOK the proof needs. *)
CallTypes ==
    /\ openFor \in 0..Closed
    /\ probing \in BOOLEAN
    /\ call \in [Calls -> [probe : BOOLEAN, age : 0..CallMs] \cup {Idle}]

OlderThanOpening ==
    \A c \in Calls : Running(c) /\ ~call[c].probe /\ openFor # Closed => openFor <= call[c].age

IInv == CallTypes /\ OneProbe /\ OlderThanOpening

LEMMA Times == /\ WindowMs \in Nat \ {0} /\ OpenMs \in Nat \ {0} /\ CallMs \in Nat \ {0}
               /\ CallMs < OpenMs
BY BreakerAssumption

(* What is under way has a probe flag and an age; what is idle is no probe. *)
LEMMA RunningTypes ==
    ASSUME CallTypes, NEW c \in Calls
    PROVE  /\ call[c].probe \in BOOLEAN /\ call[c].age \in Nat
           /\ Running(c) => call[c].age \in 0..CallMs
           /\ ~Running(c) => ~call[c].probe
<1>1. CASE Running(c)
  <2>1. call[c] \in [probe : BOOLEAN, age : 0..CallMs]
    BY <1>1 DEF CallTypes, Running
  <2> QED
    BY <1>1, <2>1, Times
<1>2. CASE ~Running(c)
  <2>1. call[c] = [probe |-> FALSE, age |-> CallMs + 1]
    BY <1>2 DEF Running, Idle
  <2> QED
    BY <1>2, <2>1, Times
<1> QED
  BY <1>1, <1>2

LEMMA InitIInv == Init => IInv
<1> SUFFICES ASSUME Init PROVE IInv
  OBVIOUS
<1>1. \A c \in Calls : ~Running(c)
  BY DEF Init, Running
<1>2. Probes = {}
  BY <1>1 DEF Probes
<1>3. OneProbe /\ OlderThanOpening
  BY <1>1, <1>2 DEF Init, OneProbe, OlderThanOpening
<1>4. CallTypes
  <2>1. Closed \in 0..Closed
    BY Times DEF Closed
  <2> QED
    BY <2>1 DEF Init, CallTypes
<1> QED
  BY <1>3, <1>4 DEF IInv

(* A call starts: as the only probe, or while the breaker is closed. *)
LEMMA StartStep == ASSUME IInv, NEW c \in Calls, Start(c) PROVE IInv'
<1>0. /\ call' = [call EXCEPT ![c] = [probe |-> State = "half-open", age |-> 0]]
      /\ probing' = (probing \/ State = "half-open")
      /\ openFor' = openFor /\ ~Running(c) /\ ~Refused
  BY DEF Start
<1>1. /\ call'[c] = [probe |-> State = "half-open", age |-> 0]
      /\ \A d \in Calls : d # c => call'[d] = call[d]
  BY <1>0 DEF IInv, CallTypes
<1>2. [probe |-> State = "half-open", age |-> 0] \in [probe : BOOLEAN, age : 0..CallMs]
  BY Times
<1>3. CallTypes'
  BY <1>0, <1>2 DEF IInv, CallTypes
<1>4. Running(c)' /\ \A d \in Calls : d # c => (Running(d)' <=> Running(d))
  <2>1. [probe |-> State = "half-open", age |-> 0] # Idle
    BY Times DEF Idle
  <2> QED
    BY <1>1, <2>1 DEF Running
<1>5. call'[c].probe <=> State = "half-open"
  <2> DEFINE h == State = "half-open"
  <2>1. [probe |-> h, age |-> 0].probe = h
    <3> HIDE DEF h
    <3> QED
      OBVIOUS
  <2> QED
    BY <1>1, <2>1, Zenon
<1>6. CASE State = "half-open"
  <2>1. ~probing /\ Probes = {}
    BY <1>0, <1>6 DEF Refused, IInv, OneProbe
  <2>2. Probes' = {c}
    <3>1. \A d \in Calls : d # c => d \notin Probes'
      BY <1>1, <1>4, <2>1 DEF Probes
    <3>2. call'[c].probe
      BY <1>5, <1>6
    <3> QED
      BY <1>4, <3>1, <3>2 DEF Probes
  <2>3. OneProbe'
    BY <1>0, <1>6, <2>2 DEF OneProbe
  <2>4. OlderThanOpening'
    <3>1. call'[c].probe
      BY <1>5, <1>6
    <3> QED
      BY <1>0, <1>1, <1>4, <3>1 DEF IInv, OlderThanOpening
  <2> QED
    BY <1>3, <2>3, <2>4 DEF IInv
<1>7. CASE State # "half-open"
  <2>1. openFor = Closed
    BY <1>0, <1>7 DEF Refused, State
  <2>2. Probes' = Probes /\ probing' = probing
    BY <1>0, <1>1, <1>4, <1>7 DEF Probes, IInv, CallTypes
  <2>3. OneProbe'
    BY <2>2 DEF IInv, OneProbe
  <2>4. OlderThanOpening'
    BY <1>0, <2>1 DEF OlderThanOpening, Closed
  <2> QED
    BY <1>3, <2>3, <2>4 DEF IInv
<1> QED
  BY <1>6, <1>7

(* A call ends: the probe with its flag, another call without touching it. *)
LEMMA EndStep ==
    ASSUME IInv, NEW c \in Calls, Running(c), End(c), openFor' \in {openFor, 0, Closed}
    PROVE  IInv'
<1>1. /\ call' = [call EXCEPT ![c] = Idle] /\ call'[c] = Idle
      /\ \A d \in Calls : d # c => call'[d] = call[d]
      /\ probing' = (probing /\ ~call[c].probe)
  BY DEF End, IInv, CallTypes
<1>2. /\ ~Running(c)'
      /\ \A d \in Calls : d # c => (Running(d)' <=> Running(d))
  BY <1>1 DEF Running
<1>3. CallTypes'
  BY <1>1, Times DEF IInv, CallTypes, Closed
<1>4. Probes' = Probes \ {c}
  BY <1>1, <1>2 DEF Probes
<1>5. OneProbe'
  <2>1. call[c].probe <=> c \in Probes
    BY DEF Probes
  <2> QED
    BY <1>1, <1>4, <2>1 DEF IInv, OneProbe
<1>6. OlderThanOpening'
  <2> SUFFICES ASSUME NEW d \in Calls, Running(d)', ~call'[d].probe, openFor' # Closed
               PROVE  openFor' <= call'[d].age
    BY DEF OlderThanOpening
  <2>1. d # c /\ call'[d] = call[d] /\ Running(d) /\ call[d].age \in Nat
    BY <1>1, <1>2, RunningTypes DEF IInv
  <2>2. CASE openFor' = openFor
    BY <2>1, <2>2 DEF IInv, OlderThanOpening
  <2>3. CASE openFor' = 0
    BY <2>1, <2>3
  <2> QED
    BY <2>2, <2>3
<1> QED
  BY <1>3, <1>5, <1>6 DEF IInv

(* Calls and openedAt grow older together; the cap of openFor only helps. *)
LEMMA TickStep == ASSUME IInv, Tick PROVE IInv'
<1>0. /\ openFor' = Older(openFor, OpenMs) /\ probing' = probing
      /\ call' = [c \in Calls |-> IF Running(c) THEN [call[c] EXCEPT !.age = @ + 1] ELSE Idle]
      /\ \A c \in Calls : Running(c) => call[c].age < CallMs
  BY DEF Tick
<1>1. ASSUME NEW c \in Calls, Running(c)
      PROVE  /\ call'[c] \in [probe : BOOLEAN, age : 0..CallMs]
             /\ call'[c].probe = call[c].probe /\ call'[c].age = call[c].age + 1
             /\ Running(c)'
  <2>1. call[c] \in [probe : BOOLEAN, age : 0..CallMs] /\ call[c].age < CallMs
    BY <1>0, <1>1 DEF IInv, CallTypes, Running
  <2>2. call'[c] = [probe |-> call[c].probe, age |-> call[c].age + 1]
    BY <1>0, <1>1, <2>1
  <2>3. call'[c] \in [probe : BOOLEAN, age : 0..CallMs]
    BY <2>1, <2>2, Times
  <2> QED
    BY <2>2, <2>3, Times DEF Running, Idle
<1>2. \A c \in Calls : ~Running(c) => call'[c] = Idle /\ ~Running(c)'
  BY <1>0 DEF Running
<1>3. openFor' \in 0..Closed /\ (openFor' # Closed => openFor # Closed /\ openFor' <= openFor + 1)
  BY <1>0, Times DEF Older, IInv, CallTypes, Closed
<1>4. CallTypes'
  <2>1. \A c \in Calls : call'[c] \in [probe : BOOLEAN, age : 0..CallMs] \cup {Idle}
    BY <1>1, <1>2
  <2>2. call' = [c \in Calls |-> call'[c]]
    BY <1>0
  <2> QED
    BY <1>0, <1>3, <2>1, <2>2 DEF IInv, CallTypes
<1>5. OneProbe'
  <2>1. Probes' = Probes
    BY <1>1, <1>2 DEF Probes
  <2> QED
    BY <1>0, <2>1 DEF IInv, OneProbe
<1>6. OlderThanOpening'
  <2> SUFFICES ASSUME NEW c \in Calls, Running(c)', ~call'[c].probe, openFor' # Closed
               PROVE  openFor' <= call'[c].age
    BY DEF OlderThanOpening
  <2>1. Running(c)
    BY <1>2
  <2>2. ~call[c].probe /\ call'[c].age = call[c].age + 1 /\ call[c].age \in Nat
    BY <1>1, <2>1, RunningTypes DEF IInv
  <2>3. openFor <= call[c].age /\ openFor \in Nat
    BY <1>3, <2>1, <2>2, Times DEF IInv, OlderThanOpening, CallTypes, Closed
  <2> QED
    BY <1>3, <2>2, <2>3, Times DEF Closed
<1> QED
  BY <1>4, <1>5, <1>6 DEF IInv

LEMMA IInvStep == IInv /\ [Next]_vars => IInv'
<1> SUFFICES ASSUME IInv, [Next]_vars PROVE IInv'
  OBVIOUS
<1>1. ASSUME NEW c \in Calls, Start(c) PROVE IInv'
  BY <1>1, StartStep
<1>2. ASSUME NEW c \in Calls, Succeed(c) PROVE IInv'
  BY <1>2, EndStep DEF Succeed, Reset
<1>3. ASSUME NEW c \in Calls, Fail(c) PROVE IInv'
  <2>1. openFor' \in {openFor, 0}
    BY <1>3 DEF Fail, RecordFailure
  <2> QED
    BY <1>3, <2>1, EndStep DEF Fail
<1>4. CASE Tick
  BY <1>4, TickStep
<1>5. CASE Outage \/ Recovery \/ UNCHANGED vars
  BY <1>5 DEF Outage, Recovery, vars, IInv, CallTypes, OneProbe, Probes, OlderThanOpening, Running
<1> QED
  BY <1>1, <1>2, <1>3, <1>4, <1>5 DEF Next

LEMMA InvariantHolds == Spec => []IInv
BY InitIInv, IInvStep, PTL DEF Spec

(* At most one probe, and "probing" is set exactly while there is one. *)
THEOREM AtMostOneProbe == Spec => []OneProbe
<1>1. IInv => OneProbe
  BY DEF IInv
<1> QED
  BY <1>1, InvariantHolds, PTL

(* No call from before the breaker opened is under way once it is half-open. *)
THEOREM NoStragglersEver == Spec => []NoStragglers
<1>1. IInv => NoStragglers
  <2> SUFFICES ASSUME IInv, State = "half-open", NEW c \in Calls, Running(c), ~call[c].probe
               PROVE  FALSE
    BY DEF NoStragglers
  <2>1. openFor # Closed /\ openFor >= OpenMs
    BY DEF State
  <2>2. openFor <= call[c].age /\ call[c].age <= CallMs /\ call[c].age \in Nat
    BY <2>1, RunningTypes, Times DEF IInv, OlderThanOpening
  <2>3. openFor \in Nat
    BY Times DEF IInv, CallTypes, Closed
  <2> QED
    BY <2>1, <2>2, <2>3, Times
<1> QED
  BY <1>1, InvariantHolds, PTL

--------------------------------------------------------------------------------
(* What is recorded.  While the breaker is closed, "failures" is what was seen *)
(* in the window, after failures from before it that nothing has trimmed yet.  *)
History ==
    /\ failures \in Seq(0..WindowMs) /\ Falling(failures)
    /\ seen \in Seq(0..WindowMs) /\ Falling(seen)
    /\ up \in BOOLEAN

Matching ==
    LET old == Len(failures) - Len(seen) IN
    openFor = Closed =>
        /\ Len(seen) <= Len(failures) /\ Len(failures) < FailureThreshold
        /\ \A k \in 1..old : failures[k] >= WindowMs
        /\ \A k \in 1..Len(seen) : seen[k] = failures[k + old] /\ seen[k] < WindowMs

(* While it is open, each failure that comes late ends a call that was under way. *)
Late == {c \in Calls : Running(c) /\ ~call[c].probe}
Room == openFor # Closed => Len(failures) + Cardinality(Late) < FailureThreshold + Cardinality(Calls)

ProbesWhileOpen == Probes # {} => openFor # Closed

Recorded == History /\ Matching /\ Room /\ ProbesWhileOpen

LEMMA LeastNatural ==
    ASSUME NEW T \in SUBSET Nat, T # {}
    PROVE  \E x \in T : \A y \in T : x <= y
<1>1. PICK R : R = OpToRel(<, Nat)
  OBVIOUS
<1>2. IsWellFoundedOn(R, Nat)
  BY <1>1, NatLessThanWellFounded
<1>3. PICK x \in T : \A y \in T : ~(<<y, x>> \in R)
  BY <1>2, WFMin
<1>4. \A y \in T : y < x => <<y, x>> \in R
  BY <1>1 DEF OpToRel
<1>5. \A y \in T : ~(y < x)
  BY <1>3, <1>4
<1>6. x \in Nat /\ \A y \in T : y \in Nat
  OBVIOUS
<1>7. \A y \in T : x <= y
  BY <1>5, <1>6
<1> QED
  BY <1>7

(* What is in the window is a suffix. *)
LEMMA WindowIsSuffix ==
    ASSUME NEW s \in Seq(0..WindowMs), Falling(s)
    PROVE  \E g \in 1..Len(s) + 1 :
              /\ InWindow(s) \in Seq(0..WindowMs) /\ Len(InWindow(s)) = Len(s) + 1 - g
              /\ \A k \in 1..Len(s) + 1 - g : InWindow(s)[k] = s[k + (g - 1)]
              /\ \A k \in 1..g - 1 : s[k] >= WindowMs
              /\ \A k \in g..Len(s) : s[k] < WindowMs
<1> DEFINE T == {k \in DOMAIN s : s[k] < WindowMs} \cup {Len(s) + 1}
<1>0. Len(s) \in Nat /\ DOMAIN s = 1..Len(s) /\ WindowMs \in Nat
  BY Times
<1>1. T \in SUBSET Nat /\ T # {}
  BY <1>0
<1> HIDE DEF T
<1>2. \E x \in T : \A y \in T : x <= y
  BY <1>1, LeastNatural
<1>3. PICK g : g = Min(T)
  OBVIOUS
<1>4. g \in T /\ \A y \in T : g <= y
  BY <1>2, <1>3 DEF Min
<1>5. g \in 1..Len(s) + 1
  BY <1>0, <1>4 DEF T
<1>6. InWindow(s) = SubSeq(s, g, Len(s))
  BY <1>3 DEF InWindow, T
<1>7. /\ InWindow(s) \in Seq(0..WindowMs) /\ Len(InWindow(s)) = Len(s) + 1 - g
      /\ \A k \in 1..Len(s) + 1 - g : InWindow(s)[k] = s[k + (g - 1)]
  <2>1. SubSeq(s, g, Len(s)) \in Seq(0..WindowMs)
    BY <1>0, <1>5
  <2>2. Len(SubSeq(s, g, Len(s))) = Len(s) + 1 - g
    BY <1>0, <1>5
  <2>3. \A k \in 1..Len(s) + 1 - g : SubSeq(s, g, Len(s))[k] = s[k + (g - 1)]
    BY <1>0, <1>5
  <2> QED
    BY <1>6, <2>1, <2>2, <2>3
<1>8. \A k \in 1..g - 1 : s[k] >= WindowMs
  <2>1. SUFFICES ASSUME NEW k \in 1..g - 1, ~(s[k] >= WindowMs) PROVE FALSE
    OBVIOUS
  <2>2. k \in DOMAIN s /\ s[k] \in 0..WindowMs
    BY <1>0, <1>5
  <2>3. k \in T
    BY <1>0, <2>1, <2>2 DEF T
  <2> QED
    BY <1>4, <1>5, <2>3
<1>9. \A k \in g..Len(s) : s[k] < WindowMs
  <2>1. SUFFICES ASSUME NEW k \in g..Len(s) PROVE s[k] < WindowMs
    OBVIOUS
  <2>2. g \in DOMAIN s /\ s[g] < WindowMs /\ k \in DOMAIN s
    BY <1>0, <1>4, <1>5, <2>1 DEF T
  <2>3. s[g] >= s[k]
    <3>1. g <= k
      BY <2>1
    <3> QED
      BY <2>2, <3>1 DEF Falling
  <2>4. s[g] \in 0..WindowMs /\ s[k] \in 0..WindowMs
    BY <1>0, <2>2
  <2> QED
    BY <1>0, <2>2, <2>3, <2>4
<1> QED
  BY <1>5, <1>7, <1>8, <1>9

LEMMA Element == ASSUME NEW S, NEW s \in Seq(S), NEW k \in 1..Len(s) PROVE s[k] \in S
OBVIOUS

(* A failure now is the newest one, and the one that stays longest in the window. *)
LEMMA RecordNow ==
    ASSUME NEW s \in Seq(0..WindowMs), Falling(s)
    PROVE  /\ Append(s, 0) \in Seq(0..WindowMs) /\ Len(Append(s, 0)) = Len(s) + 1
           /\ \A k \in 1..Len(s) : Append(s, 0)[k] = s[k]
           /\ Append(s, 0)[Len(s) + 1] = 0
           /\ Falling(Append(s, 0))
<1>0. 0 \in 0..WindowMs /\ Len(s) \in Nat /\ DOMAIN s = 1..Len(s)
  BY Times
<1>1. PICK t : t = Append(s, 0)
  OBVIOUS
<1>2. /\ t \in Seq(0..WindowMs) /\ Len(t) = Len(s) + 1 /\ DOMAIN t = 1..Len(s) + 1
      /\ \A k \in 1..Len(s) : t[k] = s[k]
      /\ t[Len(s) + 1] = 0
  BY <1>0, <1>1
<1>3. Falling(t)
  <2>1. SUFFICES ASSUME NEW j \in DOMAIN t, NEW k \in DOMAIN t, j <= k PROVE t[j] >= t[k]
    BY DEF Falling
  <2>2. CASE k = Len(s) + 1
    <3>1. t[k] = 0
      BY <1>2, <2>2
    <3>2. t[j] \in 0..WindowMs
      <4>1. CASE j = Len(s) + 1
        BY <1>0, <1>2, <4>1
      <4>2. CASE j # Len(s) + 1
        <5>1. j \in 1..Len(s)
          BY <1>0, <1>2, <4>2
        <5>2. t[j] = s[j]
          BY <1>2, <5>1
        <5>3. s[j] \in 0..WindowMs
          BY <5>1, Element
        <5> QED
          BY <5>2, <5>3
      <4> QED
        BY <4>1, <4>2
    <3> QED
      BY <3>1, <3>2, Times
  <2>3. CASE k # Len(s) + 1
    <3>1. j \in DOMAIN s /\ k \in DOMAIN s
      BY <1>0, <1>2, <2>1, <2>3
    <3> QED
      BY <1>0, <1>2, <2>1, <3>1 DEF Falling
  <2> QED
    BY <2>2, <2>3
<1> QED
  BY <1>1, <1>2, <1>3

LEMMA WindowFalls ==
    ASSUME NEW s \in Seq(0..WindowMs), Falling(s)
    PROVE  InWindow(s) \in Seq(0..WindowMs) /\ Falling(InWindow(s)) /\ Len(InWindow(s)) <= Len(s)
<1>1. PICK w : w = InWindow(s)
  OBVIOUS
<1>2. PICK g \in 1..Len(s) + 1 : /\ w \in Seq(0..WindowMs) /\ Len(w) = Len(s) + 1 - g
                                 /\ \A k \in 1..Len(s) + 1 - g : w[k] = s[k + (g - 1)]
  BY <1>1, WindowIsSuffix
<1>3. Len(s) \in Nat /\ DOMAIN s = 1..Len(s) /\ DOMAIN w = 1..Len(s) + 1 - g
  BY <1>2
<1>4. Falling(w)
  <2>1. SUFFICES ASSUME NEW j \in DOMAIN w, NEW k \in DOMAIN w, j <= k PROVE w[j] >= w[k]
    BY DEF Falling
  <2>2. j + (g - 1) \in DOMAIN s /\ k + (g - 1) \in DOMAIN s /\ j + (g - 1) <= k + (g - 1)
    BY <1>2, <1>3, <2>1
  <2> QED
    BY <1>2, <1>3, <2>2 DEF Falling
<1> QED
  BY <1>1, <1>2, <1>3, <1>4

(* A unit of time later. *)
LEMMA OlderAges ==
    ASSUME NEW s \in Seq(0..WindowMs), Falling(s)
    PROVE  /\ AllOlder(s) \in Seq(0..WindowMs) /\ Len(AllOlder(s)) = Len(s)
           /\ \A k \in 1..Len(s) : /\ AllOlder(s)[k] = Older(s[k], WindowMs)
                                   /\ s[k] >= WindowMs => AllOlder(s)[k] >= WindowMs
           /\ Falling(AllOlder(s))
<1>0. Len(s) \in Nat /\ DOMAIN s = 1..Len(s) /\ WindowMs \in Nat
  BY Times
<1>1. PICK t : t = AllOlder(s)
  OBVIOUS
<1>2. t = [k \in 1..Len(s) |-> Older(s[k], WindowMs)]
  BY <1>0, <1>1 DEF AllOlder
<1>3. \A k \in 1..Len(s) : s[k] \in 0..WindowMs
  BY <1>0
<1>4. \A a \in 0..WindowMs : Older(a, WindowMs) \in 0..WindowMs
  BY <1>0 DEF Older
<1>5. t \in [1..Len(s) -> 0..WindowMs]
  BY <1>2, <1>3, <1>4
<1>6. t \in Seq(0..WindowMs) /\ Len(t) = Len(s) /\ DOMAIN t = 1..Len(s)
  BY <1>0, <1>5
<1>7. \A a, b \in 0..WindowMs : a >= b => Older(a, WindowMs) >= Older(b, WindowMs)
  BY <1>0 DEF Older
<1>8. Falling(t)
  BY <1>0, <1>2, <1>3, <1>6, <1>7 DEF Falling
<1>9. \A k \in 1..Len(s) : t[k] = Older(s[k], WindowMs) /\ (s[k] >= WindowMs => t[k] >= WindowMs)
  <2>1. \A a \in 0..WindowMs : a >= WindowMs => Older(a, WindowMs) >= WindowMs
    BY <1>0 DEF Older
  <2> QED
    BY <1>2, <1>3, <2>1
<1> QED
  BY <1>1, <1>6, <1>8, <1>9

LEMMA InitRecorded == Init => Recorded
<1> SUFFICES ASSUME Init PROVE Recorded
  OBVIOUS
<1>1. failures = <<>> /\ seen = <<>> /\ up = TRUE /\ openFor = Closed /\ \A c \in Calls : ~Running(c)
  BY DEF Init, Running
<1>2. Falling(<<>>) /\ <<>> \in Seq(0..WindowMs) /\ Len(<<>>) = 0
  BY DEF Falling
<1>3. History
  BY <1>1, <1>2 DEF History
<1>4. Matching
  BY <1>1, <1>2, BreakerAssumption DEF Matching
<1>5. Room /\ ProbesWhileOpen
  BY <1>1 DEF Room, ProbesWhileOpen, Probes
<1> QED
  BY <1>3, <1>4, <1>5 DEF Recorded

LEMMA LateIsFinite ==
    ASSUME NEW S \in SUBSET Calls
    PROVE  IsFiniteSet(S) /\ Cardinality(S) \in Nat /\ Cardinality(S) <= Cardinality(Calls)
<1>1. IsFiniteSet(S) /\ Cardinality(S) <= Cardinality(Calls)
  BY CallsAssumption, FS_Subset
<1>2. Cardinality(S) \in Nat
  BY <1>1, FS_CardinalityType
<1> QED
  BY <1>1, <1>2

(* A step that records nothing and does not open the breaker. *)
LEMMA NothingRecorded ==
    ASSUME Recorded, UNCHANGED <<openFor, failures, seen>>, up' \in BOOLEAN,
           openFor = Closed \/ Late' \subseteq Late,
           Probes' # {} => openFor # Closed
    PROVE  Recorded'
<1>1. History' /\ Matching' /\ ProbesWhileOpen'
  BY DEF Recorded, History, Matching, ProbesWhileOpen, Falling
<1>2. Room'
  <2>1. SUFFICES ASSUME openFor # Closed
                 PROVE  Len(failures) + Cardinality(Late') < FailureThreshold + Cardinality(Calls)
    BY DEF Room
  <2>2. PICK S \in SUBSET Calls : S = Late
    BY DEF Late
  <2>3. PICK U \in SUBSET S : U = Late'
    BY <2>1, <2>2
  <2>4. Cardinality(U) <= Cardinality(S) /\ Cardinality(U) \in Nat /\ Cardinality(S) \in Nat
    BY <2>2, LateIsFinite, FS_Subset
  <2>5. Len(failures) + Cardinality(S) < FailureThreshold + Cardinality(Calls)
    BY <2>1, <2>2 DEF Recorded, Room
  <2>6. PICK a \in Nat, b \in Nat, c \in Nat, d \in Nat, e \in Nat :
            /\ a = Len(failures) /\ b = Cardinality(S) /\ c = Cardinality(U)
            /\ d = FailureThreshold /\ e = Cardinality(Calls)
    <3>1. Len(failures) \in Nat
      BY DEF Recorded, History
    <3>2. Cardinality(Calls) \in Nat
      BY CallsAssumption, FS_CardinalityType
    <3> QED
      BY <2>4, <3>1, <3>2, BreakerAssumption
  <2>7. a + b < d + e /\ c <= b
    BY <2>4, <2>5, <2>6
  <2>8. a + c < d + e
    BY <2>7
  <2> QED
    BY <2>3, <2>6, <2>8
<1> QED
  BY <1>1, <1>2 DEF Recorded

LEMMA StartRecorded == ASSUME IInv, Recorded, NEW c \in Calls, Start(c) PROVE Recorded'
<1>1. /\ UNCHANGED <<openFor, failures, seen>> /\ up' = up /\ ~Refused /\ ~Running(c)
      /\ call' = [call EXCEPT ![c] = [probe |-> State = "half-open", age |-> 0]]
  BY DEF Start
<1>2. /\ call'[c] = [probe |-> State = "half-open", age |-> 0]
      /\ \A d \in Calls : d # c => call'[d] = call[d]
  BY <1>1 DEF IInv, CallTypes
<1>3. CASE State = "half-open"
  <2>1. openFor # Closed
    BY <1>3 DEF State
  <2>2. call'[c].probe
    <3> DEFINE h == State = "half-open"
    <3>1. [probe |-> h, age |-> 0].probe = h
      <4> HIDE DEF h
      <4> QED
        OBVIOUS
    <3> QED
      BY <1>2, <1>3, <3>1, Zenon
  <2>3. Late' \subseteq Late
    BY <1>2, <2>2 DEF Late, Running
  <2> QED
    BY <1>1, <2>1, <2>3, NothingRecorded DEF Recorded, History
<1>4. CASE State # "half-open"
  <2>1. openFor = Closed
    BY <1>1, <1>4 DEF Refused, State
  <2>2. Probes = {}
    BY <2>1 DEF Recorded, ProbesWhileOpen
  <2>3. ~call'[c].probe
    <3> DEFINE h == State = "half-open"
    <3>1. [probe |-> h, age |-> 0].probe = h
      <4> HIDE DEF h
      <4> QED
        OBVIOUS
    <3> QED
      BY <1>2, <1>4, <3>1, Zenon
  <2>4. Probes' = {}
    BY <1>2, <2>2, <2>3 DEF Probes, Running
  <2> QED
    BY <1>1, <2>1, <2>4, NothingRecorded DEF Recorded, History
<1> QED
  BY <1>3, <1>4

(* Who is left when a call ends. *)
LEMMA EndLeaves ==
    ASSUME IInv, NEW c \in Calls, Running(c), End(c)
    PROVE  /\ Late' = Late \ {c} /\ Probes' = Probes \ {c} /\ up' = up
           /\ call[c].probe => (Late' = Late /\ Probes' = {})
<1>1. call'[c] = Idle /\ (\A d \in Calls : d # c => call'[d] = call[d]) /\ up' = up
  BY DEF End, IInv, CallTypes
<1>2. Late' = Late \ {c} /\ Probes' = Probes \ {c}
  BY <1>1 DEF Late, Probes, Running
<1>3. call[c].probe => (c \in Probes /\ c \notin Late)
  BY DEF Probes, Late
<1> QED
  BY <1>1, <1>2, <1>3 DEF IInv, OneProbe

LEMMA SucceedRecorded == ASSUME IInv, Recorded, NEW c \in Calls, Succeed(c) PROVE Recorded'
<1>0. Running(c) /\ End(c)
  BY DEF Succeed
<1>1. CASE ~call[c].probe
  <2>1. UNCHANGED <<openFor, failures, seen>>
    BY <1>1 DEF Succeed
  <2>2. Late' \subseteq Late /\ Probes' \subseteq Probes /\ up' = up
    BY <1>0, EndLeaves
  <2>3. Probes' # {} => openFor # Closed
    BY <2>2 DEF Recorded, ProbesWhileOpen
  <2> QED
    BY <2>1, <2>2, <2>3, NothingRecorded DEF Recorded, History
<1>2. CASE call[c].probe
  <2>1. openFor' = Closed /\ failures' = <<>> /\ seen' = <<>>
    BY <1>2 DEF Succeed, Reset
  <2>2. Probes' = {} /\ up' = up
    BY <1>0, <1>2, EndLeaves
  <2>3. Falling(<<>>) /\ <<>> \in Seq(0..WindowMs) /\ Len(<<>>) = 0 /\ Closed' = Closed
    BY DEF Falling, Closed
  <2>4. History'
    BY <2>1, <2>2, <2>3 DEF Recorded, History, Falling
  <2>5. Matching'
    BY <2>1, <2>3, BreakerAssumption DEF Matching
  <2>6. Room' /\ ProbesWhileOpen'
    BY <2>1, <2>2, <2>3 DEF Room, ProbesWhileOpen
  <2> QED
    BY <2>4, <2>5, <2>6 DEF Recorded
<1> QED
  BY <1>1, <1>2

(* While the breaker is closed, what is left of "failures" is as long as "seen". *)
LEMMA MatchingLengths ==
    ASSUME History, Matching, openFor = Closed
    PROVE  /\ Len(InWindow(failures)) = Len(seen)
           /\ \A k \in 1..Len(seen) : InWindow(failures)[k] = seen[k]
<1>1. PICK g \in 1..Len(failures) + 1 :
          /\ Len(InWindow(failures)) = Len(failures) + 1 - g
          /\ \A k \in 1..Len(failures) + 1 - g : InWindow(failures)[k] = failures[k + (g - 1)]
          /\ \A k \in 1..g - 1 : failures[k] >= WindowMs
          /\ \A k \in g..Len(failures) : failures[k] < WindowMs
  BY WindowIsSuffix DEF History
<1>2. PICK n \in Nat, m \in Nat : n = Len(failures) /\ m = Len(seen)
  BY DEF History
<1>3. /\ m <= n
      /\ \A k \in 1..n - m : failures[k] >= WindowMs
      /\ \A k \in 1..m : seen[k] = failures[k + (n - m)] /\ seen[k] < WindowMs
  BY <1>2 DEF Matching
<1>4. \A k \in 1..n : failures[k] \in Nat
  <2>1. SUFFICES ASSUME NEW k \in 1..n PROVE failures[k] \in Nat
    OBVIOUS
  <2>2. failures[k] \in 0..WindowMs
    BY <1>2, Element DEF History
  <2> QED
    BY <2>2, Times
<1>5. g \in 1..n + 1 /\ WindowMs \in Nat
  BY <1>1, <1>2, Times
<1>6. ~(g <= n - m)
  <2>1. SUFFICES ASSUME g <= n - m PROVE FALSE
    OBVIOUS
  <2>2. g \in 1..n - m /\ g \in g..n /\ g \in 1..n
    BY <1>2, <1>5, <2>1
  <2>3. failures[g] >= WindowMs /\ failures[g] < WindowMs /\ failures[g] \in Nat
    BY <1>1, <1>2, <1>3, <1>4, <2>2
  <2> QED
    BY <1>5, <2>3
<1>7. ~(g > n - m + 1)
  <2>1. SUFFICES ASSUME g > n - m + 1 PROVE FALSE
    OBVIOUS
  <2>2. n - m + 1 \in 1..g - 1 /\ 1 \in 1..m /\ n - m + 1 \in 1..n
    BY <1>2, <1>3, <1>5, <2>1
  <2>3. failures[n - m + 1] >= WindowMs /\ seen[1] = failures[1 + (n - m)] /\ seen[1] < WindowMs
        /\ failures[n - m + 1] \in Nat
    BY <1>1, <1>3, <1>4, <2>2
  <2>4. 1 + (n - m) = n - m + 1
    BY <1>2
  <2> QED
    BY <1>5, <2>3, <2>4
<1>8. g = n - m + 1
  BY <1>2, <1>5, <1>6, <1>7
<1>9. n + 1 - g = m /\ g - 1 = n - m
  BY <1>2, <1>8
<1>10. \A k \in 1..m : InWindow(failures)[k] = seen[k]
  BY <1>1, <1>2, <1>3, <1>9
<1> QED
  BY <1>1, <1>2, <1>9, <1>10

LEMMA FailRecorded ==
    ASSUME IInv, Recorded, NEW c \in Calls, Fail(c)
    PROVE  /\ Recorded'
           /\ openFor = Closed /\ openFor' # Closed => Len(seen') >= FailureThreshold
<1>0. /\ Running(c) /\ End(c) /\ RecordFailure(call[c].probe) /\ History /\ Matching /\ Room /\ ProbesWhileOpen
      /\ Closed' = Closed /\ 0 # Closed
  BY Times DEF Fail, Recorded, Closed
<1>1. /\ Late' = Late \ {c} /\ Probes' = Probes \ {c} /\ up' = up
      /\ call[c].probe => (Late' = Late /\ Probes' = {})
  BY <1>0, EndLeaves
<1>2. CASE call[c].probe
  <2>1. openFor' = 0 /\ failures' = failures /\ seen' = seen
    BY <1>0, <1>2 DEF RecordFailure
  <2>2. c \in Probes
    BY <1>0, <1>2 DEF Probes
  <2>3. openFor # Closed
    BY <1>0, <2>2 DEF ProbesWhileOpen
  <2>4. History' /\ Matching' /\ ProbesWhileOpen'
    BY <1>0, <1>1, <1>2, <2>1 DEF History, Falling, Matching, ProbesWhileOpen
  <2>5. Room'
    BY <1>0, <1>1, <1>2, <2>1, <2>3 DEF Room
  <2> QED
    BY <2>3, <2>4, <2>5 DEF Recorded
<1>3. CASE ~call[c].probe
  <2> DEFINE w == InWindow(failures)
  <2>1. /\ failures' = Append(w, 0) /\ seen' = Append(seen, 0)
        /\ openFor' = IF Len(failures') >= FailureThreshold THEN 0 ELSE openFor
    BY <1>0, <1>3 DEF RecordFailure
  <2>2. w \in Seq(0..WindowMs) /\ Falling(w) /\ Len(w) <= Len(failures)
    BY <1>0, WindowFalls DEF History
  <2>3. openFor = Closed => (Len(w) = Len(seen) /\ \A k \in 1..Len(seen) : w[k] = seen[k])
    BY <1>0, MatchingLengths
  <2> HIDE DEF w
  <2>4. /\ failures' \in Seq(0..WindowMs) /\ Len(failures') = Len(w) + 1 /\ Falling(failures')
        /\ \A k \in 1..Len(w) : failures'[k] = w[k]
        /\ failures'[Len(w) + 1] = 0
    BY <2>1, <2>2, RecordNow
  <2>5. /\ seen' \in Seq(0..WindowMs) /\ Len(seen') = Len(seen) + 1 /\ Falling(seen')
        /\ \A k \in 1..Len(seen) : seen'[k] = seen[k]
        /\ seen'[Len(seen) + 1] = 0
    BY <1>0, <2>1, RecordNow DEF History
  <2>6. History'
    BY <1>0, <1>1, <2>4, <2>5 DEF History, Falling
  <2>7. PICK n \in Nat, m \in Nat, l \in Nat, t \in Nat, a \in Nat, b \in Nat :
            /\ n = Len(failures) /\ m = Len(seen) /\ l = Len(w) /\ t = FailureThreshold
            /\ a = Cardinality(Calls) /\ b = Cardinality(Late')
            /\ l <= n /\ b <= a - 1
            /\ openFor # Closed => n + (b + 1) < t + a
    <3>1. Len(failures) \in Nat /\ Len(seen) \in Nat /\ Len(w) \in Nat /\ FailureThreshold \in Nat
      BY <1>0, <2>2, BreakerAssumption DEF History
    <3>2. PICK S \in SUBSET Calls : S = Late'
      BY <1>1 DEF Late
    <3>3. c \notin S /\ S \subseteq Calls \ {c}
      BY <1>1, <3>2
    <3>4. IsFiniteSet(Calls) /\ Cardinality(Calls) \in Nat /\ Cardinality(S) \in Nat
      BY CallsAssumption, LateIsFinite, FS_CardinalityType
    <3>5. Cardinality(Calls \ {c}) = Cardinality(Calls) - 1
      BY <3>4, FS_RemoveElement
    <3>6. IsFiniteSet(Calls \ {c})
      BY <3>4, FS_RemoveElement
    <3>7. Cardinality(S) <= Cardinality(Calls \ {c})
      BY <3>3, <3>6, FS_Subset
    <3>8. Cardinality(S) + 1 = Cardinality(Late)
      <4>1. c \in Late
        BY <1>0, <1>3 DEF Late
      <4>2. PICK L \in SUBSET Calls : L = Late
        BY DEF Late
      <4>3. IsFiniteSet(L) /\ Cardinality(L) \in Nat
        BY LateIsFinite
      <4>4. Cardinality(L \ {c}) = Cardinality(L) - 1
        BY <4>1, <4>2, <4>3, FS_RemoveElement
      <4> QED
        BY <1>1, <3>2, <4>2, <4>3, <4>4
    <3>9. openFor # Closed => Len(failures) + (Cardinality(S) + 1) < FailureThreshold + Cardinality(Calls)
      BY <1>0, <3>8 DEF Room
    <3> QED
      BY <2>2, <3>1, <3>2, <3>4, <3>5, <3>7, <3>9
  <2>8. CASE openFor = Closed /\ openFor' = Closed
    <3>1. ~(Len(failures') >= FailureThreshold)
      BY <1>0, <2>1, <2>8
    <3>2. l = m /\ l + 1 < t
      BY <2>3, <2>4, <2>7, <2>8, <3>1
    <3>3. Len(failures') = m + 1 /\ Len(seen') = m + 1
      BY <2>4, <2>5, <2>7, <3>2
    <3>4. \A k \in 1..m + 1 : seen'[k] = failures'[k] /\ seen'[k] < WindowMs
      <4>1. SUFFICES ASSUME NEW k \in 1..m + 1 PROVE seen'[k] = failures'[k] /\ seen'[k] < WindowMs
        OBVIOUS
      <4>2. CASE k = m + 1
        BY <2>4, <2>5, <2>7, <3>2, <4>2, Times
      <4>3. CASE k # m + 1
        <5>1. k \in 1..m
          BY <2>7, <4>3
        <5>2. seen'[k] = seen[k] /\ failures'[k] = w[k] /\ w[k] = seen[k] /\ seen[k] < WindowMs
          BY <1>0, <2>3, <2>4, <2>5, <2>7, <2>8, <3>2, <5>1 DEF Matching
        <5> QED
          BY <5>2
      <4> QED
        BY <4>2, <4>3
    <3>5. Matching'
      <4>1. Len(failures') - Len(seen') = 0 /\ \A k \in 1..Len(seen') : k + 0 = k
        BY <3>3
      <4>2. Len(seen') <= Len(failures') /\ Len(failures') < FailureThreshold
        BY <2>7, <3>2, <3>3
      <4> QED
        BY <3>3, <3>4, <4>1, <4>2 DEF Matching
    <3>6. Room' /\ ProbesWhileOpen'
      BY <1>0, <1>1, <2>8 DEF Room, ProbesWhileOpen
    <3> QED
      BY <2>6, <2>8, <3>5, <3>6 DEF Recorded
  <2>9. CASE openFor = Closed /\ openFor' # Closed
    <3>1. Len(failures') >= FailureThreshold
      BY <1>0, <2>1, <2>9
    <3>2. l = m /\ l + 1 >= t /\ m <= n /\ n < t
      BY <1>0, <2>3, <2>4, <2>7, <2>9, <3>1 DEF Matching
    <3>3. Len(seen') >= FailureThreshold
      BY <2>5, <2>7, <3>2
    <3>4. Len(failures') + Cardinality(Late') < FailureThreshold + Cardinality(Calls)
      BY <2>4, <2>7, <3>2
    <3>5. Matching' /\ Room' /\ ProbesWhileOpen'
      BY <1>0, <2>9, <3>4 DEF Matching, Room, ProbesWhileOpen
    <3> QED
      BY <2>6, <3>3, <3>5 DEF Recorded
  <2>10. CASE openFor # Closed
    <3>1. openFor' # Closed
      BY <1>0, <2>1, <2>10
    <3>2. Len(failures') + Cardinality(Late') < FailureThreshold + Cardinality(Calls)
      BY <2>4, <2>7, <2>10
    <3>3. Matching' /\ Room' /\ ProbesWhileOpen'
      BY <1>0, <3>1, <3>2 DEF Matching, Room, ProbesWhileOpen
    <3> QED
      BY <2>6, <2>10, <3>3 DEF Recorded
  <2> QED
    BY <2>8, <2>9, <2>10
<1> QED
  BY <1>2, <1>3

LEMMA TickCalls ==
    ASSUME IInv, Tick
    PROVE  Late' = Late /\ Probes' = Probes
<1>1. ASSUME NEW c \in Calls
      PROVE  /\ Running(c)' <=> Running(c)
             /\ Running(c) => (call'[c].probe <=> call[c].probe)
  <2>1. call'[c] = IF Running(c) THEN [call[c] EXCEPT !.age = @ + 1] ELSE Idle
    BY DEF Tick
  <2>2. CASE Running(c)
    <3>1. call[c] \in [probe : BOOLEAN, age : 0..CallMs] /\ call[c].age < CallMs
      BY <2>2 DEF Tick, IInv, CallTypes, Running
    <3>2. call'[c] = [probe |-> call[c].probe, age |-> call[c].age + 1]
      BY <2>1, <2>2, <3>1
    <3>3. call'[c].age <= CallMs /\ call'[c].probe = call[c].probe
      BY <3>1, <3>2, Times
    <3>4. call'[c] # Idle
      BY <3>3, Times DEF Idle
    <3> QED
      BY <2>2, <3>3, <3>4 DEF Running
  <2>3. CASE ~Running(c)
    BY <2>1, <2>3 DEF Running
  <2> QED
    BY <2>2, <2>3
<1> QED
  BY <1>1 DEF Late, Probes

LEMMA TickRecorded == ASSUME IInv, Recorded, Tick PROVE Recorded'
<1>0. /\ History /\ Matching /\ Room /\ ProbesWhileOpen /\ Closed' = Closed
      /\ failures' = AllOlder(failures) /\ seen' = InWindow(AllOlder(seen)) /\ up' = up
      /\ openFor' = Older(openFor, OpenMs)
  BY DEF Tick, Recorded, Closed
<1>1. Late' = Late /\ Probes' = Probes
  BY TickCalls
<1>2. openFor' = Closed <=> openFor = Closed
  BY <1>0, Times DEF Older, Closed, IInv, CallTypes
<1>3. /\ failures' \in Seq(0..WindowMs) /\ Len(failures') = Len(failures) /\ Falling(failures')
      /\ \A k \in 1..Len(failures) : /\ failures'[k] = Older(failures[k], WindowMs)
                                     /\ failures[k] >= WindowMs => failures'[k] >= WindowMs
  BY <1>0, OlderAges DEF History
<1>4. PICK s : s = AllOlder(seen)
  OBVIOUS
<1>5. /\ s \in Seq(0..WindowMs) /\ Len(s) = Len(seen) /\ Falling(s)
      /\ \A k \in 1..Len(seen) : s[k] = Older(seen[k], WindowMs)
  BY <1>0, <1>4, OlderAges DEF History
<1>6. seen' = InWindow(s) /\ seen' \in Seq(0..WindowMs) /\ Falling(seen')
  BY <1>0, <1>4, <1>5, WindowFalls
<1>7. History'
  BY <1>0, <1>3, <1>6 DEF History, Falling
<1>8. Room' /\ ProbesWhileOpen'
  BY <1>0, <1>1, <1>2, <1>3 DEF Room, ProbesWhileOpen
<1>9. Matching'
  <2>1. SUFFICES ASSUME openFor = Closed
                 PROVE  /\ Len(seen') <= Len(failures') /\ Len(failures') < FailureThreshold
                        /\ \A k \in 1..Len(failures') - Len(seen') : failures'[k] >= WindowMs
                        /\ \A k \in 1..Len(seen') : /\ seen'[k] = failures'[k + (Len(failures') - Len(seen'))]
                                                    /\ seen'[k] < WindowMs
    BY <1>2 DEF Matching, Closed
  <2>2. PICK g \in 1..Len(s) + 1 :
            /\ Len(InWindow(s)) = Len(s) + 1 - g
            /\ \A k \in 1..Len(s) + 1 - g : InWindow(s)[k] = s[k + (g - 1)]
            /\ \A k \in 1..g - 1 : s[k] >= WindowMs
            /\ \A k \in g..Len(s) : s[k] < WindowMs
    BY <1>5, WindowIsSuffix
  <2>3. PICK n \in Nat, m \in Nat : n = Len(failures) /\ m = Len(seen)
    BY <1>0 DEF History
  <2>4. /\ m <= n /\ n < FailureThreshold
        /\ \A k \in 1..n - m : failures[k] >= WindowMs
        /\ \A k \in 1..m : seen[k] = failures[k + (n - m)]
    BY <1>0, <2>1, <2>3 DEF Matching
  <2>5. g \in 1..m + 1 /\ Len(seen') = m + 1 - g /\ Len(failures') = n
    BY <1>3, <1>5, <1>6, <2>2, <2>3
  <2>6. n - (m + 1 - g) = (n - m) + (g - 1)
    BY <2>3, <2>5
  <2>7. ASSUME NEW k \in 1..(n - m) + (g - 1) PROVE failures'[k] >= WindowMs
    <3>1. k \in 1..n
      BY <2>3, <2>4, <2>5
    <3>2. CASE k <= n - m
      <4>1. k \in 1..n - m
        BY <2>3, <2>4, <3>2
      <4> QED
        BY <1>3, <2>3, <2>4, <3>1, <4>1
    <3>3. CASE ~(k <= n - m)
      <4>1. PICK j \in 1..g - 1 : k = j + (n - m)
        <5>1. k - (n - m) \in 1..g - 1 /\ k = (k - (n - m)) + (n - m)
          BY <2>3, <2>4, <2>5, <3>3
        <5> QED
          BY <5>1
      <4>2. j \in 1..m
        BY <2>3, <2>5
      <4>3. seen[j] = failures[k] /\ s[j] = Older(seen[j], WindowMs) /\ s[j] >= WindowMs
        BY <1>5, <2>2, <2>3, <2>4, <4>1, <4>2
      <4>4. failures'[k] = Older(failures[k], WindowMs)
        BY <1>3, <2>3, <3>1
      <4> QED
        BY <4>3, <4>4
    <3> QED
      BY <3>2, <3>3
  <2>8. ASSUME NEW k \in 1..m + 1 - g
        PROVE  seen'[k] = failures'[k + ((n - m) + (g - 1))] /\ seen'[k] < WindowMs
    <3>1. PICK j \in 1..m : j = k + (g - 1) /\ j \in g..m
      <4>1. k + (g - 1) \in g..m /\ k + (g - 1) \in 1..m
        BY <2>3, <2>5
      <4> QED
        BY <4>1
    <3>2. seen'[k] = s[j] /\ s[j] < WindowMs
      BY <1>5, <1>6, <2>2, <2>3, <3>1
    <3>3. s[j] = Older(seen[j], WindowMs) /\ seen[j] = failures[j + (n - m)]
      BY <1>5, <2>3, <2>4, <3>1
    <3>4. j + (n - m) \in 1..n /\ j + (n - m) = k + ((n - m) + (g - 1))
      BY <2>3, <2>4, <2>5, <3>1
    <3>5. failures'[j + (n - m)] = Older(failures[j + (n - m)], WindowMs)
      BY <1>3, <2>3, <3>4
    <3> QED
      BY <3>2, <3>3, <3>4, <3>5
  <2>9. m + 1 - g <= n
    BY <2>3, <2>4, <2>5
  <2> QED
    BY <2>4, <2>5, <2>6, <2>7, <2>8, <2>9
<1> QED
  BY <1>7, <1>8, <1>9 DEF Recorded

LEMMA RecordedStep == IInv /\ Recorded /\ [Next]_vars => Recorded'
<1> SUFFICES ASSUME IInv, Recorded, [Next]_vars PROVE Recorded'
  OBVIOUS
<1>1. ASSUME NEW c \in Calls, Start(c) \/ Succeed(c) \/ Fail(c) PROVE Recorded'
  BY <1>1, StartRecorded, SucceedRecorded, FailRecorded
<1>2. CASE Tick
  BY <1>2, TickRecorded
<1>3. CASE Outage \/ Recovery \/ UNCHANGED vars
  <2>1. UNCHANGED <<openFor, failures, seen, call>> /\ up' \in BOOLEAN
    BY <1>3 DEF Outage, Recovery, vars, Recorded, History
  <2>2. Late' = Late /\ Probes' = Probes
    BY <2>1 DEF Late, Probes, Running
  <2> QED
    BY <2>1, <2>2, NothingRecorded DEF Recorded, ProbesWhileOpen
<1> QED
  BY <1>1, <1>2, <1>3 DEF Next

LEMMA RecordedHolds == Spec => [](IInv /\ Recorded)
BY InitIInv, IInvStep, InitRecorded, RecordedStep, PTL DEF Spec

(* Every variable has its type; "failures", which nothing trims while the      *)
(* breaker is open, stays shorter than the threshold and the calls together.   *)
THEOREM TypeCorrect == Spec => []TypeOK
<1>1. IInv /\ Recorded => TypeOK
  <2> SUFFICES ASSUME IInv, Recorded PROVE TypeOK
    OBVIOUS
  <2>1. PICK S \in SUBSET Calls : S = Late
    BY DEF Late
  <2>2. PICK n \in Nat, t \in Nat, a \in Nat, b \in Nat :
            n = Len(failures) /\ t = FailureThreshold /\ a = Cardinality(Calls) /\ b = Cardinality(S)
    <3>1. Len(failures) \in Nat /\ FailureThreshold \in Nat
      BY BreakerAssumption DEF Recorded, History
    <3>2. Cardinality(Calls) \in Nat /\ Cardinality(S) \in Nat
      BY CallsAssumption, FS_CardinalityType, LateIsFinite
    <3> QED
      BY <3>1, <3>2
  <2>3. openFor = Closed => n < t
    BY <2>2 DEF Recorded, Matching
  <2>4. openFor # Closed => n + b < t + a
    BY <2>1, <2>2 DEF Recorded, Room
  <2>5. n < t + a
    BY <2>3, <2>4
  <2>6. Len(failures) < FailureThreshold + Cardinality(Calls)
    BY <2>2, <2>5
  <2> QED
    BY <2>6 DEF TypeOK, IInv, CallTypes, Recorded, History
<1> QED
  BY <1>1, RecordedHolds, PTL

(* A closed breaker has seen fewer failures in the window than the threshold,  *)
(* and recordFailure() opens it only when the window holds as many.            *)
THEOREM OpensAsSeen == Spec => OpensAtThreshold
<1> DEFINE Fair == State = "closed" => /\ Len(seen) < FailureThreshold
                                       /\ openFor' # Closed => Len(seen') >= FailureThreshold
<1>1. IInv /\ Recorded /\ [Next]_vars => [Fair]_vars
  <2> SUFFICES ASSUME IInv, Recorded, Next, State = "closed"
               PROVE  /\ Len(seen) < FailureThreshold
                      /\ openFor' # Closed => Len(seen') >= FailureThreshold
    OBVIOUS
  <2>1. openFor = Closed
    BY DEF State
  <2>2. Len(seen) < FailureThreshold
    <3>1. Len(seen) <= Len(failures) /\ Len(failures) < FailureThreshold
      BY <2>1 DEF Recorded, Matching
    <3>2. Len(seen) \in Nat /\ Len(failures) \in Nat /\ FailureThreshold \in Nat
      BY BreakerAssumption DEF Recorded, History
    <3> QED
      BY <3>1, <3>2
  <2>3. ASSUME NEW c \in Calls, Fail(c) PROVE openFor' # Closed => Len(seen') >= FailureThreshold
    BY <2>1, <2>3, FailRecorded
  <2>4. ASSUME NEW c \in Calls, Start(c) \/ Succeed(c) PROVE openFor' = Closed
    BY <2>1, <2>4 DEF Start, Succeed, Reset
  <2>5. ASSUME Tick PROVE openFor' = Closed
    BY <2>1, <2>5, Times DEF Tick, Older, Closed
  <2>6. ASSUME Outage \/ Recovery PROVE openFor' = Closed
    BY <2>1, <2>6 DEF Outage, Recovery
  <2> QED
    BY <2>2, <2>3, <2>4, <2>5, <2>6 DEF Next
<1>2. [](IInv /\ Recorded) /\ [][Next]_vars => [][Fair]_vars
  BY <1>1, PTL
<1> QED
  BY <1>2, RecordedHolds, PTL DEF Spec, OpensAtThreshold

================================================================================
