----------------------------- MODULE LinkCacheProofs -----------------------------
(***************************************************************************)
(* What TLC checks of LinkCache on a few instances, for any number of      *)
(* instances, requests and writers and any times:                          *)
(*   - its types, whatever fails (TypeCorrect);                            *)
(*   - StaleIsDoomed, while Redis loses no command;                        *)
(*   - NoOldTarget and StalenessWithinTtl, whatever fails;                 *)
(*   - BoundedStaleness, while Redis loses no command.                     *)
(*                                                                         *)
(* StaleIsDoomed is not inductive.  Before a value of an old row is in     *)
(* Redis it was read by a load, and then under way in a SET: what is said  *)
(* of the value has to be said of those already, and more: the DEL to come *)
(* must come after the SET (Covered), so a DEL that has been sent is not   *)
(* enough, and a second one must be due later than anything read before    *)
(* can still arrive.  The purge deletes a row and sends no DEL: it may,    *)
(* because by then every value of the row is gone, and so is every command *)
(* that could bring it (ReadInTime), or its owner has just renewed it      *)
(* (Selected).                                                             *)
(***************************************************************************)
EXTENDS LinkCache, SequenceTheorems, WellFoundedInduction, TLAPS

(* The second DEL comes later than two latencies, and a row is kept for one *)
(* after its expiry; the breaker is closed and no connection breaks.        *)
Spaced   == 2 * Latency < Delay /\ Latency <= Grace
NoneLost == Faults \subseteq {"database", "timeout"}

Active(rw) == rw # NoRow /\ rw.status = "active"
Loaded(i)  == flight[i] # NoFlight /\ flight[i].phase = "result"

(* A change that is not yet made known to Redis at all. *)
Untold == \E w \in Writers : wr[w].pc = "written"

(* Whatever was read at the time t, and is on its way, a DEL comes after it. *)
Covered(t) == Untold \/ \E i \in Instances : \E due \in timers[i] : t + Latency < due

(* A change after the row was selected: its second DEL is a Delay later. *)
Renewed(t) == Untold \/ \E i \in Instances : \E due \in timers[i] : t + Delay <= due

(* The commands on their way. *)
OnTheWay == UNION {{pipe[i][k] : k \in DOMAIN pipe[i]} : i \in Instances}

(* Nothing is under way for longer than Latency, and no timer is overdue. *)
UnderWay(t) == t <= now /\ now <= t + Latency
Timely ==
    /\ \A cmd \in OnTheWay : UnderWay(cmd.born)
    /\ \A i \in Instances : (\A due \in timers[i] : now <= due) /\ (Loaded(i) => UnderWay(flight[i].born))
    /\ \A w \in Writers : wr[w].pc # "idle" => UnderWay(wr[w].born)
    /\ victim # Nobody => UnderWay(victim.born)

(* A GET or DEL that somebody waits for is its only one. *)
AtMostOne(C) ==
    \A i, j \in Instances : \A k \in DOMAIN pipe[i], m \in DOMAIN pipe[j] :
       pipe[i][k] \in C /\ pipe[j][m] \in C => i = j /\ k = m

Gets(r) == {cmd \in Command : cmd.op = "get" /\ cmd.r = r}
Dels(w) == {cmd \in Command : cmd.op = "del" /\ cmd.w = w}
OneGet == \A r \in Requests : AtMostOne(Gets(r)) /\ \A cmd \in OnTheWay \cap Gets(r) : req[r].pc = "get"
Home   == \A i \in Instances : \A k \in DOMAIN pipe[i] :
             pipe[i][k].op = "get" => req[pipe[i][k].r].at = i
OneDel == \A w \in Writers : AtMostOne(Dels(w)) /\ \A cmd \in OnTheWay \cap Dels(w) : wr[w].pc = "deleting"

(* A row, and the id that the purge has selected. *)
RowFormed == row # NoRow => row.purge = PurgeAt(row.e) /\ row.id < Len(hist) /\ row.born <= now
Selected  == victim # Nobody =>
    /\ victim.id < Len(hist)
    /\ row # NoRow /\ row.id = victim.id =>
          \/ row.purge # Never /\ row.purge < victim.born
          \/ Renewed(victim.born)

(* A value of a link that expires is not in Redis much longer than that. *)
SetInTime(cmd) == cmd.op = "set" /\ cmd.e # Never => cmd.born + cmd.ttl <= cmd.e
EntryInTime ==
    /\ entry # NoEntry => now < entry.dies
    /\ entry # NoEntry /\ entry.kind = "url" /\ entry.e # Never => entry.dies <= entry.e + Latency
    /\ entry # NoEntry /\ entry.kind = "none" => entry.dies <= now + NegTtl
ReadInTime ==
    /\ \A cmd \in OnTheWay : SetInTime(cmd)
    /\ \A w \in Writers : wr[w].pc = "created" /\ wr[w].row.e # Never => wr[w].born < wr[w].row.e
    /\ EntryInTime

(* What was read before the last change of the row will be removed. *)
CommandOk(cmd) ==
    /\ cmd.op = "set" => Reflects(cmd, row) \/ Covered(cmd.born)
    /\ cmd.op = "neg" /\ Active(row) => cmd.born <= row.born \/ Covered(cmd.born)
LoadOk(i) == Loaded(i) =>
    /\ Active(flight[i].row) =>
          \/ Reflects(flight[i].row, row) \/ Covered(flight[i].born)
          \/ Expired(flight[i].row.e, now)
    /\ ~Active(flight[i].row) /\ Active(row) => flight[i].born <= row.born \/ Covered(flight[i].born)
WriterOk(w) == wr[w].pc = "created" => Reflects(wr[w].row, row) \/ Covered(wr[w].born)
EntryOk ==
    /\ entry # NoEntry /\ entry.kind = "url" => Reflects(entry, row) \/ RemovalPending
    /\ entry # NoEntry /\ entry.kind = "none" /\ Active(row) =>
          RemovalPending \/ entry.dies <= row.born + Latency + NegTtl

AllCovered ==
    /\ \A cmd \in OnTheWay : CommandOk(cmd)
    /\ \A i \in Instances : LoadOk(i)
    /\ \A w \in Writers : WriterOk(w)
    /\ EntryOk

Typed == TypeOK /\ OneGet
IInv  == Typed /\ Timely /\ OneDel /\ RowFormed /\ Selected /\ ReadInTime /\ AllCovered

--------------------------------------------------------------------------------
(* Every set of numbers that is not empty has a least one. *)
LEMMA LeastNatural ==
    ASSUME NEW T \in SUBSET Nat, T # {}
    PROVE  \E x \in T : \A y \in T : x <= y
<1>1. PICK R : R = OpToRel(<, Nat)
  OBVIOUS
<1>2. IsWellFoundedOn(R, Nat)
  BY <1>1, NatLessThanWellFounded
<1>3. PICK x \in T : \A y \in T : ~(<<y, x>> \in R)
  BY <1>2, WFMin
<1>4. \A y \in T : y < x => <<y, x>> \in R
  BY <1>1 DEF OpToRel
<1>5. \A y \in T : ~(y < x)
  BY <1>3, <1>4
<1>6. x \in Nat /\ \A y \in T : y \in Nat
  OBVIOUS
<1>7. \A y \in T : x <= y
  BY <1>5, <1>6
<1> QED
  BY <1>7

(* Induction, for a set of numbers. *)
LEMMA Induction ==
    ASSUME NEW S, 0 \in S, \A n \in Nat : n \in S => n + 1 \in S
    PROVE  Nat \subseteq S
<1>1. SUFFICES ASSUME Nat \ S # {} PROVE FALSE
  OBVIOUS
<1>2. PICK T \in SUBSET Nat : T = Nat \ S
  OBVIOUS
<1>3. PICK x \in T : \A y \in T : x <= y
  BY <1>1, <1>2, LeastNatural
<1>4. x \in Nat /\ x # 0
  BY <1>2
<1>5. x - 1 \in Nat /\ x - 1 \notin T
  BY <1>3, <1>4
<1> QED
  BY <1>2, <1>3, <1>4, <1>5

(* A function on 0..n may be defined by recursion. *)
ByRecursion(f, n, a, g) == f[0] = a /\ \A k \in 1..n : f[k] = g[<<f[k - 1], k>>]

LEMMA Recursion ==
    ASSUME NEW n \in Nat, NEW S, NEW a \in S, NEW g \in [S \X (1..n) -> S]
    PROVE  \E f \in [0..n -> S] : ByRecursion(f, n, a, g)
<1> DEFINE Upto(m) == \E f \in [0..m -> S] : ByRecursion(f, m, a, g)
           T == {m \in Nat : m <= n => Upto(m)}
<1>1. 0 \in T
  <2>1. PICK f : f = [k \in 0..0 |-> a]
    OBVIOUS
  <2>2. f \in [0..0 -> S] /\ ByRecursion(f, 0, a, g)
    BY <2>1 DEF ByRecursion
  <2> QED
    BY <2>2
<1>2. ASSUME NEW m \in Nat, m \in T PROVE m + 1 \in T
  <2>1. SUFFICES ASSUME m + 1 <= n PROVE Upto(m + 1)
    OBVIOUS
  <2>2. PICK f \in [0..m -> S] : f[0] = a /\ \A k \in 1..m : f[k] = g[<<f[k - 1], k>>]
    BY <1>2, <2>1 DEF ByRecursion
  <2>3. PICK h : h = [k \in 0..m + 1 |-> IF k = m + 1 THEN g[<<f[m], m + 1>>] ELSE f[k]]
    OBVIOUS
  <2>4. <<f[m], m + 1>> \in S \X (1..n)
    BY <2>1, <2>2
  <2>5. h \in [0..m + 1 -> S]
    <3>1. ASSUME NEW k \in 0..m + 1 PROVE (IF k = m + 1 THEN g[<<f[m], m + 1>>] ELSE f[k]) \in S
      BY <2>2, <2>4
    <3> QED
      BY <2>3, <3>1
  <2>6. h[0] = a
    BY <2>2, <2>3
  <2>7. ASSUME NEW k \in 1..m + 1 PROVE h[k] = g[<<h[k - 1], k>>]
    <3>1. CASE k = m + 1
      <4>1. h[k] = g[<<f[m], m + 1>>] /\ h[k - 1] = f[m]
        BY <2>3, <3>1
      <4> QED
        BY <3>1, <4>1
    <3>2. CASE k # m + 1
      <4>1. k \in 1..m /\ h[k] = f[k] /\ h[k - 1] = f[k - 1]
        BY <2>3, <3>2
      <4> QED
        BY <2>2, <4>1
    <3> QED
      BY <3>1, <3>2
  <2>8. ByRecursion(h, m + 1, a, g)
    BY <2>6, <2>7 DEF ByRecursion
  <2> QED
    BY <2>5, <2>8
<1>3. Nat \subseteq T
  <2> HIDE DEF T
  <2> QED
    BY <1>1, <1>2, Induction
<1>4. n \in T
  <2> HIDE DEF T
  <2> QED
    BY <1>3
<1>5. Upto(n)
  <2> HIDE DEF Upto
  <2> QED
    BY <1>4
<1> QED
  BY <1>5

(* What a process that died leaves of its commands. *)
LEMMA UnawaitedStay ==
    ASSUME NEW cmds \in Seq(Command)
    PROVE  AllUnawaited(cmds) \in Seq({cmds[k] : k \in {m \in DOMAIN cmds : Unawaited(cmds[m])}})
<1> PICK n \in Nat : n = Len(cmds) /\ DOMAIN cmds = 1..n
  OBVIOUS
<1> PICK C : C = {cmds[k] : k \in {m \in 1..n : Unawaited(cmds[m])}}
  OBVIOUS
<1> DEFINE g == [z \in Seq(C) \X (1..n) |-> IF Unawaited(cmds[z[2]]) THEN Append(z[1], cmds[z[2]]) ELSE z[1]]
           Loop(f) == [k \in 0..n |-> IF k = 0 THEN <<>>
                                       ELSE IF Unawaited(cmds[k]) THEN Append(f[k - 1], cmds[k]) ELSE f[k - 1]]
<1>1. g \in [Seq(C) \X (1..n) -> Seq(C)]
  <2>1. ASSUME NEW z \in Seq(C) \X (1..n)
        PROVE  (IF Unawaited(cmds[z[2]]) THEN Append(z[1], cmds[z[2]]) ELSE z[1]) \in Seq(C)
    <3> PICK q, k : q = z[1] /\ k = z[2]
      OBVIOUS
    <3>1. q \in Seq(C) /\ k \in 1..n
      OBVIOUS
    <3>2. Unawaited(cmds[k]) => cmds[k] \in C
      BY <3>1
    <3> QED
      BY <3>1, <3>2
  <2> QED
    BY <2>1
<1>2. PICK f \in [0..n -> Seq(C)] : ByRecursion(f, n, <<>>, g)
  <2> HIDE DEF g
  <2>1. <<>> \in Seq(C)
    OBVIOUS
  <2> QED
    BY <1>1, <2>1, Recursion
<1>3. f = Loop(f)
  <2>1. ASSUME NEW k \in 0..n
        PROVE  f[k] = IF k = 0 THEN <<>>
                      ELSE IF Unawaited(cmds[k]) THEN Append(f[k - 1], cmds[k]) ELSE f[k - 1]
    <3>1. CASE k = 0
      BY <1>2, <3>1 DEF ByRecursion
    <3>2. CASE k # 0
      <4>1. k \in 1..n /\ k - 1 \in 0..n
        BY <3>2
      <4> PICK q : q = f[k - 1]
        OBVIOUS
      <4>2. f[k] = g[<<q, k>>] /\ q \in Seq(C)
        BY <1>2, <4>1 DEF ByRecursion
      <4>3. g[<<q, k>>] = IF Unawaited(cmds[k]) THEN Append(q, cmds[k]) ELSE q
        BY <4>1, <4>2
      <4> QED
        BY <3>2, <4>2, <4>3
    <3> QED
      BY <3>1, <3>2
  <2> QED
    BY <2>1
<1>4. PICK kept : kept = (CHOOSE h : h = Loop(h))
  OBVIOUS
<1>5. kept = Loop(kept)
  <2> HIDE DEF Loop
  <2> QED
    BY <1>3, <1>4
<1>6. AllUnawaited(cmds) = kept[n]
  BY <1>4 DEF AllUnawaited
<1>7. \A k \in 0..n : kept[k] \in Seq(C)
  <2> DEFINE T == {m \in Nat : m <= n => kept[m] \in Seq(C)}
  <2>1. 0 \in T
    BY <1>5
  <2>2. ASSUME NEW m \in Nat, m \in T PROVE m + 1 \in T
    <3>1. SUFFICES ASSUME m + 1 <= n PROVE kept[m + 1] \in Seq(C)
      OBVIOUS
    <3>2. m + 1 \in 0..n /\ m + 1 # 0 /\ (m + 1) - 1 = m /\ m <= n /\ m + 1 \in 1..n
      BY <3>1
    <3> PICK q : q = kept[m]
      OBVIOUS
    <3>3. q \in Seq(C) /\ kept[m + 1] = IF Unawaited(cmds[m + 1]) THEN Append(q, cmds[m + 1]) ELSE q
      BY <1>5, <2>2, <3>2
    <3>4. Unawaited(cmds[m + 1]) => cmds[m + 1] \in C
      BY <3>2
    <3> QED
      BY <3>3, <3>4
  <2>3. Nat \subseteq T
    <3> HIDE DEF T
    <3> QED
      BY <2>1, <2>2, Induction
  <2> QED
    BY <2>3
<1>8. n \in 0..n
  OBVIOUS
<1> QED
  BY <1>6, <1>7, <1>8

--------------------------------------------------------------------------------
(***************************************************************************)
(* How the commands on their way change.                                   *)
(***************************************************************************)

PipesOk == pipe \in [Instances -> Seq(Command)]

LEMMA OnTheWayIs ==
    ASSUME NEW cmd
    PROVE  cmd \in OnTheWay <=> \E i \in Instances : \E k \in DOMAIN pipe[i] : cmd = pipe[i][k]
BY DEF OnTheWay

LEMMA CommandsFormed == PipesOk => \A cmd \in OnTheWay : cmd \in Command
BY DEF PipesOk, OnTheWay

LEMMA AppendDoes ==
    ASSUME PipesOk, NEW i \in Instances, NEW cmd \in Command, Sent(i, cmd)
    PROVE  /\ PipesOk' /\ OnTheWay' = OnTheWay \cup {cmd}
           /\ \A j \in Instances, k \in Nat : k \in DOMAIN pipe'[j] =>
                 \/ k \in DOMAIN pipe[j] /\ pipe'[j][k] = pipe[j][k]
                 \/ j = i /\ k = Len(pipe[i]) + 1 /\ pipe'[j][k] = cmd
<1>1. /\ PipesOk' /\ pipe'[i] = Append(pipe[i], cmd)
      /\ \A j \in Instances : j # i => pipe'[j] = pipe[j]
  BY DEF PipesOk, Sent
<1>2. pipe[i] \in Seq(Command) /\ Len(pipe[i]) \in Nat /\ DOMAIN pipe[i] = 1..Len(pipe[i])
  BY DEF PipesOk
<1>3. /\ DOMAIN pipe'[i] = 1..(Len(pipe[i]) + 1)
      /\ pipe'[i][Len(pipe[i]) + 1] = cmd
      /\ \A k \in 1..Len(pipe[i]) : pipe'[i][k] = pipe[i][k]
  BY <1>1, <1>2, AppendProperties
<1>4. ASSUME NEW j \in Instances, NEW k \in Nat, k \in DOMAIN pipe'[j]
      PROVE  \/ k \in DOMAIN pipe[j] /\ pipe'[j][k] = pipe[j][k]
             \/ j = i /\ k = Len(pipe[i]) + 1 /\ pipe'[j][k] = cmd
  BY <1>1, <1>2, <1>3, <1>4
<1>5. ASSUME NEW x PROVE x \in OnTheWay' <=> x \in OnTheWay \cup {cmd}
  <2>1. ASSUME x \in OnTheWay' PROVE x \in OnTheWay \cup {cmd}
    <3>1. PICK j \in Instances : \E k \in DOMAIN pipe'[j] : x = pipe'[j][k]
      BY <2>1 DEF OnTheWay
    <3>2. PICK k \in DOMAIN pipe'[j] : x = pipe'[j][k]
      BY <3>1
    <3>3. k \in Nat
      BY <1>1 DEF PipesOk
    <3> QED
      BY <1>4, <3>2, <3>3 DEF OnTheWay
  <2>2. ASSUME x \in OnTheWay PROVE x \in OnTheWay'
    <3>1. PICK j \in Instances : \E k \in DOMAIN pipe[j] : x = pipe[j][k]
      BY <2>2 DEF OnTheWay
    <3>2. PICK k \in DOMAIN pipe[j] : x = pipe[j][k]
      BY <3>1
    <3>3. k \in DOMAIN pipe'[j] /\ pipe'[j][k] = x
      BY <1>1, <1>2, <1>3, <3>2
    <3> QED
      BY <3>3 DEF OnTheWay
  <2>3. cmd \in OnTheWay'
    <3>1. Len(pipe[i]) + 1 \in DOMAIN pipe'[i]
      BY <1>2, <1>3
    <3> QED
      BY <1>3, <3>1 DEF OnTheWay
  <2> QED
    BY <2>1, <2>2, <2>3
<1> QED
  BY <1>1, <1>4, <1>5

(* One command leaves the pipe of i, at the position k. *)
Leaves(i, k) ==
    /\ k \in DOMAIN pipe[i]
    /\ PipesOk' /\ OnTheWay' \subseteq OnTheWay /\ OnTheWay \subseteq OnTheWay' \cup {pipe[i][k]}
    /\ \A j \in Instances, m \in Nat : m \in DOMAIN pipe'[j] =>
          IF j = i /\ m >= k THEN m + 1 \in DOMAIN pipe[i] /\ pipe'[i][m] = pipe[i][m + 1]
                            ELSE m \in DOMAIN pipe[j] /\ pipe'[j][m] = pipe[j][m]

LEMMA LeavesIf ==
    ASSUME PipesOk, NEW i \in Instances, NEW k \in DOMAIN pipe[i], NEW rest \in Seq(Command),
           pipe' = [pipe EXCEPT ![i] = rest], Len(rest) = Len(pipe[i]) - 1,
           \A m \in 1..Len(rest) : rest[m] = IF m >= k THEN pipe[i][m + 1] ELSE pipe[i][m]
    PROVE  Leaves(i, k)
<1>1. PipesOk' /\ pipe'[i] = rest /\ \A j \in Instances : j # i => pipe'[j] = pipe[j]
  BY DEF PipesOk
<1>2. /\ Len(pipe[i]) \in Nat /\ DOMAIN pipe[i] = 1..Len(pipe[i]) /\ k \in 1..Len(pipe[i])
      /\ DOMAIN rest = 1..Len(rest) /\ Len(rest) \in Nat
      /\ \A j \in Instances : \A m \in DOMAIN pipe[j] : m \in Nat
  BY DEF PipesOk
<1>3. ASSUME NEW j \in Instances, NEW m \in Nat, m \in DOMAIN pipe'[j]
      PROVE  IF j = i /\ m >= k THEN m + 1 \in DOMAIN pipe[i] /\ pipe'[i][m] = pipe[i][m + 1]
                               ELSE m \in DOMAIN pipe[j] /\ pipe'[j][m] = pipe[j][m]
  <2>1. CASE j # i
    BY <1>1, <1>3, <2>1
  <2>2. CASE j = i
    BY <1>1, <1>2, <1>3, <2>2
  <2> QED
    BY <2>1, <2>2
<1>4. OnTheWay' \subseteq OnTheWay
  <2> SUFFICES ASSUME NEW j \in Instances, NEW m \in DOMAIN pipe'[j]
               PROVE  \E n \in DOMAIN pipe[j] : pipe'[j][m] = pipe[j][n]
    BY DEF OnTheWay
  <2>1. m \in Nat
    BY <1>1 DEF PipesOk
  <2> QED
    BY <1>3, <2>1
<1>5. OnTheWay \subseteq OnTheWay' \cup {pipe[i][k]}
  <2> SUFFICES ASSUME NEW j \in Instances, NEW m \in DOMAIN pipe[j], pipe[j][m] # pipe[i][k]
               PROVE  \E n \in DOMAIN pipe'[j] : pipe'[j][n] = pipe[j][m]
    BY DEF OnTheWay
  <2>1. CASE j # i
    BY <1>1, <2>1
  <2>2. CASE j = i /\ m < k
    <3>1. m \in 1..Len(rest)
      BY <1>2, <2>2
    <3> QED
      BY <1>1, <1>2, <2>2, <3>1
  <2>3. CASE j = i /\ m > k
    <3>1. m - 1 \in 1..Len(rest) /\ m - 1 >= k /\ (m - 1) + 1 = m
      BY <1>2, <2>3
    <3> QED
      BY <1>1, <1>2, <2>3, <3>1
  <2> QED
    BY <1>2, <2>1, <2>2, <2>3
<1> QED
  BY <1>1, <1>3, <1>4, <1>5 DEF Leaves

LEMMA PopDoes ==
    ASSUME PipesOk, NEW i \in Instances, pipe[i] # <<>>, pipe' = [pipe EXCEPT ![i] = Tail(@)]
    PROVE  Leaves(i, 1) /\ Head(pipe[i]) = pipe[i][1] /\ Head(pipe[i]) \in OnTheWay
<1>1. pipe[i] \in Seq(Command)
  BY DEF PipesOk
<1>2. /\ Tail(pipe[i]) \in Seq(Command) /\ Len(Tail(pipe[i])) = Len(pipe[i]) - 1
      /\ \A m \in 1..Len(Tail(pipe[i])) : Tail(pipe[i])[m] = pipe[i][m + 1]
      /\ Head(pipe[i]) = pipe[i][1] /\ 1 \in DOMAIN pipe[i]
  BY <1>1, HeadTailProperties, EmptySeq
<1>3. Leaves(i, 1)
  <2> PICK rest : rest = Tail(pipe[i])
    OBVIOUS
  <2>1. \A m \in 1..Len(rest) : m >= 1
    BY <1>2
  <2> QED
    BY <1>2, <2>1, LeavesIf DEF PipesOk
<1> QED
  BY <1>2, <1>3 DEF OnTheWay

LEMMA WithoutIs ==
    ASSUME NEW S, NEW cmds \in Seq(S), NEW k \in 1..Len(cmds)
    PROVE  /\ Without(cmds, k) \in Seq(S) /\ Len(Without(cmds, k)) = Len(cmds) - 1
           /\ \A m \in 1..(Len(cmds) - 1) :
                 Without(cmds, k)[m] = IF m >= k THEN cmds[m + 1] ELSE cmds[m]
<1>1. Len(cmds) \in Nat /\ k \in Int /\ k - 1 \in Int /\ k + 1 \in Int /\ Len(cmds) \in Int
  OBVIOUS
<1> DEFINE a == SubSeq(cmds, 1, k - 1)
           b == SubSeq(cmds, k + 1, Len(cmds))
<1>2. a \in Seq(S) /\ Len(a) = k - 1 /\ \A m \in 1..(k - 1) : a[m] = cmds[m]
  <2>1. \A m \in 1..(k - 1) : cmds[m] \in S
    BY <1>1
  <2>2. /\ a \in Seq(S) /\ Len(a) = IF 1 <= k - 1 THEN k - 1 - 1 + 1 ELSE 0
        /\ \A m \in 1..(k - 1 - 1 + 1) : a[m] = cmds[1 + m - 1]
    BY <1>1, <2>1, SubSeqProperties
  <2>3. \A m \in 1..(k - 1) : m \in 1..(k - 1 - 1 + 1) /\ 1 + m - 1 = m
    BY <1>1
  <2> HIDE DEF a
  <2> QED
    BY <1>1, <2>2, <2>3
<1>3. b \in Seq(S) /\ Len(b) = Len(cmds) - k /\ \A m \in 1..(Len(cmds) - k) : b[m] = cmds[m + k]
  <2>1. \A m \in (k + 1)..Len(cmds) : cmds[m] \in S
    BY <1>1
  <2>2. /\ b \in Seq(S) /\ Len(b) = IF k + 1 <= Len(cmds) THEN Len(cmds) - (k + 1) + 1 ELSE 0
        /\ \A m \in 1..(Len(cmds) - (k + 1) + 1) : b[m] = cmds[(k + 1) + m - 1]
    BY <1>1, <2>1, SubSeqProperties
  <2>3. \A m \in 1..(Len(cmds) - k) : m \in 1..(Len(cmds) - (k + 1) + 1) /\ (k + 1) + m - 1 = m + k
    BY <1>1
  <2> HIDE DEF b
  <2> QED
    BY <1>1, <2>2, <2>3
<1> HIDE DEF a, b
<1>4. /\ a \o b \in Seq(S) /\ Len(a \o b) = Len(a) + Len(b)
      /\ \A m \in 1..(Len(a) + Len(b)) : (a \o b)[m] = IF m <= Len(a) THEN a[m] ELSE b[m - Len(a)]
  BY <1>2, <1>3, ConcatProperties
<1>5. Without(cmds, k) = a \o b
  BY DEF Without, a, b
<1>6. Len(a) + Len(b) = Len(cmds) - 1
  BY <1>1, <1>2, <1>3
<1>7. ASSUME NEW m \in 1..(Len(cmds) - 1)
      PROVE  (a \o b)[m] = IF m >= k THEN cmds[m + 1] ELSE cmds[m]
  <2>1. (a \o b)[m] = IF m <= k - 1 THEN a[m] ELSE b[m - (k - 1)]
    BY <1>2, <1>4, <1>6
  <2>2. CASE m < k
    BY <1>1, <1>2, <2>1, <2>2
  <2>3. CASE m >= k
    <3>1. m - (k - 1) \in 1..(Len(cmds) - k) /\ (m - (k - 1)) + k = m + 1 /\ ~(m <= k - 1)
      BY <1>1, <2>3
    <3> QED
      BY <1>3, <2>1, <2>3, <3>1
  <2>4. m < k \/ m >= k
    BY <1>1
  <2> QED
    BY <2>2, <2>3, <2>4
<1> QED
  BY <1>4, <1>5, <1>6, <1>7

LEMMA WithoutDoes ==
    ASSUME PipesOk, NEW i \in Instances, NEW k \in DOMAIN pipe[i],
           pipe' = [pipe EXCEPT ![i] = Without(@, k)]
    PROVE  Leaves(i, k)
<1>1. pipe[i] \in Seq(Command) /\ k \in 1..Len(pipe[i])
  BY DEF PipesOk
<1>2. /\ Without(pipe[i], k) \in Seq(Command) /\ Len(Without(pipe[i], k)) = Len(pipe[i]) - 1
      /\ \A m \in 1..(Len(pipe[i]) - 1) :
            Without(pipe[i], k)[m] = IF m >= k THEN pipe[i][m + 1] ELSE pipe[i][m]
  BY <1>1, WithoutIs
<1> PICK rest : rest = Without(pipe[i], k)
  OBVIOUS
<1> QED
  BY <1>2, LeavesIf

LEMMA AppendOne ==
    ASSUME PipesOk, NEW i \in Instances, NEW cmd \in Command, Sent(i, cmd),
           NEW C, AtMostOne(C), cmd \in C => OnTheWay \cap C = {}
    PROVE  AtMostOne(C)'
<1>1. \A j \in Instances, k \in Nat : k \in DOMAIN pipe'[j] =>
         \/ k \in DOMAIN pipe[j] /\ pipe'[j][k] = pipe[j][k]
         \/ j = i /\ k = Len(pipe[i]) + 1 /\ pipe'[j][k] = cmd
  BY AppendDoes
<1>2. \A j \in Instances : \A k \in DOMAIN pipe'[j] : k \in Nat
  BY AppendDoes DEF PipesOk
<1>3. ASSUME NEW j \in Instances, NEW k \in DOMAIN pipe[j], cmd \in C PROVE pipe[j][k] \notin C
  BY <1>3 DEF OnTheWay
<1> SUFFICES ASSUME NEW a \in Instances, NEW b \in Instances,
                    NEW k \in DOMAIN pipe'[a], NEW m \in DOMAIN pipe'[b],
                    pipe'[a][k] \in C, pipe'[b][m] \in C
             PROVE  a = b /\ k = m
  BY DEF AtMostOne
<1>4. \/ k \in DOMAIN pipe[a] /\ pipe'[a][k] = pipe[a][k]
      \/ a = i /\ k = Len(pipe[i]) + 1 /\ pipe'[a][k] = cmd
  BY <1>1, <1>2
<1>5. \/ m \in DOMAIN pipe[b] /\ pipe'[b][m] = pipe[b][m]
      \/ b = i /\ m = Len(pipe[i]) + 1 /\ pipe'[b][m] = cmd
  BY <1>1, <1>2
<1> QED
  BY <1>3, <1>4, <1>5 DEF AtMostOne

LEMMA LeavesOne ==
    ASSUME PipesOk, NEW i \in Instances, NEW p \in DOMAIN pipe[i], Leaves(i, p),
           NEW C, AtMostOne(C)
    PROVE  AtMostOne(C)' /\ (pipe[i][p] \in C => OnTheWay' \cap C = {})
<1>1. ASSUME NEW j \in Instances, NEW m \in DOMAIN pipe'[j]
      PROVE  /\ m \in Nat
             /\ j = i /\ m >= p => m + 1 \in DOMAIN pipe[i] /\ pipe'[j][m] = pipe[i][m + 1]
             /\ ~(j = i /\ m >= p) => m \in DOMAIN pipe[j] /\ pipe'[j][m] = pipe[j][m]
  BY DEF Leaves, PipesOk
<1>2. p \in Nat
  BY DEF PipesOk
<1>3. ASSUME NEW a \in Instances, NEW b \in Instances,
             NEW k \in DOMAIN pipe'[a], NEW m \in DOMAIN pipe'[b],
             pipe'[a][k] \in C, pipe'[b][m] \in C
      PROVE  a = b /\ k = m
  <2>1. CASE (a = i /\ k >= p) /\ (b = i /\ m >= p)
    <3>1. k + 1 = m + 1
      BY <1>1, <1>3, <2>1 DEF AtMostOne
    <3> QED
      BY <1>1, <2>1, <3>1
  <2>2. CASE (a = i /\ k >= p) /\ ~(b = i /\ m >= p)
    <3>1. i = b /\ k + 1 = m
      BY <1>1, <1>3, <2>2 DEF AtMostOne
    <3> QED
      BY <1>1, <1>2, <2>2, <3>1
  <2>3. CASE ~(a = i /\ k >= p) /\ (b = i /\ m >= p)
    <3>1. i = a /\ m + 1 = k
      BY <1>1, <1>3, <2>3 DEF AtMostOne
    <3> QED
      BY <1>1, <1>2, <2>3, <3>1
  <2>4. CASE ~(a = i /\ k >= p) /\ ~(b = i /\ m >= p)
    BY <1>1, <1>3, <2>4 DEF AtMostOne
  <2> QED
    BY <2>1, <2>2, <2>3, <2>4
<1>4. ASSUME pipe[i][p] \in C, NEW j \in Instances, NEW m \in DOMAIN pipe'[j] PROVE pipe'[j][m] \notin C
  <2>1. CASE j = i /\ m >= p
    <3>1. m + 1 # p
      BY <1>1, <1>2, <2>1
    <3> QED
      BY <1>1, <1>4, <2>1, <3>1 DEF AtMostOne
  <2>2. CASE ~(j = i /\ m >= p)
    <3>1. ~(j = i /\ m = p)
      BY <1>2, <2>2
    <3> QED
      BY <1>1, <1>4, <2>2, <3>1 DEF AtMostOne
  <2> QED
    BY <2>1, <2>2
<1>5. AtMostOne(C)'
  BY <1>3 DEF AtMostOne
<1> QED
  BY <1>4, <1>5 DEF OnTheWay

(* A pipe that does not change. *)
LEMMA SamePipe ==
    ASSUME UNCHANGED pipe
    PROVE  /\ PipesOk => PipesOk'
           /\ OnTheWay' = OnTheWay /\ \A C : AtMostOne(C) => AtMostOne(C)'
BY DEF PipesOk, OnTheWay, AtMostOne

LEMMA CommandFields ==
    ASSUME NEW cmd \in Command
    PROVE  /\ cmd.op \in {"get", "set", "neg", "del"} /\ cmd.born \in Nat
           /\ cmd.op = "get" => cmd.r \in Requests
           /\ cmd.op = "del" => cmd.w \in Writers \cup {Nobody}
           /\ cmd.op = "set" => cmd.id \in Nat /\ cmd.e \in Nat \cup {Never} /\ cmd.ttl \in Nat \ {0}
BY DEF Command

--------------------------------------------------------------------------------
(***************************************************************************)
(* The types.  The death of a process is a step apart: that it takes no    *)
(* GET of another process with it needs Home.                              *)
(***************************************************************************)

Requested == [pc : {"idle"}] \cup [pc : {"get", "load"}, at : Instances, since : Nat]
Writer    == [pc : {"idle"}]
             \cup [pc : {"created", "written", "deleting"}, at : Instances, row : Row, born : Nat]

(* Every step that appends to a pipe. *)
LEMMA SendDoes ==
    ASSUME PipesOk, NEW i \in Instances, NEW cmd \in Command, Send(i, cmd)
    PROVE  PipesOk' /\ OnTheWay' \subseteq OnTheWay \cup {cmd}
<1>1. CASE Sent(i, cmd)
  BY <1>1, AppendDoes
<1>2. CASE UNCHANGED pipe
  BY <1>2, SamePipe
<1> QED
  BY <1>1, <1>2 DEF Send, Skipped

LEMMA TtlIs ==
    ASSUME now \in Nat, NEW e \in Nat \cup {Never}
    PROVE  /\ TtlFor(e) \in Nat \ {0} /\ TtlFor(e) <= UrlTtl
           /\ e # Never /\ e > now => now + TtlFor(e) <= e
BY TimesAssumption, ExpiriesAssumption DEF TtlFor

LEMMA SetFormed ==
    ASSUME now \in Nat, NEW rw \in Row, NEW t \in Nat
    PROVE  SetCommand(rw, t) \in Command
<1>1. rw.id \in Nat /\ rw.e \in Nat \cup {Never}
  BY DEF Row
<1> PICK ttl : ttl = TtlFor(rw.e)
  OBVIOUS
<1>2. ttl \in Nat \ {0}
  BY <1>1, TtlIs
<1> QED
  BY <1>1, <1>2 DEF SetCommand, Command

(* What is read of a load that has its result. *)
LEMMA LoadFields ==
    ASSUME TypeOK, NEW i \in Instances, Loaded(i)
    PROVE  flight[i].born \in Nat /\ flight[i].row \in Row \cup {NoRow}
BY DEF TypeOK, Loaded, Flight

LEMMA WriterFields ==
    ASSUME TypeOK, NEW w \in Writers, wr[w].pc # "idle"
    PROVE  /\ wr[w].pc \in {"created", "written", "deleting"}
           /\ wr[w].at \in Instances /\ wr[w].row \in Row /\ wr[w].born \in Nat
BY DEF TypeOK

LEMMA MissTypes ==
    ASSUME req \in [Requests -> Requested], flight \in [Instances -> Flight \cup {NoFlight}],
           NEW r \in Requests, NEW i \in Instances, NEW request,
           [request EXCEPT !.pc = "load"] \in Requested, Miss(r, i, request)
    PROVE  req' \in [Requests -> Requested] /\ flight' \in [Instances -> Flight \cup {NoFlight}]
<1>1. [phase |-> "query"] \in Flight
  BY DEF Flight
<1>2. flight' \in [Instances -> Flight \cup {NoFlight}]
  BY <1>1 DEF Miss
<1> QED
  BY <1>2 DEF Miss

LEMMA TypeArrive ==
    ASSUME TypeOK, NEW r \in Requests, NEW i \in Instances, Arrive(r, i)
    PROVE  TypeOK'
<1> PICK request : request = [pc |-> "get", at |-> i, since |-> now]
  OBVIOUS
<1>1. request \in Requested /\ [request EXCEPT !.pc = "load"] \in Requested
  BY DEF TypeOK, Requested
<1>2. req \in [Requests -> Requested] /\ flight \in [Instances -> Flight \cup {NoFlight}]
  BY DEF TypeOK, Requested
<1>4. req' \in [Requests -> Requested] /\ flight' \in [Instances -> Flight \cup {NoFlight}]
  <2>1. CASE Miss(r, i, request)
    BY <1>1, <1>2, <2>1, MissTypes
  <2>2. CASE req' = [req EXCEPT ![r] = request] /\ UNCHANGED flight
    BY <1>1, <1>2, <2>2
  <2> QED
    BY <2>1, <2>2 DEF Arrive
<1>3. PipesOk'
  <2> PICK cmd : cmd = [op |-> "get", r |-> r, born |-> now]
    OBVIOUS
  <2>1. cmd \in Command
    BY DEF TypeOK, Command
  <2>2. Send(i, cmd)
    BY DEF Arrive, Send
  <2> QED
    BY <2>1, <2>2, SendDoes DEF TypeOK, PipesOk
<1> QED
  BY <1>3, <1>4 DEF TypeOK, Arrive, PipesOk, Requested

LEMMA TypeRunGet ==
    ASSUME Typed, NEW i \in Instances, RunGet(i)
    PROVE  TypeOK'
<1>1. PipesOk' /\ Head(pipe[i]) = pipe[i][1] /\ Head(pipe[i]) \in OnTheWay /\ Head(pipe[i]) \in Command
  BY PopDoes, CommandsFormed DEF Typed, TypeOK, PipesOk, RunGet, Leaves
<1> PICK r : r = Head(pipe[i]).r
  OBVIOUS
<1>2. r \in Requests /\ req[r].pc = "get"
  BY <1>1, CommandFields DEF Typed, OneGet, Gets, RunGet
<1> PICK request : request = req[r]
  OBVIOUS
<1>3. [request EXCEPT !.pc = "load"] \in Requested
  <2>1. request \in [pc : {"get", "load"}, at : Instances, since : Nat]
    BY <1>2 DEF Typed, TypeOK
  <2> QED
    BY <2>1 DEF Requested
<1>4. req \in [Requests -> Requested] /\ flight \in [Instances -> Flight \cup {NoFlight}]
  BY DEF Typed, TypeOK, Requested
<1>5. req' \in [Requests -> Requested] /\ flight' \in [Instances -> Flight \cup {NoFlight}]
  <2>1. CASE entry = NoEntry
    <3>1. Miss(r, i, request)
      BY <2>1 DEF RunGet, Got
    <3> QED
      BY <1>2, <1>3, <1>4, <3>1, MissTypes
  <2>2. CASE entry # NoEntry
    <3>1. req' = [req EXCEPT ![r] = [pc |-> "idle"]] /\ UNCHANGED flight
      BY <2>2 DEF RunGet, Got
    <3>2. [pc |-> "idle"] \in Requested
      BY DEF Requested
    <3> QED
      BY <1>2, <1>4, <3>1, <3>2
  <2> QED
    BY <2>1, <2>2
<1> QED
  BY <1>1, <1>5 DEF Typed, TypeOK, RunGet, PipesOk, Requested

LEMMA TypeLoad ==
    ASSUME TypeOK, NEW i \in Instances, LoadRead(i) \/ LoadDone(i) \/ LoadFails(i)
    PROVE  TypeOK'
<1>1. CASE LoadRead(i)
  BY <1>1 DEF TypeOK, LoadRead, Flight
<1>2. ASSUME EndLoad(i)
      PROVE  req' \in [Requests -> Requested] /\ flight' \in [Instances -> Flight \cup {NoFlight}]
  BY <1>2 DEF TypeOK, EndLoad, Requested
<1>3. CASE LoadFails(i)
  BY <1>2, <1>3 DEF TypeOK, LoadFails, Requested
<1>4. CASE LoadDone(i)
  <2>1. flight[i].born \in Nat /\ flight[i].row \in Row \cup {NoRow}
    BY <1>4, LoadFields DEF LoadDone, Loaded
  <2> PICK rw, t : rw = flight[i].row /\ t = flight[i].born
    OBVIOUS
  <2>2. CASE Resolve(rw).kind = "not_found"
    <3>1. Send(i, [op |-> "neg", born |-> t])
      BY <1>4, <2>2 DEF LoadDone
    <3>2. [op |-> "neg", born |-> t] \in Command
      BY <2>1 DEF Command
    <3>3. PipesOk'
      BY <3>1, <3>2, SendDoes DEF TypeOK, PipesOk
    <3> QED
      BY <1>2, <1>4, <3>3 DEF TypeOK, LoadDone, Requested, PipesOk
  <2>3. CASE Resolve(rw).kind = "found"
    <3>1. Send(i, SetCommand(rw, t)) /\ rw \in Row
      BY <1>4, <2>1, <2>3 DEF LoadDone, Resolve, NotFound
    <3>2. SetCommand(rw, t) \in Command
      BY <2>1, <3>1, SetFormed DEF TypeOK
    <3>3. PipesOk'
      BY <3>1, <3>2, SendDoes DEF TypeOK, PipesOk
    <3> QED
      BY <1>2, <1>4, <3>3 DEF TypeOK, LoadDone, Requested, PipesOk
  <2>4. CASE Resolve(rw).kind = "expired"
    <3>1. UNCHANGED pipe
      BY <1>4, <2>4 DEF LoadDone
    <3> QED
      BY <1>2, <1>4, <3>1 DEF TypeOK, LoadDone, Requested
  <2>5. Resolve(rw).kind \in {"not_found", "found", "expired"}
    BY DEF Resolve, NotFound, Evaluate
  <2> QED
    BY <2>2, <2>3, <2>4, <2>5
<1> QED
  BY <1>1, <1>3, <1>4

LEMMA PurgeAtIs ==
    ASSUME NEW e \in Nat \cup {Never}
    PROVE  PurgeAt(e) \in Nat \cup {Never} /\ (PurgeAt(e) = Never <=> e = Never)
BY TimesAssumption, ExpiriesAssumption DEF PurgeAt

(* The statements: what they write is a row, and who waits for them a writer. *)
LEMMA TypeWrites ==
    ASSUME TypeOK, NEW w \in Writers, NEW i \in Instances, NEW pc \in {"created", "written"},
           NEW rw \in Row, Writes(w, i, pc, rw)
    PROVE  TypeOK'
<1> PICK writer, t : t = now /\ writer = [pc |-> pc, at |-> i, row |-> rw, born |-> t]
  OBVIOUS
<1>1. writer \in Writer /\ t \in Nat
  BY DEF TypeOK, Writer
<1>2. wr' \in [Writers -> Writer]
  BY <1>1 DEF TypeOK, Writes, Writer
<1>3. hist' \in Seq([row : Row \cup {NoRow}, at : Nat]) /\ row' \in Row
  <2>1. [row |-> rw, at |-> t] \in [row : Row \cup {NoRow}, at : Nat]
    BY <1>1
  <2>2. hist' = Append(hist, [row |-> rw, at |-> t]) /\ row' = rw
    BY DEF Writes, Commit
  <2> QED
    BY <2>1, <2>2, AppendProperties DEF TypeOK
<1> QED
  BY <1>2, <1>3 DEF TypeOK, Writes, Writer

LEMMA TypeChange ==
    ASSUME TypeOK, NEW w \in Writers, NEW i \in Instances,
           \/ \E user \in Users, e \in Expiries : Create(w, i, user, e)
           \/ \E s \in {"active", "disabled"} : UpdateStatus(w, i, s)
           \/ \E e \in Expiries : UpdateExpiry(w, i, e)
           \/ Delete(w, i)
    PROVE  TypeOK'
<1>1. ASSUME NEW user \in Users, NEW e \in Expiries, Create(w, i, user, e) PROVE TypeOK'
  <2> PICK ex, t, n : ex = ResolveExpiry(e, user) /\ t = now /\ n = Len(hist)
    OBVIOUS
  <2>1. ex \in Nat \cup {Never} /\ t \in Nat /\ n \in Nat /\ user \in BOOLEAN
    BY TimesAssumption, ExpiriesAssumption, SetsAssumption DEF TypeOK, ResolveExpiry, Capped
  <2> PICK rw : rw = [id |-> n, status |-> "active", user |-> user, e |-> ex,
                      purge |-> PurgeAt(ex), born |-> t]
    OBVIOUS
  <2>2. rw \in Row
    BY <2>1, PurgeAtIs DEF Row
  <2>3. Writes(w, i, "created", rw)
    BY <1>1 DEF Create
  <2> QED
    BY <2>2, <2>3, TypeWrites
<1>2. ASSUME NEW s \in {"active", "disabled"}, UpdateStatus(w, i, s) PROVE TypeOK'
  <2> PICK rw : rw = [row EXCEPT !.status = s]
    OBVIOUS
  <2>1. row \in Row
    BY <1>2 DEF TypeOK, UpdateStatus, Owned
  <2>2. rw \in Row
    BY <2>1 DEF Row
  <2>3. Writes(w, i, "written", rw)
    BY <1>2 DEF UpdateStatus
  <2> QED
    BY <2>2, <2>3, TypeWrites
<1>3. ASSUME NEW e \in Expiries, UpdateExpiry(w, i, e) PROVE TypeOK'
  <2> PICK p : p = PurgeAt(e)
    OBVIOUS
  <2>1. row \in Row /\ e \in Nat \cup {Never}
    BY <1>3, ExpiriesAssumption DEF TypeOK, UpdateExpiry, Owned
  <2>2. p \in Nat \cup {Never}
    BY <2>1, PurgeAtIs
  <2> PICK rw : rw = [row EXCEPT !.e = e, !.purge = p]
    OBVIOUS
  <2>3. rw \in Row
    BY <2>1, <2>2 DEF Row
  <2>4. Writes(w, i, "written", rw)
    BY <1>3 DEF UpdateExpiry
  <2> QED
    BY <2>3, <2>4, TypeWrites
<1>4. CASE Delete(w, i)
  <2> PICK p, t : p = PurgeAt(now) /\ t = now
    OBVIOUS
  <2>1. row \in Row /\ t \in Nat
    BY <1>4 DEF TypeOK, Delete, Owned
  <2>2. p \in Nat \cup {Never}
    BY <2>1, PurgeAtIs
  <2> PICK rw : rw = [row EXCEPT !.status = "deleted", !.e = t, !.purge = p]
    OBVIOUS
  <2>3. rw \in Row
    BY <2>1, <2>2 DEF Row
  <2>4. Writes(w, i, "written", rw)
    BY <1>4 DEF Delete
  <2> QED
    BY <2>3, <2>4, TypeWrites
<1> QED
  BY <1>1, <1>2, <1>3, <1>4

LEMMA TypeWriteThrough ==
    ASSUME TypeOK, NEW w \in Writers, WriteThrough(w)
    PROVE  TypeOK'
<1>1. wr[w].at \in Instances /\ wr[w].row \in Row /\ wr[w].born \in Nat
  BY WriterFields DEF WriteThrough
<1> PICK i, rw, t : i = wr[w].at /\ rw = wr[w].row /\ t = wr[w].born
  OBVIOUS
<1>2. SetCommand(rw, t) \in Command /\ Send(i, SetCommand(rw, t))
  BY <1>1, SetFormed DEF TypeOK, WriteThrough
<1>3. PipesOk'
  BY <1>1, <1>2, SendDoes DEF TypeOK, PipesOk
<1> QED
  BY <1>3 DEF TypeOK, WriteThrough, PipesOk

(* A DEL whose writer w waits for it is sent, and its second one is planned. *)
LEMMA TypeInvalidate ==
    ASSUME TypeOK, NEW w \in Writers, Invalidate(w)
    PROVE  TypeOK'
<1>1. wr[w].at \in Instances /\ wr[w].row \in Row /\ wr[w].born \in Nat
  BY WriterFields DEF Invalidate
<1> PICK i, t, due : i = wr[w].at /\ t = now /\ due = now + Delay
  OBVIOUS
<1> PICK cmd : cmd = [op |-> "del", w |-> w, born |-> t]
  OBVIOUS
<1>2. cmd \in Command /\ due \in Nat
  BY TimesAssumption DEF TypeOK, Command
<1>3. timers' \in [Instances -> SUBSET Nat]
  BY <1>1, <1>2 DEF TypeOK, Invalidate
<1>4. Send(i, cmd)
  BY DEF Invalidate, Send
<1>5. PipesOk'
  BY <1>1, <1>2, <1>4, SendDoes DEF TypeOK, PipesOk
<1>6. wr \in [Writers -> Writer]
  BY DEF TypeOK, Writer
<1>7. wr' \in [Writers -> Writer]
  <2> PICK x : x = wr[w]
    OBVIOUS
  <2>1. [x EXCEPT !.pc = "deleting"] = [pc |-> "deleting", at |-> x.at, row |-> x.row, born |-> x.born]
    <3>1. x \in [pc : {"created", "written", "deleting"}, at : Instances, row : Row, born : Nat]
      BY DEF TypeOK, Invalidate
    <3> QED
      BY <3>1
  <2>2. [x EXCEPT !.pc = "deleting"] \in Writer
    BY <1>1, <2>1 DEF Writer
  <2>3. [pc |-> "idle"] \in Writer
    BY DEF Writer
  <2>4. wr' = [wr EXCEPT ![w] = [x EXCEPT !.pc = "deleting"]] \/ wr' = [wr EXCEPT ![w] = [pc |-> "idle"]]
    BY DEF Invalidate
  <2> QED
    BY <1>6, <2>2, <2>3, <2>4
<1> QED
  BY <1>3, <1>5, <1>7 DEF TypeOK, Invalidate, PipesOk, Writer

LEMMA TypeSecondDel ==
    ASSUME TypeOK, NEW i \in Instances, NEW t \in timers[i], SecondDel(i, t)
    PROVE  TypeOK'
<1> PICK cmd : cmd = [op |-> "del", w |-> Nobody, born |-> now]
  OBVIOUS
<1>1. cmd \in Command /\ Send(i, cmd)
  BY DEF TypeOK, Command, SecondDel
<1>2. PipesOk'
  BY <1>1, SendDoes DEF TypeOK, PipesOk
<1>3. timers' \in [Instances -> SUBSET Nat]
  BY DEF TypeOK, SecondDel
<1> QED
  BY <1>2, <1>3 DEF TypeOK, SecondDel, PipesOk

LEMMA TypeRunWrite ==
    ASSUME TypeOK, NEW i \in Instances, RunWrite(i)
    PROVE  TypeOK'
<1> PICK cmd : cmd = Head(pipe[i])
  OBVIOUS
<1>1. PipesOk' /\ cmd \in Command
  BY PopDoes, CommandsFormed DEF TypeOK, PipesOk, RunWrite, Leaves
<1>2. cmd.op \in {"set", "neg", "del"}
  BY <1>1, CommandFields DEF RunWrite
<1>3. Written(cmd) \in Entry \cup {NoEntry}
  <2>1. CASE cmd.op = "set"
    <3> PICK d : d = now + cmd.ttl
      OBVIOUS
    <3>1. d \in Nat /\ cmd.id \in Nat /\ cmd.e \in Nat \cup {Never}
      BY <1>1, <2>1, CommandFields DEF TypeOK
    <3>2. Written(cmd) = [kind |-> "url", id |-> cmd.id, e |-> cmd.e, dies |-> d]
      BY <2>1 DEF Written
    <3> QED
      BY <3>1, <3>2 DEF Entry
  <2>2. CASE cmd.op = "neg"
    <3> PICK d : d = now + NegTtl
      OBVIOUS
    <3>1. d \in Nat
      BY TimesAssumption DEF TypeOK
    <3>2. Written(cmd) = [kind |-> "none", dies |-> d]
      BY <2>2 DEF Written
    <3> QED
      BY <3>1, <3>2 DEF Entry
  <2>3. CASE cmd.op = "del"
    BY <2>3 DEF Written
  <2> QED
    BY <1>2, <2>1, <2>2, <2>3
<1>4. wr' \in [Writers -> Writer]
  <2> PICK w : w = cmd.w
    OBVIOUS
  <2>1. wr \in [Writers -> Writer] /\ [pc |-> "idle"] \in Writer
    BY DEF TypeOK, Writer
  <2>2. wr' = [wr EXCEPT ![w] = [pc |-> "idle"]] \/ wr' = wr
    BY DEF RunWrite
  <2> QED
    BY <2>1, <2>2
<1> QED
  BY <1>1, <1>3, <1>4 DEF TypeOK, RunWrite, PipesOk, Writer

LEMMA TypePurge ==
    ASSUME TypeOK, PurgeSelect \/ PurgeDelete
    PROVE  TypeOK'
<1>1. CASE PurgeSelect
  BY <1>1 DEF TypeOK, PurgeSelect, Row
<1>2. CASE PurgeDelete
  <2> PICK t : t = now
    OBVIOUS
  <2>1. [row |-> NoRow, at |-> t] \in [row : Row \cup {NoRow}, at : Nat]
    BY DEF TypeOK
  <2>2. \/ hist' = Append(hist, [row |-> NoRow, at |-> t]) /\ row' = NoRow
        \/ UNCHANGED <<row, hist>>
    BY <1>2 DEF PurgeDelete, Commit
  <2>3. hist' \in Seq([row : Row \cup {NoRow}, at : Nat]) /\ row' \in Row \cup {NoRow}
    <3>1. CASE hist' = Append(hist, [row |-> NoRow, at |-> t]) /\ row' = NoRow
      BY <2>1, <3>1, AppendProperties DEF TypeOK
    <3>2. CASE UNCHANGED <<row, hist>>
      BY <3>2 DEF TypeOK
    <3> QED
      BY <2>2, <3>1, <3>2
  <2> QED
    BY <1>2, <2>3 DEF TypeOK, PurgeDelete
<1> QED
  BY <1>1, <1>2

LEMMA TypeTime ==
    ASSUME TypeOK, Tick \/ Evict
    PROVE  TypeOK'
BY DEF TypeOK, Tick, Evict

LEMMA TypeGetTimesOut ==
    ASSUME TypeOK, NEW r \in Requests, GetTimesOut(r)
    PROVE  TypeOK'
<1> PICK request, i : request = req[r] /\ i = request.at
  OBVIOUS
<1>1. request \in [pc : {"get", "load"}, at : Instances, since : Nat]
  BY DEF TypeOK, GetTimesOut
<1>2. [request EXCEPT !.pc = "load"] \in Requested /\ i \in Instances
  BY <1>1 DEF Requested
<1>3. Miss(r, i, request)
  BY DEF GetTimesOut
<1>4. req' \in [Requests -> Requested] /\ flight' \in [Instances -> Flight \cup {NoFlight}]
  BY <1>2, <1>3, MissTypes DEF TypeOK, Requested
<1>5. PipesOk'
  <2>1. PICK k \in DOMAIN pipe[i] : pipe' = [pipe EXCEPT ![i] = Without(@, k)]
    BY DEF GetTimesOut
  <2> QED
    BY <1>2, <2>1, WithoutDoes DEF TypeOK, PipesOk, Leaves
<1> QED
  BY <1>4, <1>5 DEF TypeOK, GetTimesOut, PipesOk, Requested

(* A DEL nobody waits for any more. *)
LEMMA Relabels ==
    ASSUME PipesOk, NEW w \in Writers, DelTimesOut(w)
    PROVE  /\ PipesOk'
           /\ \A i \in Instances :
                 /\ DOMAIN pipe'[i] = DOMAIN pipe[i]
                 /\ \A k \in DOMAIN pipe[i] :
                       IF pipe[i][k] \in Dels(w)
                       THEN pipe'[i][k] \in Dels(Nobody) /\ pipe'[i][k].born = pipe[i][k].born
                       ELSE pipe'[i][k] = pipe[i][k]
<1>1. ASSUME NEW i \in Instances
      PROVE  /\ DOMAIN pipe'[i] = DOMAIN pipe[i]
             /\ \A k \in DOMAIN pipe[i] : pipe'[i][k] =
                   IF pipe[i][k].op = "del" /\ pipe[i][k].w = w
                   THEN [pipe[i][k] EXCEPT !.w = Nobody] ELSE pipe[i][k]
  BY DEF DelTimesOut
<1>2. ASSUME NEW cmd \in Command, cmd.op = "del"
      PROVE  [cmd EXCEPT !.w = Nobody] \in Dels(Nobody) /\ [cmd EXCEPT !.w = Nobody].born = cmd.born
  <2>1. cmd \in [op : {"del"}, w : Writers \cup {Nobody}, born : Nat]
    BY <1>2 DEF Command
  <2>2. [cmd EXCEPT !.w = Nobody] = [op |-> "del", w |-> Nobody, born |-> cmd.born]
    BY <2>1
  <2>3. [op |-> "del", w |-> Nobody, born |-> cmd.born] \in Command
    BY <2>1 DEF Command
  <2> QED
    BY <2>2, <2>3 DEF Dels
<1>3. ASSUME NEW i \in Instances, NEW k \in DOMAIN pipe[i]
      PROVE  IF pipe[i][k] \in Dels(w)
             THEN pipe'[i][k] \in Dels(Nobody) /\ pipe'[i][k].born = pipe[i][k].born
             ELSE pipe'[i][k] = pipe[i][k]
  <2> PICK cmd : cmd = pipe[i][k]
    OBVIOUS
  <2>1. cmd \in Command
    BY DEF PipesOk
  <2>2. pipe'[i][k] = IF cmd.op = "del" /\ cmd.w = w THEN [cmd EXCEPT !.w = Nobody] ELSE cmd
    BY <1>1
  <2>3. cmd \in Dels(w) <=> cmd.op = "del" /\ cmd.w = w
    BY <2>1 DEF Dels
  <2> QED
    BY <1>2, <2>1, <2>2, <2>3
<1>4. PipesOk'
  <2>1. pipe' = [i \in Instances |-> pipe'[i]]
    BY DEF DelTimesOut
  <2>2. ASSUME NEW i \in Instances PROVE pipe'[i] \in Seq(Command)
    <3> PICK cmds, new : cmds = pipe[i] /\ new = pipe'[i]
      OBVIOUS
    <3>1. cmds \in Seq(Command) /\ Len(cmds) \in Nat /\ DOMAIN cmds = 1..Len(cmds)
      BY DEF PipesOk
    <3>2. \A k \in DOMAIN cmds : new[k] \in Command
      <4> SUFFICES ASSUME NEW k \in DOMAIN cmds PROVE new[k] \in Command
        OBVIOUS
      <4>1. cmds[k] \in Command
        BY <3>1
      <4> QED
        BY <1>3, <4>1 DEF Dels
    <3>3. new = [k \in 1..Len(cmds) |-> new[k]]
      BY <3>1 DEF DelTimesOut
    <3>4. \A k \in 1..Len(cmds) : new[k] \in Command
      BY <3>1, <3>2
    <3> PICK n : n = Len(cmds)
      OBVIOUS
    <3>5. new \in [1..n -> Command] /\ n \in Nat
      BY <3>1, <3>3, <3>4
    <3> QED
      BY <3>5
  <2> QED
    BY <2>1, <2>2 DEF PipesOk
<1> QED
  BY <1>1, <1>3, <1>4

LEMMA TypeDelTimesOut ==
    ASSUME TypeOK, NEW w \in Writers, DelTimesOut(w)
    PROVE  TypeOK'
<1>1. PipesOk'
  BY Relabels DEF TypeOK, PipesOk
<1>2. wr \in [Writers -> Writer] /\ [pc |-> "idle"] \in Writer
  BY DEF TypeOK, Writer
<1>3. wr' \in [Writers -> Writer]
  BY <1>2 DEF DelTimesOut
<1> QED
  BY <1>1, <1>3 DEF TypeOK, DelTimesOut, PipesOk, Writer

LEMMA TypeLose ==
    ASSUME TypeOK, NEW i \in Instances, Lose(i)
    PROVE  TypeOK'
<1>1. PipesOk'
  BY PopDoes DEF TypeOK, PipesOk, Lose, Leaves
<1> QED
  BY <1>1 DEF TypeOK, Lose, PipesOk

(* The GETs: one is answered or given up once. *)
LEMMA GetsSame ==
    ASSUME Typed, UNCHANGED pipe, \A r \in Requests : req[r].pc = "get" => req'[r].pc = "get"
    PROVE  OneGet'
<1>1. OnTheWay' = OnTheWay /\ \A C : AtMostOne(C) => AtMostOne(C)'
  BY SamePipe
<1> SUFFICES ASSUME NEW r \in Requests
             PROVE  AtMostOne(Gets(r))' /\ \A cmd \in OnTheWay' \cap Gets(r) : req'[r].pc = "get"
  BY DEF OneGet, Gets
<1> QED
  BY <1>1 DEF Typed, OneGet

LEMMA GetsSend ==
    ASSUME Typed, NEW i \in Instances, NEW cmd \in Command, cmd.op # "get", Send(i, cmd),
           \A r \in Requests : req[r].pc = "get" => req'[r].pc = "get"
    PROVE  OneGet'
<1>1. CASE UNCHANGED pipe
  BY <1>1, GetsSame
<1>2. CASE Sent(i, cmd)
  <2> SUFFICES ASSUME NEW r \in Requests
               PROVE  AtMostOne(Gets(r))' /\ \A c \in OnTheWay' \cap Gets(r) : req'[r].pc = "get"
    BY DEF OneGet, Gets
  <2>1. cmd \notin Gets(r) /\ PipesOk
    BY DEF Gets, Typed, TypeOK, PipesOk
  <2>2. AtMostOne(Gets(r)) /\ \A c \in OnTheWay \cap Gets(r) : req[r].pc = "get"
    BY DEF Typed, OneGet
  <2>3. AtMostOne(Gets(r))'
    BY <1>2, <2>1, <2>2, AppendOne DEF Gets
  <2>4. OnTheWay' = OnTheWay \cup {cmd}
    BY <1>2, <2>1, AppendDoes
  <2> QED
    BY <2>1, <2>2, <2>3, <2>4
<1> QED
  BY <1>1, <1>2 DEF Send, Skipped

LEMMA GetsLeave ==
    ASSUME Typed, NEW i \in Instances, NEW k \in DOMAIN pipe[i], Leaves(i, k),
           \A r \in Requests : req[r].pc = "get" => req'[r].pc = "get" \/ pipe[i][k] \in Gets(r)
    PROVE  OneGet'
<1> SUFFICES ASSUME NEW r \in Requests
             PROVE  AtMostOne(Gets(r))' /\ \A c \in OnTheWay' \cap Gets(r) : req'[r].pc = "get"
  BY DEF OneGet, Gets
<1>1. AtMostOne(Gets(r)) /\ \A c \in OnTheWay \cap Gets(r) : req[r].pc = "get"
  BY DEF Typed, OneGet
<1>2. AtMostOne(Gets(r))' /\ (pipe[i][k] \in Gets(r) => OnTheWay' \cap Gets(r) = {})
  BY <1>1, LeavesOne DEF Typed, TypeOK, PipesOk, Gets
<1> QED
  BY <1>1, <1>2 DEF Leaves

LEMMA GetsRelabel ==
    ASSUME Typed, NEW w \in Writers, DelTimesOut(w)
    PROVE  OneGet'
<1>1. \A i \in Instances :
         /\ DOMAIN pipe'[i] = DOMAIN pipe[i]
         /\ \A k \in DOMAIN pipe[i] :
               IF pipe[i][k] \in Dels(w)
               THEN pipe'[i][k] \in Dels(Nobody) /\ pipe'[i][k].born = pipe[i][k].born
               ELSE pipe'[i][k] = pipe[i][k]
  BY Relabels DEF Typed, TypeOK, PipesOk
<1> SUFFICES ASSUME NEW r \in Requests
             PROVE  AtMostOne(Gets(r))' /\ \A c \in OnTheWay' \cap Gets(r) : req'[r].pc = "get"
  BY DEF OneGet, Gets
<1>2. \A i \in Instances : \A k \in DOMAIN pipe[i] :
         pipe'[i][k] \in Gets(r) => pipe[i][k] \in Gets(r) /\ pipe'[i][k] = pipe[i][k]
  BY <1>1 DEF Gets, Dels
<1>3. AtMostOne(Gets(r)) /\ \A c \in OnTheWay \cap Gets(r) : req[r].pc = "get"
  BY DEF Typed, OneGet
<1>4. AtMostOne(Gets(r))'
  <2> SUFFICES ASSUME NEW i \in Instances, NEW j \in Instances,
                      NEW k \in DOMAIN pipe'[i], NEW m \in DOMAIN pipe'[j],
                      pipe'[i][k] \in Gets(r), pipe'[j][m] \in Gets(r)
               PROVE  i = j /\ k = m
    BY DEF AtMostOne, Gets
  <2> QED
    BY <1>1, <1>2, <1>3 DEF AtMostOne
<1>5. OnTheWay' \cap Gets(r) \subseteq OnTheWay \cap Gets(r)
  BY <1>1, <1>2 DEF OnTheWay
<1> QED
  BY <1>3, <1>4, <1>5 DEF DelTimesOut

LEMMA ArriveGets ==
    ASSUME Typed, NEW r \in Requests, NEW i \in Instances, Arrive(r, i)
    PROVE  OneGet'
<1>0. PipesOk /\ \A q \in Requests : q # r => req'[q] = req[q]
  BY DEF Typed, TypeOK, PipesOk, Arrive, Miss
<1>1. CASE UNCHANGED pipe
  BY <1>0, <1>1, GetsSame DEF Arrive
<1>2. CASE Sent(i, [op |-> "get", r |-> r, born |-> now]) /\ req' = [req EXCEPT ![r] = [pc |-> "get", at |-> i, since |-> now]]
  <2> PICK cmd : cmd = [op |-> "get", r |-> r, born |-> now]
    OBVIOUS
  <2>1. cmd \in Command /\ Sent(i, cmd)
    BY <1>2 DEF Typed, TypeOK, Command
  <2>2. \A q \in Requests : q # r => cmd \notin Gets(q)
    BY DEF Gets
  <2>3. OnTheWay \cap Gets(r) = {}
    BY DEF Typed, OneGet, Arrive
  <2>4. OnTheWay' = OnTheWay \cup {cmd}
    BY <1>0, <2>1, AppendDoes
  <2>5. req'[r].pc = "get"
    BY <1>2 DEF Typed, TypeOK
  <2> SUFFICES ASSUME NEW q \in Requests
               PROVE  AtMostOne(Gets(q))' /\ \A c \in OnTheWay' \cap Gets(q) : req'[q].pc = "get"
    BY DEF OneGet, Gets
  <2>6. AtMostOne(Gets(q)) /\ \A c \in OnTheWay \cap Gets(q) : req[q].pc = "get"
    BY DEF Typed, OneGet
  <2>7. AtMostOne(Gets(q))'
    BY <1>0, <2>1, <2>2, <2>3, <2>6, AppendOne DEF Gets
  <2> QED
    BY <1>0, <2>2, <2>4, <2>5, <2>6, <2>7
<1> QED
  BY <1>1, <1>2 DEF Arrive, Skipped

LEMMA TypeStep ==
    ASSUME Typed, [Next]_vars, \A i \in Instances : ~Crash(i)
    PROVE  Typed'
<1>0. PipesOk /\ TypeOK /\ now \in Nat
  BY DEF Typed, TypeOK, PipesOk
<1>1. ASSUME NEW r \in Requests, NEW i \in Instances, Arrive(r, i) PROVE Typed'
  BY <1>0, <1>1, TypeArrive, ArriveGets DEF Typed
<1>2. ASSUME NEW i \in Instances, RunGet(i) PROVE Typed'
  <2>1. Leaves(i, 1) /\ 1 \in DOMAIN pipe[i] /\ Head(pipe[i]) = pipe[i][1] /\ Head(pipe[i]) \in Command
    BY <1>0, <1>2, PopDoes, CommandsFormed DEF RunGet, Leaves
  <2>2. \A q \in Requests : req[q].pc = "get" => req'[q].pc = "get" \/ pipe[i][1] \in Gets(q)
    <3> PICK r : r = Head(pipe[i]).r
      OBVIOUS
    <3>1. \A q \in Requests : q # r => req'[q] = req[q]
      BY <1>0, <1>2 DEF RunGet, Got, Miss, TypeOK
    <3>2. pipe[i][1] \in Gets(r)
      BY <1>2, <2>1 DEF Gets, RunGet
    <3> QED
      BY <3>1, <3>2
  <2> QED
    BY <1>2, <2>1, <2>2, TypeRunGet, GetsLeave DEF Typed
<1>3. ASSUME NEW i \in Instances, LoadRead(i) \/ LoadDone(i) \/ LoadFails(i) PROVE Typed'
  <2>1. TypeOK'
    BY <1>0, <1>3, TypeLoad
  <2>2. \A r \in Requests : req[r].pc = "get" => req'[r].pc = "get"
    BY <1>0, <1>3 DEF LoadRead, LoadDone, LoadFails, EndLoad, Joined
  <2>3. CASE UNCHANGED pipe
    BY <2>1, <2>2, <2>3, GetsSame DEF Typed
  <2>4. CASE LoadDone(i) /\ ~UNCHANGED pipe
    <3>1. flight[i].born \in Nat /\ flight[i].row \in Row \cup {NoRow}
      BY <1>0, <2>4, LoadFields DEF LoadDone, Loaded
    <3> PICK rw, t : rw = flight[i].row /\ t = flight[i].born
      OBVIOUS
    <3>2. CASE Resolve(rw).kind = "not_found"
      <4>1. Send(i, [op |-> "neg", born |-> t]) /\ [op |-> "neg", born |-> t] \in Command
        BY <2>4, <3>1, <3>2 DEF LoadDone, Command
      <4> QED
        BY <2>1, <2>2, <4>1, GetsSend DEF Typed
    <3>3. CASE Resolve(rw).kind = "found"
      <4>1. Send(i, SetCommand(rw, t)) /\ rw \in Row
        BY <2>4, <3>1, <3>3 DEF LoadDone, Resolve, NotFound
      <4>2. SetCommand(rw, t) \in Command /\ SetCommand(rw, t).op # "get"
        BY <1>0, <3>1, <4>1, SetFormed DEF SetCommand
      <4> QED
        BY <2>1, <2>2, <4>1, <4>2, GetsSend DEF Typed
    <3> QED
      BY <2>4, <3>2, <3>3 DEF LoadDone, Resolve, NotFound, Evaluate
  <2> QED
    BY <1>3, <2>3, <2>4 DEF LoadRead, LoadFails
<1>4. ASSUME NEW w \in Writers, NEW i \in Instances,
             \/ \E user \in Users, e \in Expiries : Create(w, i, user, e)
             \/ \E s \in {"active", "disabled"} : UpdateStatus(w, i, s)
             \/ \E e \in Expiries : UpdateExpiry(w, i, e)
             \/ Delete(w, i)
      PROVE  Typed'
  <2>1. UNCHANGED <<pipe, req>>
    BY <1>4 DEF Create, UpdateStatus, UpdateExpiry, Delete, Writes
  <2>2. TypeOK'
    BY <1>0, <1>4, TypeChange
  <2> QED
    BY <2>1, <2>2, GetsSame DEF Typed
<1>5. ASSUME NEW w \in Writers, WriteThrough(w) PROVE Typed'
  <2>1. wr[w].at \in Instances /\ wr[w].row \in Row /\ wr[w].born \in Nat
    BY <1>0, <1>5, WriterFields DEF WriteThrough
  <2> PICK i, rw, t : i = wr[w].at /\ rw = wr[w].row /\ t = wr[w].born
    OBVIOUS
  <2>2. SetCommand(rw, t) \in Command /\ SetCommand(rw, t).op # "get" /\ Send(i, SetCommand(rw, t))
    BY <1>0, <1>5, <2>1, SetFormed DEF SetCommand, WriteThrough
  <2> QED
    BY <1>0, <1>5, <2>1, <2>2, GetsSend, TypeWriteThrough DEF Typed, WriteThrough
<1>6. ASSUME NEW w \in Writers, Invalidate(w) PROVE Typed'
  <2>1. wr[w].at \in Instances
    BY <1>0, <1>6, WriterFields DEF Invalidate
  <2> PICK i, cmd : i = wr[w].at /\ cmd = [op |-> "del", w |-> w, born |-> now]
    OBVIOUS
  <2>2. cmd \in Command /\ cmd.op # "get" /\ Send(i, cmd)
    BY <1>0, <1>6 DEF Command, Invalidate, Send
  <2> QED
    BY <1>0, <1>6, <2>1, <2>2, GetsSend, TypeInvalidate DEF Typed, Invalidate
<1>7. ASSUME NEW w \in Writers, DelTimesOut(w) PROVE Typed'
  BY <1>0, <1>7, GetsRelabel, TypeDelTimesOut DEF Typed
<1>8. ASSUME NEW i \in Instances, RunWrite(i) \/ Lose(i) PROVE Typed'
  <2>1. Leaves(i, 1) /\ 1 \in DOMAIN pipe[i] /\ UNCHANGED req
    BY <1>0, <1>8, PopDoes DEF RunWrite, Lose, Leaves
  <2>2. OneGet'
    BY <2>1, GetsLeave
  <2> QED
    BY <1>0, <1>8, <2>2, TypeRunWrite, TypeLose DEF Typed
<1>9. ASSUME NEW i \in Instances, NEW t \in timers[i], SecondDel(i, t) PROVE Typed'
  <2> PICK cmd : cmd = [op |-> "del", w |-> Nobody, born |-> now]
    OBVIOUS
  <2>1. cmd \in Command /\ cmd.op # "get" /\ Send(i, cmd)
    BY <1>0, <1>9 DEF Command, SecondDel
  <2> QED
    BY <1>0, <1>9, <2>1, GetsSend, TypeSecondDel DEF Typed, SecondDel
<1>10. CASE PurgeSelect \/ PurgeDelete
  <2>1. UNCHANGED <<pipe, req>>
    BY <1>10 DEF PurgeSelect, PurgeDelete
  <2> QED
    BY <1>0, <1>10, <2>1, GetsSame, TypePurge DEF Typed
<1>11. CASE Tick \/ Evict
  <2>1. UNCHANGED <<pipe, req>>
    BY <1>11 DEF Tick, Evict
  <2> QED
    BY <1>0, <1>11, <2>1, GetsSame, TypeTime DEF Typed
<1>12. ASSUME NEW r \in Requests, GetTimesOut(r) PROVE Typed'
  <2>1. req[r].at \in Instances
    BY <1>0, <1>12 DEF TypeOK, GetTimesOut
  <2> PICK i : i = req[r].at
    OBVIOUS
  <2>2. PICK k \in DOMAIN pipe[i] : /\ pipe[i][k].op = "get" /\ pipe[i][k].r = r
                                    /\ pipe' = [pipe EXCEPT ![i] = Without(@, k)]
    BY <1>12 DEF GetTimesOut
  <2>3. Leaves(i, k)
    BY <1>0, <2>1, <2>2, WithoutDoes
  <2>4. pipe[i][k] \in Gets(r)
    BY <1>0, <2>1, <2>2 DEF Gets, PipesOk
  <2>5. \A q \in Requests : q # r => req'[q] = req[q]
    BY <1>0, <1>12 DEF TypeOK, GetTimesOut, Miss
  <2>6. OneGet'
    BY <2>1, <2>3, <2>4, <2>5, GetsLeave
  <2> QED
    BY <1>0, <1>12, <2>6, TypeGetTimesOut DEF Typed
<1>13. CASE UNCHANGED vars
  <2>1. TypeOK'
    BY <1>0, <1>13 DEF TypeOK, vars
  <2> QED
    BY <1>13, <2>1, GetsSame DEF Typed, vars
<1> QED
  BY <1>1, <1>2, <1>3, <1>4, <1>5, <1>6, <1>7, <1>8, <1>9, <1>10, <1>11, <1>12, <1>13
     DEF Next, Redirecting, Writing, Environment

LEMMA TypeInit == Init => Typed
<1> SUFFICES ASSUME Init PROVE Typed
  OBVIOUS
<1>1. OldRow \in Row
  BY ExpiriesAssumption DEF OldRow, Row
<1>2. row \in Row \cup {NoRow}
  BY <1>1 DEF Init
<1>3. TypeOK
  <2> PICK first : first = [row |-> row, at |-> 0]
    OBVIOUS
  <2>1. first \in [row : Row \cup {NoRow}, at : Nat]
    BY <1>2
  <2>2. <<first>> \in Seq([row : Row \cup {NoRow}, at : Nat])
    BY <2>1
  <2>3. pipe \in [Instances -> Seq(Command)]
    BY DEF Init
  <2> QED
    BY <1>2, <2>2, <2>3 DEF Init, TypeOK
<1>4. OnTheWay = {} /\ \A C : AtMostOne(C)
  BY DEF Init, OnTheWay, AtMostOne
<1> QED
  BY <1>3, <1>4 DEF Typed, OneGet

(* A GET is on the connection of the process that its request waits in. *)
LEMMA HomeKeeps ==
    ASSUME Typed, Home, Typed',
           \A i \in Instances : \A k \in DOMAIN pipe'[i] :
              pipe'[i][k].op = "get" => \E m \in DOMAIN pipe[i] : pipe[i][m] = pipe'[i][k],
           \A r \in Requests : req[r].pc = "get" /\ req'[r].pc = "get" => req'[r].at = req[r].at
    PROVE  Home'
<1> SUFFICES ASSUME NEW i \in Instances, NEW k \in DOMAIN pipe'[i], pipe'[i][k].op = "get"
             PROVE  req'[pipe'[i][k].r].at = i
  BY DEF Home
<1> PICK m \in DOMAIN pipe[i] : pipe[i][m] = pipe'[i][k]
  OBVIOUS
<1> PICK cmd : cmd = pipe[i][m]
  OBVIOUS
<1>1. cmd \in Command /\ cmd.r \in Requests /\ cmd \in OnTheWay /\ cmd \in OnTheWay'
  <2>1. cmd \in Command /\ cmd \in OnTheWay /\ cmd \in OnTheWay'
    BY DEF OnTheWay, Typed, TypeOK
  <2> QED
    BY <2>1, CommandFields
<1>2. cmd \in Gets(cmd.r) /\ cmd \in Gets(cmd.r)'
  BY <1>1 DEF Gets
<1>3. req[cmd.r].pc = "get" /\ req'[cmd.r].pc = "get"
  BY <1>1, <1>2 DEF Typed, OneGet
<1> QED
  BY <1>1, <1>3 DEF Home

LEMMA HomeStep ==
    ASSUME Typed, Home, [Next]_vars, \A i \in Instances : ~Crash(i)
    PROVE  Home'
<1>0. PipesOk /\ TypeOK /\ Typed'
  BY TypeStep DEF Typed, TypeOK, PipesOk
<1> DEFINE SameGets ==
              \A j \in Instances : \A k \in DOMAIN pipe'[j] :
                 pipe'[j][k].op = "get" => \E m \in DOMAIN pipe[j] : pipe[j][m] = pipe'[j][k]
           SameWaits ==
              \A r \in Requests : req[r].pc = "get" /\ req'[r].pc = "get" => req'[r].at = req[r].at
<1>1. UNCHANGED pipe => SameGets
  OBVIOUS
<1>2. ASSUME NEW i \in Instances, NEW cmd \in Command, cmd.op # "get", Send(i, cmd) PROVE SameGets
  <2>1. CASE Sent(i, cmd)
    <3>1. \A j \in Instances, k \in Nat : k \in DOMAIN pipe'[j] =>
             \/ k \in DOMAIN pipe[j] /\ pipe'[j][k] = pipe[j][k]
             \/ pipe'[j][k] = cmd
      BY <1>0, <2>1, AppendDoes
    <3>2. \A j \in Instances : \A k \in DOMAIN pipe'[j] : k \in Nat
      BY <1>0 DEF Typed, TypeOK
    <3> QED
      BY <1>2, <3>1, <3>2
  <2> QED
    BY <1>1, <1>2, <2>1 DEF Send, Skipped
<1>3. ASSUME NEW i \in Instances, NEW p, Leaves(i, p) PROVE SameGets
  <2>1. \A j \in Instances, m \in Nat : m \in DOMAIN pipe'[j] =>
           IF j = i /\ m >= p THEN m + 1 \in DOMAIN pipe[i] /\ pipe'[i][m] = pipe[i][m + 1]
                             ELSE m \in DOMAIN pipe[j] /\ pipe'[j][m] = pipe[j][m]
    BY <1>3 DEF Leaves
  <2>2. \A j \in Instances : \A k \in DOMAIN pipe'[j] : k \in Nat
    BY <1>0 DEF Typed, TypeOK
  <2> QED
    BY <2>1, <2>2
<1>4. \A r, i, q : Miss(r, i, q) =>
         \A x \in Requests : x # r => req'[x] = req[x]
  BY <1>0 DEF Miss, TypeOK
<1>5. ASSUME SameGets, SameWaits PROVE Home'
  <2> HIDE DEF SameGets, SameWaits
  <2> QED
    BY <1>0, <1>5, HomeKeeps DEF SameGets, SameWaits
<1>6. ASSUME NEW r \in Requests, NEW i \in Instances, Arrive(r, i) PROVE Home'
  <2>1. SameWaits
    BY <1>0, <1>4, <1>6 DEF Arrive, TypeOK
  <2>2. CASE UNCHANGED pipe
    BY <1>1, <1>5, <2>1, <2>2
  <2>3. CASE /\ Sent(i, [op |-> "get", r |-> r, born |-> now])
             /\ req' = [req EXCEPT ![r] = [pc |-> "get", at |-> i, since |-> now]]
    <3> PICK cmd : cmd = [op |-> "get", r |-> r, born |-> now]
      OBVIOUS
    <3>1. cmd \in Command /\ Sent(i, cmd) /\ cmd.r = r /\ req'[r].at = i
      BY <1>0, <2>3 DEF Command, TypeOK
    <3>2. \A j \in Instances, k \in Nat : k \in DOMAIN pipe'[j] =>
             \/ k \in DOMAIN pipe[j] /\ pipe'[j][k] = pipe[j][k]
             \/ j = i /\ pipe'[j][k] = cmd
      BY <1>0, <3>1, AppendDoes
    <3> SUFFICES ASSUME NEW j \in Instances, NEW k \in DOMAIN pipe'[j], pipe'[j][k].op = "get"
                 PROVE  req'[pipe'[j][k].r].at = j
      BY DEF Home
    <3>3. k \in Nat
      BY <1>0 DEF Typed, TypeOK
    <3>4. CASE k \in DOMAIN pipe[j] /\ pipe'[j][k] = pipe[j][k]
      <4> PICK c : c = pipe[j][k]
        OBVIOUS
      <4>1. c \in Command /\ c \in OnTheWay /\ c.op = "get"
        BY <1>0, <3>4 DEF OnTheWay, PipesOk
      <4>2. c.r \in Requests /\ c \in Gets(c.r)
        BY <4>1, CommandFields DEF Gets
      <4>3. req[c.r].pc = "get" /\ req[c.r].at = j
        BY <3>4, <4>1, <4>2 DEF Typed, OneGet, Home
      <4>4. c.r # r
        BY <1>6, <4>3 DEF Arrive
      <4> QED
        BY <1>0, <2>3, <3>4, <4>2, <4>3, <4>4 DEF TypeOK
    <3> QED
      BY <3>1, <3>2, <3>3, <3>4
  <2> QED
    BY <1>6, <2>2, <2>3 DEF Arrive, Skipped
<1>7. ASSUME NEW i \in Instances, RunGet(i) PROVE Home'
  <2>1. Leaves(i, 1) /\ Head(pipe[i]) \in Command
    BY <1>0, <1>7, PopDoes, CommandsFormed DEF RunGet
  <2>2. SameWaits
    <3> PICK r : r = Head(pipe[i]).r
      OBVIOUS
    <3>1. r \in Requests
      BY <1>7, <2>1, CommandFields DEF RunGet
    <3>2. \A x \in Requests : x # r => req'[x] = req[x]
      BY <1>0, <1>4, <1>7 DEF RunGet, Got, TypeOK
    <3>3. req'[r].pc # "get"
      <4>1. req' = [req EXCEPT ![r] = [pc |-> "idle"]] \/ req' = [req EXCEPT ![r] = [req[r] EXCEPT !.pc = "load"]]
        BY <1>7 DEF RunGet, Got, Miss
      <4>2. req[r] \in Requested
        BY <1>0, <3>1 DEF TypeOK, Requested
      <4>3. [req[r] EXCEPT !.pc = "load"].pc = "load"
        BY <4>2 DEF Requested
      <4>4. req'[r] = [pc |-> "idle"] \/ req'[r] = [req[r] EXCEPT !.pc = "load"]
        <5>1. DOMAIN req = Requests
          BY <1>0 DEF TypeOK
        <5> QED
          BY <3>1, <4>1, <5>1
      <4> PICK load, idle, new : load = [req[r] EXCEPT !.pc = "load"] /\ idle = [pc |-> "idle"] /\ new = req'[r]
        OBVIOUS
      <4>5. load.pc = "load" /\ idle.pc = "idle"
        BY <4>3
      <4>6. new = idle \/ new = load
        BY <4>4
      <4>7. new.pc = "idle" \/ new.pc = "load"
        BY <4>5, <4>6
      <4>8. new.pc # "get"
        BY <4>7
      <4> QED
        BY <4>8
    <3> QED
      BY <3>2, <3>3
  <2> QED
    BY <1>3, <1>5, <2>1, <2>2
<1>8. ASSUME NEW i \in Instances, LoadRead(i) \/ LoadDone(i) \/ LoadFails(i) PROVE Home'
  <2>1. SameWaits
    <3>1. UNCHANGED req \/ \A r \in Requests : req'[r] = IF r \in Joined(i) THEN [pc |-> "idle"] ELSE req[r]
      BY <1>8 DEF LoadRead, LoadDone, LoadFails, EndLoad
    <3> QED
      BY <3>1
  <2>2. CASE UNCHANGED pipe
    BY <1>1, <1>5, <2>1, <2>2
  <2>3. CASE LoadDone(i) /\ ~UNCHANGED pipe
    <3> PICK rw, t : rw = flight[i].row /\ t = flight[i].born
      OBVIOUS
    <3>1. t \in Nat /\ rw \in Row \cup {NoRow}
      BY <1>0, <2>3, LoadFields DEF LoadDone, Loaded
    <3>2. CASE Resolve(rw).kind = "not_found"
      <4>1. Send(i, [op |-> "neg", born |-> t]) /\ [op |-> "neg", born |-> t] \in Command
        BY <2>3, <3>1, <3>2 DEF LoadDone, Command
      <4> QED
        BY <1>2, <1>5, <2>1, <4>1
    <3>3. CASE Resolve(rw).kind = "found"
      <4>1. Send(i, SetCommand(rw, t)) /\ rw \in Row
        BY <2>3, <3>1, <3>3 DEF LoadDone, Resolve, NotFound
      <4>2. SetCommand(rw, t) \in Command /\ SetCommand(rw, t).op # "get"
        BY <1>0, <3>1, <4>1, SetFormed DEF SetCommand, TypeOK
      <4> QED
        BY <1>2, <1>5, <2>1, <4>1, <4>2
    <3> QED
      BY <2>3, <3>2, <3>3 DEF LoadDone, Resolve, NotFound, Evaluate
  <2> QED
    BY <1>8, <2>2, <2>3 DEF LoadRead, LoadFails
<1>9. CASE UNCHANGED <<pipe, req>>
  BY <1>1, <1>5, <1>9
<1>10. ASSUME NEW w \in Writers, WriteThrough(w) \/ Invalidate(w) PROVE Home'
  <2>1. wr[w].at \in Instances /\ wr[w].row \in Row /\ wr[w].born \in Nat /\ SameWaits
    BY <1>0, <1>10, WriterFields DEF WriteThrough, Invalidate
  <2> PICK i, rw, t : i = wr[w].at /\ rw = wr[w].row /\ t = wr[w].born
    OBVIOUS
  <2>2. \E cmd \in Command : cmd.op # "get" /\ Send(i, cmd)
    <3>1. CASE WriteThrough(w)
      <4>1. SetCommand(rw, t) \in Command /\ SetCommand(rw, t).op # "get" /\ Send(i, SetCommand(rw, t))
        BY <1>0, <2>1, <3>1, SetFormed DEF SetCommand, WriteThrough, TypeOK
      <4> QED
        BY <4>1
    <3>2. CASE Invalidate(w)
      <4> PICK cmd : cmd = [op |-> "del", w |-> w, born |-> now]
        OBVIOUS
      <4>1. cmd \in Command /\ cmd.op # "get" /\ Send(i, cmd)
        BY <1>0, <3>2 DEF Command, Invalidate, Send, TypeOK
      <4> QED
        BY <4>1
    <3> QED
      BY <1>10, <3>1, <3>2
  <2> QED
    BY <1>2, <1>5, <2>1, <2>2
<1>11. ASSUME NEW w \in Writers, DelTimesOut(w) PROVE Home'
  <2>1. SameGets
    <3>1. \A j \in Instances :
             /\ DOMAIN pipe'[j] = DOMAIN pipe[j]
             /\ \A k \in DOMAIN pipe[j] : pipe'[j][k] = pipe[j][k] \/ pipe'[j][k] \in Dels(Nobody)
      BY <1>0, <1>11, Relabels
    <3> QED
      BY <3>1 DEF Dels
  <2> QED
    BY <1>5, <1>11, <2>1 DEF DelTimesOut
<1>12. ASSUME NEW i \in Instances, RunWrite(i) \/ Lose(i) PROVE Home'
  <2>1. Leaves(i, 1) /\ UNCHANGED req
    BY <1>0, <1>12, PopDoes DEF RunWrite, Lose
  <2> QED
    BY <1>3, <1>5, <2>1
<1>13. ASSUME NEW i \in Instances, NEW t \in timers[i], SecondDel(i, t) PROVE Home'
  <2> PICK cmd : cmd = [op |-> "del", w |-> Nobody, born |-> now]
    OBVIOUS
  <2>1. cmd \in Command /\ cmd.op # "get" /\ Send(i, cmd) /\ UNCHANGED req
    BY <1>0, <1>13 DEF Command, SecondDel, TypeOK
  <2> QED
    BY <1>2, <1>5, <2>1
<1>14. ASSUME NEW r \in Requests, GetTimesOut(r) PROVE Home'
  <2>1. req[r].at \in Instances
    BY <1>0, <1>14 DEF TypeOK, GetTimesOut
  <2> PICK i : i = req[r].at
    OBVIOUS
  <2>2. PICK k \in DOMAIN pipe[i] : pipe' = [pipe EXCEPT ![i] = Without(@, k)]
    BY <1>14 DEF GetTimesOut
  <2>3. Leaves(i, k)
    BY <1>0, <2>1, <2>2, WithoutDoes
  <2>4. SameWaits
    <3>1. req'[r].pc # "get" /\ \A x \in Requests : x # r => req'[x] = req[x]
      BY <1>0, <1>14 DEF GetTimesOut, Miss, TypeOK
    <3> QED
      BY <3>1
  <2> QED
    <3> HIDE DEF SameGets, SameWaits
    <3> QED
      BY <1>3, <1>5, <2>1, <2>3, <2>4
<1>15. \/ \E w \in Writers, i \in Instances :
             \/ \E user \in Users, e \in Expiries : Create(w, i, user, e)
             \/ \E s \in {"active", "disabled"} : UpdateStatus(w, i, s)
             \/ \E e \in Expiries : UpdateExpiry(w, i, e)
             \/ Delete(w, i)
       \/ PurgeSelect \/ PurgeDelete \/ Tick \/ Evict \/ UNCHANGED vars
       => UNCHANGED <<pipe, req>>
  BY DEF Create, UpdateStatus, UpdateExpiry, Delete, Writes, PurgeSelect, PurgeDelete, Tick, Evict, vars
<1> QED
  BY <1>6, <1>7, <1>8, <1>9, <1>10, <1>11, <1>12, <1>13, <1>14, <1>15
     DEF Next, Redirecting, Writing, Environment

LEMMA CrashDoes ==
    ASSUME PipesOk, NEW i \in Instances, Crash(i)
    PROVE  /\ PipesOk' /\ OnTheWay' \subseteq OnTheWay
           /\ \A k \in DOMAIN pipe'[i] : Unawaited(pipe'[i][k])
           /\ \A j \in Instances : j # i => pipe'[j] = pipe[j]
<1> PICK cmds, rest : cmds = pipe[i] /\ rest = AllUnawaited(cmds)
  OBVIOUS
<1> PICK C : C = {cmds[k] : k \in {m \in DOMAIN cmds : Unawaited(cmds[m])}}
  OBVIOUS
<1>1. cmds \in Seq(Command) /\ rest \in Seq(C)
  BY UnawaitedStay DEF PipesOk
<1>2. C \subseteq Command /\ C \subseteq OnTheWay /\ \A cmd \in C : Unawaited(cmd)
  BY <1>1 DEF OnTheWay
<1>3. pipe'[i] = rest /\ \A j \in Instances : j # i => pipe'[j] = pipe[j]
  BY DEF Crash, PipesOk
<1>4. \A k \in DOMAIN rest : rest[k] \in C
  BY <1>1
<1>5. rest \in Seq(Command)
  BY <1>1, <1>2
<1>6. PipesOk'
  BY <1>3, <1>5 DEF PipesOk, Crash
<1>7. OnTheWay' \subseteq OnTheWay
  <2> SUFFICES ASSUME NEW j \in Instances, NEW k \in DOMAIN pipe'[j] PROVE pipe'[j][k] \in OnTheWay
    BY DEF OnTheWay
  <2>1. CASE j = i
    BY <1>2, <1>3, <1>4, <2>1
  <2>2. CASE j # i
    BY <1>3, <2>2 DEF OnTheWay
  <2> QED
    BY <2>1, <2>2
<1> QED
  BY <1>2, <1>3, <1>4, <1>6, <1>7

LEMMA CrashTypes ==
    ASSUME Typed, Home, NEW i \in Instances, Crash(i)
    PROVE  Typed' /\ Home'
<1>0. PipesOk /\ TypeOK
  BY DEF Typed, TypeOK, PipesOk
<1>1. /\ PipesOk' /\ OnTheWay' \subseteq OnTheWay
      /\ \A k \in DOMAIN pipe'[i] : Unawaited(pipe'[i][k])
      /\ \A j \in Instances : j # i => pipe'[j] = pipe[j]
  BY <1>0, CrashDoes
<1>2. /\ \A r \in Requests : req'[r] = IF req[r].pc # "idle" /\ req[r].at = i THEN [pc |-> "idle"] ELSE req[r]
      /\ \A w \in Writers : wr'[w] = IF wr[w].pc # "idle" /\ wr[w].at = i THEN [pc |-> "idle"] ELSE wr[w]
  BY DEF Crash
<1>3. TypeOK'
  <2>1. req' \in [Requests -> Requested]
    BY <1>0, <1>2 DEF TypeOK, Requested, Crash
  <2>2. wr' \in [Writers -> Writer]
    <3>1. wr \in [Writers -> Writer] /\ [pc |-> "idle"] \in Writer
      BY <1>0 DEF TypeOK, Writer
    <3>2. \A w \in Writers : wr'[w] \in Writer
      BY <1>2, <3>1
    <3>3. wr' = [w \in Writers |-> wr'[w]]
      BY DEF Crash
    <3> QED
      BY <3>2, <3>3
  <2>3. /\ flight' \in [Instances -> Flight \cup {NoFlight}] /\ timers' \in [Instances -> SUBSET Nat]
        /\ UNCHANGED <<now, row, entry, victim, hist>>
    BY <1>0 DEF TypeOK, Crash
  <2>4. wr' \in [Writers -> [pc : {"idle"}] \cup [pc : {"created", "written", "deleting"}, at : Instances,
                                                   row : Row, born : Nat]]
    BY <2>2 DEF Writer
  <2> QED
    BY <1>0, <1>1, <2>1, <2>3, <2>4 DEF TypeOK, Requested, PipesOk
<1>4. ASSUME NEW j \in Instances, NEW k \in DOMAIN pipe'[j], pipe'[j][k].op = "get"
      PROVE  /\ j # i /\ k \in DOMAIN pipe[j] /\ pipe[j][k] = pipe'[j][k]
             /\ req'[pipe'[j][k].r] = req[pipe[j][k].r]
  <2> PICK cmd : cmd = pipe'[j][k]
    OBVIOUS
  <2>1. j # i /\ k \in DOMAIN pipe[j] /\ pipe[j][k] = cmd
    BY <1>1, <1>4 DEF Unawaited
  <2>2. req[cmd.r].at = j
    BY <1>4, <2>1 DEF Home
  <2>3. cmd.r \in Requests
    <3>1. cmd \in Command
      BY <1>0, <2>1 DEF PipesOk
    <3> QED
      BY <1>4, <3>1, CommandFields
  <2> QED
    BY <1>2, <2>1, <2>2, <2>3
<1>5. OneGet'
  <2> SUFFICES ASSUME NEW r \in Requests
               PROVE  AtMostOne(Gets(r))' /\ \A c \in OnTheWay' \cap Gets(r) : req'[r].pc = "get"
    BY DEF OneGet, Gets
  <2>1. AtMostOne(Gets(r)) /\ \A c \in OnTheWay \cap Gets(r) : req[r].pc = "get"
    BY DEF Typed, OneGet
  <2>2. \A c \in Gets(r) : c.op = "get" /\ c.r = r
    BY DEF Gets
  <2>3. AtMostOne(Gets(r))'
    <3> SUFFICES ASSUME NEW j \in Instances, NEW h \in Instances,
                        NEW k \in DOMAIN pipe'[j], NEW m \in DOMAIN pipe'[h],
                        pipe'[j][k] \in Gets(r), pipe'[h][m] \in Gets(r)
                 PROVE  j = h /\ k = m
      BY DEF AtMostOne, Gets
    <3> QED
      BY <1>4, <2>1, <2>2 DEF AtMostOne
  <2>4. ASSUME NEW c \in OnTheWay' \cap Gets(r) PROVE req'[r].pc = "get"
    <3>1. PICK j \in Instances : \E k \in DOMAIN pipe'[j] : c = pipe'[j][k]
      BY <2>4 DEF OnTheWay
    <3>2. PICK k \in DOMAIN pipe'[j] : c = pipe'[j][k]
      BY <3>1
    <3>3. c.op = "get" /\ c.r = r /\ c \in OnTheWay
      BY <1>1, <2>2, <2>4
    <3>4. req'[r] = req[r]
      BY <1>4, <3>2, <3>3
    <3> QED
      BY <2>1, <2>4, <3>3, <3>4
  <2> QED
    BY <2>3, <2>4
<1>6. Home'
  BY <1>4 DEF Home
<1> QED
  BY <1>3, <1>5, <1>6 DEF Typed

LEMMA HomeInit == Init => Home
BY DEF Init, Home

(* The types are kept by every handler of the instances, whatever fails; the    *)
(* state of a request says whether its GET is on the way.                       *)
THEOREM TypeCorrect == Spec => []TypeOK
<1>1. Typed /\ Home /\ [Next]_vars => Typed' /\ Home'
  BY TypeStep, HomeStep, CrashTypes
<1>2. Init => Typed /\ Home
  BY TypeInit, HomeInit
<1>3. Spec => [](Typed /\ Home)
  BY <1>1, <1>2, PTL DEF Spec
<1> QED
  BY <1>3, PTL DEF Typed

--------------------------------------------------------------------------------
(***************************************************************************)
(* StaleIsDoomed.  First the DELs a writer waits for.                      *)
(***************************************************************************)

LEMMA DelsSame ==
    ASSUME Typed, OneDel, UNCHANGED pipe,
           \A w \in Writers : wr[w].pc = "deleting" => wr'[w].pc = "deleting"
    PROVE  OneDel'
<1>1. OnTheWay' = OnTheWay /\ \A C : AtMostOne(C) => AtMostOne(C)'
  BY SamePipe
<1> SUFFICES ASSUME NEW w \in Writers
             PROVE  AtMostOne(Dels(w))' /\ \A cmd \in OnTheWay' \cap Dels(w) : wr'[w].pc = "deleting"
  BY DEF OneDel, Dels
<1> QED
  BY <1>1 DEF OneDel

LEMMA DelsSend ==
    ASSUME Typed, OneDel, NEW i \in Instances, NEW cmd \in Command, Sent(i, cmd),
           \A w \in Writers : cmd \in Dels(w) => wr[w].pc # "deleting" /\ wr'[w].pc = "deleting",
           \A w \in Writers : wr[w].pc = "deleting" => wr'[w].pc = "deleting"
    PROVE  OneDel'
<1> SUFFICES ASSUME NEW w \in Writers
             PROVE  AtMostOne(Dels(w))' /\ \A c \in OnTheWay' \cap Dels(w) : wr'[w].pc = "deleting"
  BY DEF OneDel, Dels
<1>1. PipesOk
  BY DEF Typed, TypeOK, PipesOk
<1>2. AtMostOne(Dels(w)) /\ \A c \in OnTheWay \cap Dels(w) : wr[w].pc = "deleting"
  BY DEF OneDel
<1>3. AtMostOne(Dels(w))'
  BY <1>1, <1>2, AppendOne DEF Dels
<1>4. OnTheWay' = OnTheWay \cup {cmd}
  BY <1>1, AppendDoes
<1> QED
  BY <1>2, <1>3, <1>4

LEMMA DelsLeave ==
    ASSUME Typed, OneDel, NEW i \in Instances, NEW k \in DOMAIN pipe[i], Leaves(i, k),
           \A w \in Writers : wr[w].pc = "deleting" => wr'[w].pc = "deleting" \/ pipe[i][k] \in Dels(w)
    PROVE  OneDel'
<1> SUFFICES ASSUME NEW w \in Writers
             PROVE  AtMostOne(Dels(w))' /\ \A c \in OnTheWay' \cap Dels(w) : wr'[w].pc = "deleting"
  BY DEF OneDel, Dels
<1>1. AtMostOne(Dels(w)) /\ \A c \in OnTheWay \cap Dels(w) : wr[w].pc = "deleting"
  BY DEF OneDel
<1>2. AtMostOne(Dels(w))' /\ (pipe[i][k] \in Dels(w) => OnTheWay' \cap Dels(w) = {})
  BY <1>1, LeavesOne DEF Typed, TypeOK, PipesOk, Dels
<1> QED
  BY <1>1, <1>2 DEF Leaves

LEMMA DelsRelabel ==
    ASSUME Typed, OneDel, NEW v \in Writers, DelTimesOut(v)
    PROVE  OneDel'
<1>1. \A i \in Instances :
         /\ DOMAIN pipe'[i] = DOMAIN pipe[i]
         /\ \A k \in DOMAIN pipe[i] :
               IF pipe[i][k] \in Dels(v)
               THEN pipe'[i][k] \in Dels(Nobody) /\ pipe'[i][k].born = pipe[i][k].born
               ELSE pipe'[i][k] = pipe[i][k]
  BY Relabels DEF Typed, TypeOK, PipesOk
<1> SUFFICES ASSUME NEW w \in Writers
             PROVE  AtMostOne(Dels(w))' /\ \A c \in OnTheWay' \cap Dels(w) : wr'[w].pc = "deleting"
  BY DEF OneDel, Dels
<1>2. \A i \in Instances : \A k \in DOMAIN pipe[i] :
         pipe'[i][k] \in Dels(w) => w # v /\ pipe[i][k] \in Dels(w) /\ pipe'[i][k] = pipe[i][k]
  BY <1>1, AbsentAssumption DEF Dels
<1>3. AtMostOne(Dels(w)) /\ \A c \in OnTheWay \cap Dels(w) : wr[w].pc = "deleting"
  BY DEF OneDel
<1>4. AtMostOne(Dels(w))'
  <2> SUFFICES ASSUME NEW i \in Instances, NEW j \in Instances,
                      NEW k \in DOMAIN pipe'[i], NEW m \in DOMAIN pipe'[j],
                      pipe'[i][k] \in Dels(w), pipe'[j][m] \in Dels(w)
               PROVE  i = j /\ k = m
    BY DEF AtMostOne, Dels
  <2> QED
    BY <1>1, <1>2, <1>3 DEF AtMostOne
<1>5. \A c \in OnTheWay' \cap Dels(w) : w # v /\ c \in OnTheWay \cap Dels(w)
  BY <1>1, <1>2 DEF OnTheWay
<1>6. w # v => wr'[w] = wr[w]
  BY DEF DelTimesOut, Typed, TypeOK
<1> QED
  BY <1>3, <1>4, <1>5, <1>6

LEMMA RemovalIs ==
    RemovalPending <=> Untold \/ (\E i \in Instances : timers[i] # {}) \/ \E cmd \in OnTheWay : cmd.op = "del"
BY DEF RemovalPending, Untold, OnTheWay

LEMMA RemovalIsNext ==
    RemovalPending' <=>
       Untold' \/ (\E i \in Instances : timers'[i] # {}) \/ \E cmd \in OnTheWay' : cmd.op = "del"
BY DEF RemovalPending, Untold, OnTheWay

LEMMA CoveredRemoves == ASSUME NEW t, Covered(t) PROVE RemovalPending
BY DEF Covered, RemovalPending, Untold

(***************************************************************************)
(* Most steps leave the row, the clock and the purge alone, and take no    *)
(* DEL away from what is read already: they keep the invariant when the    *)
(* commands and the reads they add, and the entry they leave, are right.   *)
(***************************************************************************)

CoverStays ==
    \A t \in Nat : UnderWay(t) => /\ Covered(t) => Covered(t)'
                                  /\ Renewed(t) => Renewed(t)'
CommandsFollow ==
    \A cmd \in OnTheWay' : \/ cmd \in OnTheWay
                           \/ UnderWay(cmd.born) /\ SetInTime(cmd) /\ CommandOk(cmd)
LoadsFollow ==
    \A i \in Instances : Loaded(i)' => \/ Loaded(i) /\ flight'[i] = flight[i]
                                       \/ flight'[i].row = row /\ flight'[i].born = now
WritersFollow ==
    \A w \in Writers : wr'[w].pc # "idle" =>
       \/ wr'[w] = wr[w]
       \/ wr'[w].pc = "deleting" /\ wr[w].pc # "idle" /\ wr'[w].born = wr[w].born
TimersFollow == \A i \in Instances : \A due \in timers'[i] : now <= due

LEMMA BornIsNat ==
    ASSUME Typed
    PROVE  /\ \A cmd \in OnTheWay : cmd.born \in Nat
           /\ \A i \in Instances : Loaded(i) => flight[i].born \in Nat
           /\ \A w \in Writers : wr[w].pc # "idle" => wr[w].born \in Nat
           /\ victim # Nobody => victim.born \in Nat /\ victim.id \in Nat
           /\ now \in Nat /\ \A i \in Instances : timers[i] \subseteq Nat
<1>1. \A cmd \in OnTheWay : cmd.born \in Nat
  BY CommandsFormed, CommandFields DEF Typed, TypeOK, PipesOk
<1>2. \A i \in Instances : Loaded(i) => flight[i].born \in Nat
  BY LoadFields DEF Typed
<1>3. \A w \in Writers : wr[w].pc # "idle" => wr[w].born \in Nat
  BY WriterFields DEF Typed
<1>4. (victim # Nobody => victim.born \in Nat /\ victim.id \in Nat) /\ now \in Nat /\ \A i \in Instances : timers[i] \subseteq Nat
  BY DEF Typed, TypeOK
<1> QED
  BY <1>1, <1>2, <1>3, <1>4

LEMMA QuietStep ==
    ASSUME IInv, Typed', UNCHANGED <<now, row, victim, hist>>,
           CoverStays, CommandsFollow, LoadsFollow, WritersFollow, TimersFollow,
           OneDel', EntryInTime', EntryOk'
    PROVE  IInv'
<1>0. /\ \A cmd \in OnTheWay' : cmd.born \in Nat
      /\ \A i \in Instances : Loaded(i) => flight[i].born \in Nat
      /\ \A w \in Writers : wr[w].pc # "idle" => wr[w].born \in Nat
      /\ victim # Nobody => victim.born \in Nat /\ victim.id \in Nat
      /\ now \in Nat
  <2>1. \A cmd \in OnTheWay' : cmd \in Command
    BY DEF Typed, TypeOK, OnTheWay
  <2>2. \A cmd \in OnTheWay' : cmd.born \in Nat
    BY <2>1, CommandFields
  <2> QED
    BY <2>2, BornIsNat DEF IInv
<1>1. \A t : UnderWay(t)' <=> UnderWay(t)
  BY DEF UnderWay
<1>2. UnderWay(now)
  BY <1>0, TimesAssumption DEF UnderWay
<1>3. \A cmd \in OnTheWay' : UnderWay(cmd.born) /\ SetInTime(cmd) /\ CommandOk(cmd)
  BY DEF CommandsFollow, IInv, Timely, ReadInTime, AllCovered
<1>4. Timely'
  <2>1. \A i \in Instances : Loaded(i)' => UnderWay(flight'[i].born)
    BY <1>2 DEF LoadsFollow, IInv, Timely
  <2>2. \A w \in Writers : wr'[w].pc # "idle" => UnderWay(wr'[w].born)
    BY DEF WritersFollow, IInv, Timely
  <2>3. victim # Nobody => UnderWay(victim.born)
    BY DEF IInv, Timely
  <2>4. \A i \in Instances : \A due \in timers'[i] : now' <= due
    BY DEF TimersFollow
  <2> QED
    BY <1>1, <1>3, <2>1, <2>2, <2>3, <2>4 DEF Timely
<1>5. RowFormed'
  BY DEF IInv, RowFormed, PurgeAt
<1>6. Selected'
  <2> PICK t : t = victim.born
    OBVIOUS
  <2>1. victim # Nobody => (Renewed(t) => Renewed(t)')
    BY <1>0 DEF CoverStays, IInv, Timely
  <2>2. victim' = victim /\ row' = row /\ hist' = hist
    OBVIOUS
  <2>3. Renewed(victim.born)' <=> Renewed(t)'
    BY <2>2 DEF Renewed
  <2>4. Renewed(victim.born) <=> Renewed(t)
    OBVIOUS
  <2> QED
    BY <2>1, <2>2, <2>3, <2>4 DEF IInv, Selected
<1>7. ReadInTime'
  <2>1. \A w \in Writers : wr'[w].pc = "created" /\ wr'[w].row.e # Never => wr'[w].born < wr'[w].row.e
    BY DEF WritersFollow, IInv, ReadInTime
  <2> QED
    BY <1>3, <2>1 DEF ReadInTime, SetInTime
<1>8. AllCovered'
  <2>1. \A cmd \in OnTheWay' : CommandOk(cmd)'
    <3> SUFFICES ASSUME NEW cmd \in OnTheWay' PROVE CommandOk(cmd)'
      OBVIOUS
    <3>1. CommandOk(cmd) /\ UnderWay(cmd.born) /\ cmd.born \in Nat
      BY <1>0, <1>3
    <3>2. Covered(cmd.born) => Covered(cmd.born)'
      BY <3>1 DEF CoverStays
    <3> QED
      BY <3>1, <3>2 DEF CommandOk, Reflects, Active
  <2>2. \A i \in Instances : LoadOk(i)'
    <3> SUFFICES ASSUME NEW i \in Instances, Loaded(i)' PROVE LoadOk(i)'
      BY DEF LoadOk
    <3>1. CASE Loaded(i) /\ flight'[i] = flight[i]
      <4>1. LoadOk(i) /\ UnderWay(flight[i].born) /\ flight[i].born \in Nat
        BY <1>0, <3>1 DEF IInv, AllCovered, Timely
      <4> PICK load, t : load = flight[i] /\ t = load.born
        OBVIOUS
      <4>2. Covered(t) => Covered(t)'
        BY <4>1 DEF CoverStays
      <4>3. /\ Active(load.row) =>
                  Reflects(load.row, row) \/ Covered(t) \/ Expired(load.row.e, now)
            /\ ~Active(load.row) /\ Active(row) => t <= row.born \/ Covered(t)
        BY <3>1, <4>1 DEF LoadOk
      <4>4. Active(row)' = Active(row) /\ flight'[i] = load
        BY <3>1 DEF Active
      <4>5. Reflects(load.row, row)' <=> Reflects(load.row, row)
        BY DEF Reflects
      <4>6. Covered(flight[i].born)' <=> Covered(t)'
        BY <4>4 DEF Covered
      <4> QED
        BY <4>2, <4>3, <4>4, <4>5, <4>6 DEF LoadOk, Active, Expired, Reflects
    <3>2. CASE flight'[i].row = row /\ flight'[i].born = now
      <4>1. Active(row) => row.born <= now /\ Reflects(row, row)
        BY DEF Active, Reflects, IInv, RowFormed
      <4> QED
        BY <3>2, <4>1 DEF LoadOk, Active, Reflects
    <3> QED
      BY <3>1, <3>2 DEF LoadsFollow
  <2>3. \A w \in Writers : WriterOk(w)'
    <3> SUFFICES ASSUME NEW w \in Writers, wr'[w].pc = "created" PROVE WriterOk(w)'
      BY DEF WriterOk
    <3>1. wr'[w] = wr[w]
      BY DEF WritersFollow
    <3>2. WriterOk(w) /\ UnderWay(wr[w].born) /\ wr[w].born \in Nat
      BY <1>0, <3>1 DEF IInv, AllCovered, Timely
    <3> PICK writer, t : writer = wr[w] /\ t = writer.born
      OBVIOUS
    <3>3. Covered(t) => Covered(t)'
      BY <3>2 DEF CoverStays
    <3>4. Covered(wr[w].born)' <=> Covered(t)'
      BY <3>1 DEF Covered
    <3>5. Reflects(writer.row, row) \/ Covered(t)
      BY <3>1, <3>2 DEF WriterOk
    <3> QED
      BY <3>1, <3>3, <3>4, <3>5 DEF WriterOk, Reflects
  <2> QED
    BY <2>1, <2>2, <2>3 DEF AllCovered
<1> QED
  BY <1>4, <1>5, <1>6, <1>7, <1>8 DEF IInv

LEMMA CoverSame ==
    ASSUME UNCHANGED timers, Untold => Untold'
    PROVE  CoverStays
BY DEF CoverStays, Covered, Renewed

LEMMA EntrySame ==
    ASSUME IInv, UNCHANGED <<now, row, entry>>, RemovalPending => RemovalPending'
    PROVE  EntryInTime' /\ EntryOk'
BY DEF IInv, ReadInTime, AllCovered, EntryInTime, EntryOk, Reflects, Active

(* A step that sends one command, and leaves the entry and the timers alone. *)
LEMMA SendStep ==
    ASSUME IInv, Typed', UNCHANGED <<now, row, victim, hist, entry, timers>>,
           NEW i \in Instances, NEW cmd \in Command, Sent(i, cmd),
           UnderWay(cmd.born), SetInTime(cmd), CommandOk(cmd),
           \A w \in Writers : cmd \notin Dels(w),
           \A w \in Writers : \/ wr'[w] = wr[w]
                              \/ wr[w].pc = "created" /\ wr'[w].pc = "idle",
           LoadsFollow
    PROVE  IInv'
<1>0. OnTheWay' = OnTheWay \cup {cmd}
  BY AppendDoes DEF IInv, Typed, TypeOK, PipesOk
<1>1. Untold => Untold'
  BY DEF Untold
<1>2. CoverStays
  BY <1>1, CoverSame
<1>3. CommandsFollow
  BY <1>0 DEF CommandsFollow
<1>4. WritersFollow
  BY DEF WritersFollow
<1>5. TimersFollow
  BY DEF TimersFollow, IInv, Timely
<1>6. OneDel'
  BY DelsSend DEF IInv
<1>7. RemovalPending => RemovalPending'
  BY <1>0, <1>1, RemovalIs, RemovalIsNext
<1>8. EntryInTime' /\ EntryOk'
  BY <1>7, EntrySame
<1> QED
  BY <1>2, <1>3, <1>4, <1>5, <1>6, <1>8, QuietStep

(* A step that sends nothing and takes nothing from the cache. *)
LEMMA SilentStep ==
    ASSUME IInv, Typed', UNCHANGED <<now, row, victim, hist, entry, timers, pipe, wr>>, LoadsFollow
    PROVE  IInv'
<1>0. OnTheWay' = OnTheWay
  BY SamePipe
<1>1. Untold => Untold'
  BY DEF Untold
<1>2. CoverStays /\ CommandsFollow /\ WritersFollow /\ TimersFollow
  BY <1>0, <1>1, CoverSame DEF CommandsFollow, WritersFollow, TimersFollow, IInv, Timely
<1>3. OneDel'
  BY DelsSame DEF IInv
<1>4. RemovalPending => RemovalPending'
  BY DEF RemovalPending
<1>5. EntryInTime' /\ EntryOk'
  BY <1>4, EntrySame
<1> QED
  BY <1>2, <1>3, <1>5, QuietStep

(* A GET leaves its pipe. *)
LEMMA GetStep ==
    ASSUME IInv, Typed', UNCHANGED <<now, row, victim, hist, entry, timers, wr>>, LoadsFollow,
           NEW i \in Instances, NEW k \in DOMAIN pipe[i], Leaves(i, k), pipe[i][k].op = "get"
    PROVE  IInv'
<1>0. OnTheWay' \subseteq OnTheWay /\ OnTheWay \subseteq OnTheWay' \cup {pipe[i][k]}
  BY DEF Leaves
<1>1. Untold => Untold'
  BY DEF Untold
<1>2. CoverStays /\ CommandsFollow /\ WritersFollow /\ TimersFollow
  BY <1>0, <1>1, CoverSame DEF CommandsFollow, WritersFollow, TimersFollow, IInv, Timely
<1>3. OneDel'
  BY DelsLeave DEF IInv
<1>4. RemovalPending => RemovalPending'
  <2>1. \A cmd \in OnTheWay : cmd.op = "del" => cmd \in OnTheWay'
    BY <1>0
  <2> QED
    BY <1>1, <2>1, RemovalIs, RemovalIsNext
<1>5. EntryInTime' /\ EntryOk'
  BY <1>4, EntrySame
<1> QED
  BY <1>2, <1>3, <1>5, QuietStep

LEMMA NothingSkipped ==
    ASSUME NoneLost
    PROVE  /\ ~Skipped /\ \A i \in Instances : ~Lose(i) /\ ~Crash(i)
           /\ \A i, cmd : Send(i, cmd) => Sent(i, cmd)
BY DEF NoneLost, Skipped, Lose, Crash, Send

LEMMA MissLoads ==
    ASSUME NEW r, NEW i \in Instances, NEW request, Typed, Miss(r, i, request)
    PROVE  LoadsFollow
<1>1. \A j \in Instances : flight'[j] = flight[j] \/ flight'[j] = [phase |-> "query"]
  BY DEF Miss, Typed, TypeOK
<1> QED
  BY <1>1 DEF LoadsFollow, Loaded

LEMMA ArriveKeeps ==
    ASSUME IInv, Typed', NoneLost, NEW r \in Requests, NEW i \in Instances, Arrive(r, i)
    PROVE  IInv'
<1> PICK cmd : cmd = [op |-> "get", r |-> r, born |-> now]
  OBVIOUS
<1>1. Sent(i, cmd) /\ UNCHANGED <<flight, wr>>
  BY NothingSkipped DEF Arrive
<1>2. cmd \in Command /\ UnderWay(cmd.born) /\ SetInTime(cmd) /\ CommandOk(cmd)
  BY TimesAssumption DEF IInv, Typed, TypeOK, Command, UnderWay, SetInTime, CommandOk
<1>3. \A w \in Writers : cmd \notin Dels(w)
  BY DEF Dels
<1>4. LoadsFollow
  BY <1>1 DEF LoadsFollow, Loaded
<1> QED
  BY <1>1, <1>2, <1>3, <1>4, SendStep DEF Arrive

LEMMA RunGetKeeps ==
    ASSUME IInv, Typed', NEW i \in Instances, RunGet(i)
    PROVE  IInv'
<1>1. Leaves(i, 1) /\ 1 \in DOMAIN pipe[i] /\ pipe[i][1].op = "get"
  BY PopDoes DEF IInv, Typed, TypeOK, PipesOk, RunGet, Leaves
<1>2. LoadsFollow
  <2>1. CASE UNCHANGED flight
    BY <2>1 DEF LoadsFollow, Loaded
  <2>2. CASE Miss(Head(pipe[i]).r, i, req[Head(pipe[i]).r])
    BY <2>2, MissLoads DEF IInv
  <2> QED
    BY <2>1, <2>2 DEF RunGet, Got
<1> QED
  BY <1>1, <1>2, GetStep DEF RunGet

LEMMA GetTimesOutKeeps ==
    ASSUME IInv, Typed', NEW r \in Requests, GetTimesOut(r)
    PROVE  IInv'
<1> PICK i : i = req[r].at
  OBVIOUS
<1>1. i \in Instances
  BY DEF IInv, Typed, TypeOK, GetTimesOut
<1>2. PICK k \in DOMAIN pipe[i] : pipe[i][k].op = "get" /\ pipe' = [pipe EXCEPT ![i] = Without(@, k)]
  BY DEF GetTimesOut
<1>3. Leaves(i, k)
  BY <1>1, <1>2, WithoutDoes DEF IInv, Typed, TypeOK, PipesOk
<1>4. LoadsFollow
  BY <1>1, MissLoads DEF GetTimesOut, IInv
<1> QED
  BY <1>1, <1>2, <1>3, <1>4, GetStep DEF GetTimesOut

LEMMA EndLoadLoads == ASSUME Typed, NEW i \in Instances, EndLoad(i) PROVE LoadsFollow
<1>1. \A j \in Instances : flight'[j] = IF j = i THEN NoFlight ELSE flight[j]
  BY DEF EndLoad, Typed, TypeOK
<1> QED
  BY <1>1 DEF LoadsFollow, Loaded

LEMMA LoadReadKeeps ==
    ASSUME IInv, Typed', NEW i \in Instances, LoadRead(i) \/ LoadFails(i)
    PROVE  IInv'
<1>1. CASE LoadFails(i)
  BY <1>1, EndLoadLoads, SilentStep DEF LoadFails, IInv
<1>2. CASE LoadRead(i)
  <2>1. \A j \in Instances : flight'[j] = IF j = i THEN [phase |-> "result", row |-> row, born |-> now] ELSE flight[j]
    BY <1>2 DEF LoadRead, IInv, Typed, TypeOK
  <2>2. LoadsFollow
    BY <2>1 DEF LoadsFollow, Loaded
  <2> QED
    BY <1>2, <2>2, SilentStep DEF LoadRead
<1> QED
  BY <1>1, <1>2

LEMMA LoadDoneKeeps ==
    ASSUME IInv, Typed', NoneLost, NEW i \in Instances, LoadDone(i)
    PROVE  IInv'
<1>0. now \in Nat /\ Loaded(i) /\ LoadsFollow
  BY EndLoadLoads DEF LoadDone, Loaded, IInv, Typed, TypeOK
<1> PICK rw, t : rw = flight[i].row /\ t = flight[i].born
  OBVIOUS
<1>1. t \in Nat /\ rw \in Row \cup {NoRow} /\ UnderWay(t)
  BY <1>0, LoadFields DEF IInv, Typed, Timely
<1>2. /\ Active(rw) => Reflects(rw, row) \/ Covered(t) \/ Expired(rw.e, now)
      /\ ~Active(rw) /\ Active(row) => t <= row.born \/ Covered(t)
  BY <1>0 DEF IInv, AllCovered, LoadOk
<1>3. CASE Resolve(rw).kind = "not_found"
  <2> PICK cmd : cmd = [op |-> "neg", born |-> t]
    OBVIOUS
  <2>1. cmd \in Command /\ Sent(i, cmd)
    BY <1>1, <1>3, NothingSkipped DEF Command, LoadDone
  <2>2. ~Active(rw)
    BY <1>3 DEF Resolve, Evaluate, Active
  <2>3. CommandOk(cmd) /\ SetInTime(cmd) /\ UnderWay(cmd.born) /\ \A w \in Writers : cmd \notin Dels(w)
    BY <1>1, <1>2, <2>2 DEF CommandOk, SetInTime, Dels
  <2> QED
    BY <1>0, <2>1, <2>3, SendStep DEF LoadDone
<1>4. CASE Resolve(rw).kind = "found"
  <2> PICK cmd : cmd = SetCommand(rw, t)
    OBVIOUS
  <2>1. Active(rw) /\ ~Expired(rw.e, now) /\ rw \in Row
    BY <1>1, <1>4 DEF Resolve, Evaluate, Active, NotFound
  <2>2. cmd \in Command /\ Sent(i, cmd)
    BY <1>0, <1>1, <1>4, <2>1, SetFormed, NothingSkipped DEF LoadDone
  <2>3. cmd.op = "set" /\ cmd.id = rw.id /\ cmd.e = rw.e /\ cmd.born = t /\ cmd.ttl = TtlFor(rw.e)
    BY DEF SetCommand
  <2>4. CommandOk(cmd)
    BY <1>2, <2>1, <2>3 DEF CommandOk, Reflects
  <2>5. SetInTime(cmd)
    <3>1. rw.e \in Nat \cup {Never}
      BY <2>1 DEF Row
    <3> PICK e, ttl : e = rw.e /\ ttl = TtlFor(e)
      OBVIOUS
    <3>2. e # Never => ttl \in Nat /\ e > now /\ now + ttl <= e /\ t <= now
      BY <1>0, <1>1, <2>1, <3>1, TtlIs, ExpiriesAssumption DEF Expired, UnderWay
    <3> QED
      BY <1>0, <1>1, <2>3, <3>1, <3>2 DEF SetInTime
  <2>6. \A w \in Writers : cmd \notin Dels(w)
    BY <2>3 DEF Dels
  <2> QED
    BY <1>0, <1>1, <2>2, <2>3, <2>4, <2>5, <2>6, SendStep DEF LoadDone
<1>5. CASE Resolve(rw).kind = "expired"
  <2>1. UNCHANGED pipe
    BY <1>5 DEF LoadDone
  <2> QED
    BY <1>0, <2>1, SilentStep DEF LoadDone
<1>6. Resolve(rw).kind \in {"not_found", "found", "expired"}
  BY DEF Resolve, NotFound, Evaluate
<1> QED
  BY <1>3, <1>4, <1>5, <1>6

LEMMA WriteThroughKeeps ==
    ASSUME IInv, Typed', NoneLost, NEW w \in Writers, WriteThrough(w)
    PROVE  IInv'
<1>0. wr[w].at \in Instances /\ wr[w].row \in Row /\ wr[w].born \in Nat /\ now \in Nat
  BY WriterFields DEF WriteThrough, IInv, Typed, TypeOK
<1> PICK i, rw, t : i = wr[w].at /\ rw = wr[w].row /\ t = wr[w].born
  OBVIOUS
<1> PICK cmd : cmd = SetCommand(rw, t)
  OBVIOUS
<1>1. cmd \in Command /\ Sent(i, cmd)
  BY <1>0, SetFormed, NothingSkipped DEF WriteThrough
<1>2. cmd.op = "set" /\ cmd.id = rw.id /\ cmd.e = rw.e /\ cmd.born = t /\ cmd.ttl = TtlFor(rw.e)
  BY DEF SetCommand
<1>3. UnderWay(t)
  BY DEF WriteThrough, IInv, Timely
<1>4. CommandOk(cmd)
  <2>1. Reflects(rw, row) \/ Covered(t)
    BY DEF WriteThrough, IInv, AllCovered, WriterOk
  <2> QED
    BY <1>2, <2>1 DEF CommandOk, Reflects
<1>5. SetInTime(cmd)
  <2> PICK e : e = rw.e
    OBVIOUS
  <2>1. e \in Nat \cup {Never} /\ (e # Never => t < e /\ t <= now)
    BY <1>0, <1>3 DEF Row, WriteThrough, IInv, ReadInTime, UnderWay
  <2>2. e # Never => t + TtlFor(e) <= e
    BY <1>0, <2>1, TimesAssumption, ExpiriesAssumption DEF TtlFor
  <2> QED
    BY <1>2, <2>2 DEF SetInTime
<1>6. \A v \in Writers : cmd \notin Dels(v)
  BY <1>2 DEF Dels
<1>7. \A v \in Writers : \/ wr'[v] = wr[v]
                         \/ wr[v].pc = "created" /\ wr'[v].pc = "idle"
  BY DEF WriteThrough, IInv, Typed, TypeOK
<1>8. LoadsFollow
  BY DEF LoadsFollow, Loaded, WriteThrough
<1> QED
  BY <1>0, <1>1, <1>2, <1>3, <1>4, <1>5, <1>6, <1>7, <1>8, SendStep DEF WriteThrough

(* The first DEL is sent when the second one is due to come. *)
LEMMA InvalidateKeeps ==
    ASSUME IInv, Typed', NoneLost, Spaced, NEW w \in Writers, Invalidate(w)
    PROVE  IInv'
<1>0. wr[w].at \in Instances /\ now \in Nat /\ Latency \in Nat /\ Delay \in Nat
  BY WriterFields, TimesAssumption DEF Invalidate, IInv, Typed, TypeOK
<1> PICK i, due, b : i = wr[w].at /\ due = now + Delay /\ b = now
  OBVIOUS
<1> PICK cmd : cmd = [op |-> "del", w |-> w, born |-> b]
  OBVIOUS
<1>1. /\ Sent(i, cmd) /\ wr' = [wr EXCEPT ![w].pc = "deleting"]
      /\ timers' = [timers EXCEPT ![i] = @ \cup {due}]
      /\ UNCHANGED <<now, row, entry, flight, req, victim, hist>>
  BY NothingSkipped DEF Invalidate
<1>2. cmd \in Command
  BY <1>0 DEF Command
<1>3. OnTheWay' = OnTheWay \cup {cmd}
  BY <1>0, <1>1, <1>2, AppendDoes DEF IInv, Typed, TypeOK, PipesOk
<1>4. due \in timers'[i] /\ \A j \in Instances : timers[j] \subseteq timers'[j] /\ timers'[j] \subseteq timers[j] \cup {due}
  BY <1>0, <1>1 DEF IInv, Typed, TypeOK
<1>5. CoverStays
  <2> SUFFICES ASSUME NEW t \in Nat, UnderWay(t) PROVE Covered(t)' /\ Renewed(t)'
    BY DEF CoverStays
  <2>1. t + Latency < due /\ t + Delay <= due
    BY <1>0 DEF UnderWay, Spaced
  <2> QED
    BY <1>0, <1>4, <2>1 DEF Covered, Renewed
<1>6. CommandsFollow
  BY <1>0, <1>3 DEF CommandsFollow, UnderWay, SetInTime, CommandOk
<1>7. LoadsFollow
  BY <1>1 DEF LoadsFollow, Loaded
<1>8. WritersFollow /\ \A v \in Writers : wr[v].pc = "deleting" => wr'[v].pc = "deleting"
  <2> PICK writer : writer = wr[w]
    OBVIOUS
  <2>1. writer \in [pc : {"created", "written", "deleting"}, at : Instances, row : Row, born : Nat]
    BY DEF Invalidate, IInv, Typed, TypeOK
  <2>2. wr' = [wr EXCEPT ![w] = [writer EXCEPT !.pc = "deleting"]]
    BY <1>1
  <2>3. wr'[w] = [writer EXCEPT !.pc = "deleting"] /\ \A v \in Writers : v # w => wr'[v] = wr[v]
    BY <2>2 DEF IInv, Typed, TypeOK
  <2>4. wr'[w].pc = "deleting" /\ wr'[w].born = writer.born /\ writer.pc # "idle"
    BY <2>1, <2>3
  <2> QED
    BY <2>3, <2>4 DEF WritersFollow
<1>9. TimersFollow
  BY <1>0, <1>4 DEF TimersFollow, IInv, Timely
<1>10. OneDel'
  <2>1. wr[w].pc # "deleting" /\ wr'[w].pc = "deleting"
    BY <1>1 DEF Invalidate, IInv, Typed, TypeOK
  <2>2. \A v \in Writers : cmd \in Dels(v) => v = w
    BY DEF Dels
  <2> QED
    BY <1>0, <1>1, <1>2, <1>8, <2>1, <2>2, DelsSend DEF IInv
<1>11. EntryInTime' /\ EntryOk'
  <2>1. RemovalPending'
    BY <1>0, <1>4 DEF RemovalPending
  <2> QED
    BY <1>1, <2>1, EntrySame
<1> QED
  BY <1>1, <1>5, <1>6, <1>7, <1>8, <1>9, <1>10, <1>11, QuietStep

(* The second DEL: nothing that was waiting for it is still under way. *)
LEMMA SecondDelKeeps ==
    ASSUME IInv, Typed', NoneLost, Spaced, NEW i \in Instances, NEW due \in timers[i], SecondDel(i, due)
    PROVE  IInv'
<1>0. now \in Nat /\ Latency \in Nat \ {0} /\ Delay \in Nat \ {0} /\ due \in Nat /\ due <= now
  BY TimesAssumption DEF IInv, Typed, TypeOK, SecondDel
<1> PICK b : b = now
  OBVIOUS
<1> PICK cmd : cmd = [op |-> "del", w |-> Nobody, born |-> b]
  OBVIOUS
<1>1. Sent(i, cmd) /\ UNCHANGED <<now, row, entry, flight, req, wr, victim, hist>>
  BY NothingSkipped DEF SecondDel
<1>2. cmd \in Command
  BY <1>0 DEF Command
<1>3. OnTheWay' = OnTheWay \cup {cmd}
  BY <1>1, <1>2, AppendDoes DEF IInv, Typed, TypeOK, PipesOk
<1>4. \A j \in Instances : timers'[j] \subseteq timers[j] /\ \A d \in timers[j] : d # due => d \in timers'[j]
  BY DEF IInv, Typed, TypeOK, SecondDel
<1>5. CoverStays
  <2> SUFFICES ASSUME NEW t \in Nat, UnderWay(t)
               PROVE  (Covered(t) => Covered(t)') /\ (Renewed(t) => Renewed(t)')
    BY DEF CoverStays
  <2>1. ~(t + Latency < due) /\ ~(t + Delay <= due)
    BY <1>0 DEF UnderWay, Spaced
  <2> QED
    BY <1>1, <1>4, <2>1 DEF Covered, Renewed, Untold
<1>6. CommandsFollow
  BY <1>0, <1>3 DEF CommandsFollow, UnderWay, SetInTime, CommandOk
<1>7. LoadsFollow /\ WritersFollow /\ TimersFollow
  BY <1>1, <1>4 DEF LoadsFollow, Loaded, WritersFollow, TimersFollow, IInv, Timely
<1>8. OneDel'
  <2>1. \A v \in Writers : cmd \notin Dels(v)
    BY AbsentAssumption DEF Dels
  <2> QED
    BY <1>1, <1>2, <2>1, DelsSend DEF IInv
<1>9. EntryInTime' /\ EntryOk'
  <2>1. RemovalPending'
    BY <1>3, RemovalIsNext
  <2> QED
    BY <1>1, <2>1, EntrySame
<1> QED
  BY <1>1, <1>5, <1>6, <1>7, <1>8, <1>9, QuietStep

LEMMA DelTimesOutKeeps ==
    ASSUME IInv, Typed', NEW w \in Writers, DelTimesOut(w)
    PROVE  IInv'
<1>1. \A i \in Instances :
         /\ DOMAIN pipe'[i] = DOMAIN pipe[i]
         /\ \A k \in DOMAIN pipe[i] :
               IF pipe[i][k] \in Dels(w)
               THEN pipe'[i][k] \in Dels(Nobody) /\ pipe'[i][k].born = pipe[i][k].born
               ELSE pipe'[i][k] = pipe[i][k]
  BY Relabels DEF IInv, Typed, TypeOK, PipesOk
<1>2. UNCHANGED <<now, row, entry, flight, timers, req, victim, hist>>
  BY DEF DelTimesOut
<1>3. wr'[w].pc = "idle" /\ wr[w].pc = "deleting" /\ \A v \in Writers : v # w => wr'[v] = wr[v]
  BY DEF DelTimesOut, IInv, Typed, TypeOK
<1>4. Untold => Untold'
  BY <1>3 DEF Untold
<1>5. CommandsFollow
  <2> SUFFICES ASSUME NEW i \in Instances, NEW k \in DOMAIN pipe'[i]
               PROVE  \/ pipe'[i][k] \in OnTheWay
                      \/ UnderWay(pipe'[i][k].born) /\ SetInTime(pipe'[i][k]) /\ CommandOk(pipe'[i][k])
    BY DEF CommandsFollow, OnTheWay
  <2> PICK cmd, old : cmd = pipe'[i][k] /\ old = pipe[i][k]
    OBVIOUS
  <2>1. old \in OnTheWay
    BY <1>1 DEF OnTheWay
  <2>2. CASE cmd = old
    BY <2>1, <2>2
  <2>3. CASE cmd \in Dels(Nobody) /\ cmd.born = old.born
    <3>1. UnderWay(old.born)
      BY <2>1 DEF IInv, Timely
    <3>2. cmd.op = "del"
      BY <2>3 DEF Dels
    <3> QED
      BY <2>3, <3>1, <3>2 DEF SetInTime, CommandOk
  <2> QED
    BY <1>1, <2>2, <2>3
<1>6. CoverStays /\ LoadsFollow /\ WritersFollow /\ TimersFollow
  BY <1>2, <1>3, <1>4, CoverSame DEF LoadsFollow, Loaded, WritersFollow, TimersFollow, IInv, Timely
<1>7. OneDel'
  BY DelsRelabel DEF IInv
<1>8. EntryInTime' /\ EntryOk'
  <2>1. ASSUME NEW i \in Instances, NEW k \in DOMAIN pipe[i], pipe[i][k].op = "del"
        PROVE  k \in DOMAIN pipe'[i] /\ pipe'[i][k].op = "del"
    BY <1>1, <2>1 DEF Dels
  <2>2. RemovalPending => RemovalPending'
    BY <1>2, <1>4, <2>1 DEF RemovalPending, Untold
  <2> QED
    BY <1>2, <2>2, EntrySame
<1> QED
  BY <1>2, <1>5, <1>6, <1>7, <1>8, QuietStep

LEMMA EvictKeeps ==
    ASSUME IInv, Typed', Evict
    PROVE  IInv'
<1>1. UNCHANGED <<now, row, pipe, flight, timers, req, wr, victim, hist>> /\ entry' = NoEntry
  BY DEF Evict
<1>2. OnTheWay' = OnTheWay /\ (Untold => Untold')
  BY <1>1, SamePipe DEF Untold
<1>3. CoverStays /\ CommandsFollow /\ LoadsFollow /\ WritersFollow /\ TimersFollow
  BY <1>1, <1>2, SamePipe, CoverSame
     DEF CommandsFollow, LoadsFollow, Loaded, WritersFollow, TimersFollow, IInv, Timely, Untold
<1>4. OneDel'
  BY <1>1, DelsSame DEF IInv
<1>5. EntryInTime' /\ EntryOk'
  BY <1>1 DEF EntryInTime, EntryOk
<1> QED
  BY <1>1, <1>3, <1>4, <1>5, QuietStep

(* Redis runs a command: what it puts there was covered while it was under way. *)
LEMMA RunWriteKeeps ==
    ASSUME IInv, Typed', NEW i \in Instances, RunWrite(i)
    PROVE  IInv'
<1> PICK cmd : cmd = Head(pipe[i])
  OBVIOUS
<1>0. /\ UNCHANGED <<now, row, flight, timers, req, victim, hist>> /\ entry' = Written(cmd)
      /\ wr' = IF cmd.op = "del" /\ cmd.w # Nobody THEN [wr EXCEPT ![cmd.w] = [pc |-> "idle"]] ELSE wr
  BY DEF RunWrite
<1>1. /\ Leaves(i, 1) /\ 1 \in DOMAIN pipe[i] /\ cmd = pipe[i][1] /\ cmd \in OnTheWay /\ cmd \in Command
      /\ cmd.op \in {"set", "neg", "del"}
  BY PopDoes, CommandsFormed, CommandFields DEF RunWrite, IInv, Typed, TypeOK, PipesOk, Leaves
<1>2. OnTheWay' \subseteq OnTheWay
  BY <1>1 DEF Leaves
<1>3. \A v \in Writers : \/ wr'[v] = wr[v]
                         \/ wr'[v].pc = "idle" /\ wr[v].pc = "deleting" /\ cmd \in Dels(v)
  <2> PICK w : w = cmd.w
    OBVIOUS
  <2>1. CASE cmd.op = "del" /\ w # Nobody
    <3>1. w \in Writers /\ cmd \in Dels(w)
      BY <1>1, <2>1, CommandFields DEF Dels
    <3>2. wr[w].pc = "deleting"
      BY <1>1, <3>1 DEF IInv, OneDel
    <3>3. wr' = [wr EXCEPT ![w] = [pc |-> "idle"]]
      BY <1>0, <2>1
    <3> QED
      BY <3>1, <3>2, <3>3 DEF IInv, Typed, TypeOK
  <2>2. CASE ~(cmd.op = "del" /\ w # Nobody)
    BY <1>0, <2>2
  <2> QED
    BY <2>1, <2>2
<1>4. Untold => Untold'
  BY <1>3 DEF Untold
<1>5. CoverStays /\ CommandsFollow /\ LoadsFollow /\ WritersFollow /\ TimersFollow
  BY <1>0, <1>2, <1>3, <1>4, CoverSame
     DEF CommandsFollow, LoadsFollow, Loaded, WritersFollow, TimersFollow, IInv, Timely
<1>6. OneDel'
  BY <1>1, <1>3, DelsLeave DEF IInv
<1>7. now \in Nat /\ Latency \in Nat /\ NegTtl \in Nat \ {0} /\ cmd.born \in Nat /\ UnderWay(cmd.born)
  BY <1>1, CommandFields, TimesAssumption DEF IInv, Typed, TypeOK, Timely
<1>8. Covered(cmd.born) => RemovalPending'
  <2> PICK t : t = cmd.born
    OBVIOUS
  <2>1. Covered(t) => Untold' \/ \E j \in Instances : timers'[j] # {}
    BY <1>0, <1>4 DEF Covered
  <2> QED
    BY <2>1, RemovalIsNext
<1>9. SetInTime(cmd) /\ CommandOk(cmd)
  BY <1>1 DEF IInv, ReadInTime, AllCovered
<1>10. EntryInTime' /\ EntryOk'
  <2>1. CASE cmd.op = "set"
    <3> PICK d : d = now + cmd.ttl
      OBVIOUS
    <3> PICK en : en = [kind |-> "url", id |-> cmd.id, e |-> cmd.e, dies |-> d]
      OBVIOUS
    <3>1. entry' = en
      BY <1>0, <2>1 DEF Written
    <3>2. cmd.ttl \in Nat \ {0} /\ cmd.e \in Nat \cup {Never}
      BY <1>1, <2>1, CommandFields
    <3>3. now < d /\ (cmd.e # Never => d <= cmd.e + Latency)
      BY <1>7, <1>9, <2>1, <3>2 DEF UnderWay, SetInTime
    <3>4. EntryInTime'
      BY <1>0, <3>1, <3>3 DEF EntryInTime
    <3>5. Reflects(cmd, row) => Reflects(entry', row')
      BY <1>0, <3>1 DEF Reflects
    <3> QED
      BY <1>8, <1>9, <2>1, <3>1, <3>4, <3>5 DEF EntryOk, CommandOk
  <2>2. CASE cmd.op = "neg"
    <3> PICK d, b : d = now + NegTtl /\ b = cmd.born
      OBVIOUS
    <3> PICK en : en = [kind |-> "none", dies |-> d]
      OBVIOUS
    <3>1. entry' = en
      BY <1>0, <2>2 DEF Written
    <3>2. now < d /\ d <= now + NegTtl /\ b \in Nat /\ now <= b + Latency
      BY <1>7 DEF UnderWay
    <3>3. EntryInTime'
      BY <1>0, <3>1, <3>2 DEF EntryInTime
    <3>4. Active(row) => row.born \in Nat
      BY DEF Active, IInv, Typed, TypeOK, Row
    <3>5. Active(row) /\ b <= row.born => d <= row.born + Latency + NegTtl
      BY <1>7, <3>2, <3>4
    <3>6. Active(row)' <=> Active(row)
      BY <1>0 DEF Active
    <3>7. Active(row) => b <= row.born \/ Covered(cmd.born)
      BY <1>9, <2>2 DEF CommandOk
    <3> QED
      BY <1>0, <1>8, <3>1, <3>3, <3>5, <3>6, <3>7 DEF EntryOk
  <2>3. CASE cmd.op = "del"
    BY <1>0, <2>3 DEF Written, EntryInTime, EntryOk
  <2> QED
    BY <1>1, <2>1, <2>2, <2>3
<1> QED
  BY <1>0, <1>5, <1>6, <1>10, QuietStep

LEMMA PurgeSelectKeeps ==
    ASSUME IInv, Typed', PurgeSelect
    PROVE  IInv'
<1>0. now \in Nat /\ Latency \in Nat
  BY TimesAssumption DEF IInv, Typed, TypeOK
<1>1. UNCHANGED <<now, row, entry, pipe, flight, timers, req, wr, hist>>
  BY DEF PurgeSelect
<1> PICK v : v = [id |-> row.id, born |-> now]
  OBVIOUS
<1>2. victim' = v /\ row # NoRow /\ row.purge # Never /\ row.purge < now
  BY DEF PurgeSelect
<1>3. Timely'
  BY <1>0, <1>1, <1>2, SamePipe DEF IInv, Timely, UnderWay, Loaded
<1>4. OneDel'
  BY <1>1, DelsSame DEF IInv
<1>5. RowFormed' /\ Selected'
  BY <1>1, <1>2 DEF IInv, RowFormed, Selected, PurgeAt
<1>6. ReadInTime'
  BY <1>1, SamePipe DEF IInv, ReadInTime, EntryInTime, SetInTime
<1>7. AllCovered'
  BY <1>1, SamePipe DEF IInv, AllCovered, CommandOk, LoadOk, Loaded, WriterOk, EntryOk, Covered,
                        RemovalPending, Untold, Reflects, Active, Expired
<1> QED
  BY <1>3, <1>4, <1>5, <1>6, <1>7 DEF IInv

(* The purge deletes a row, and nothing of it is left that is not covered. *)
LEMMA NothingLeft ==
    ASSUME IInv, Spaced, victim # Nobody, row # NoRow, row.id = victim.id
    PROVE  /\ \A cmd \in OnTheWay : cmd.op = "set" => Covered(cmd.born)
           /\ \A i \in Instances : Loaded(i) /\ Active(flight[i].row) =>
                 Covered(flight[i].born) \/ Expired(flight[i].row.e, now)
           /\ \A w \in Writers : wr[w].pc = "created" => Covered(wr[w].born)
           /\ entry # NoEntry /\ entry.kind = "url" => RemovalPending
<1>0. /\ now \in Nat /\ Latency \in Nat \ {0} /\ Delay \in Nat \ {0} /\ Grace \in Nat \ {0}
      /\ victim.born \in Nat /\ UnderWay(victim.born)
  BY TimesAssumption DEF IInv, Typed, TypeOK, Timely
<1>1. row.e \in Nat \cup {Never} /\ row.purge = PurgeAt(row.e)
  BY DEF IInv, Typed, TypeOK, RowFormed, Row
<1>2. CASE row.purge # Never /\ row.purge < victim.born
  <2> PICK e : e = row.e
    OBVIOUS
  <2>1. e \in Nat /\ e # Never /\ e + Grace < now /\ e + Latency < now
    BY <1>0, <1>1, <1>2, ExpiriesAssumption DEF PurgeAt, UnderWay, Spaced
  <2>2. ASSUME NEW cmd \in OnTheWay, cmd.op = "set" PROVE Covered(cmd.born)
    <3>1. cmd.born \in Nat /\ UnderWay(cmd.born) /\ SetInTime(cmd) /\ cmd \in Command
      BY BornIsNat, CommandsFormed DEF IInv, Timely, ReadInTime, Typed, TypeOK, PipesOk
    <3>2. cmd.ttl \in Nat \ {0}
      BY <2>2, <3>1, CommandFields
    <3>3. cmd.e # e
      BY <1>0, <2>1, <2>2, <3>1, <3>2 DEF SetInTime, UnderWay
    <3> QED
      BY <2>2, <3>3 DEF IInv, AllCovered, CommandOk, Reflects
  <2>3. ASSUME NEW i \in Instances, Loaded(i), Active(flight[i].row)
        PROVE  Covered(flight[i].born) \/ Expired(flight[i].row.e, now)
    <3>1. flight[i].row.e = e => Expired(flight[i].row.e, now)
      BY <1>0, <2>1 DEF Expired
    <3> QED
      BY <2>3, <3>1 DEF IInv, AllCovered, LoadOk, Reflects
  <2>4. ASSUME NEW w \in Writers, wr[w].pc = "created" PROVE Covered(wr[w].born)
    <3>1. wr[w].born \in Nat /\ UnderWay(wr[w].born)
      BY <2>4, BornIsNat DEF IInv, Timely
    <3>2. wr[w].row.e # Never => wr[w].born < wr[w].row.e
      BY <2>4 DEF IInv, ReadInTime
    <3>3. wr[w].row.e # e
      BY <1>0, <2>1, <3>1, <3>2 DEF UnderWay
    <3> QED
      BY <2>4, <3>3 DEF IInv, AllCovered, WriterOk, Reflects
  <2>5. ASSUME entry # NoEntry, entry.kind = "url" PROVE RemovalPending
    <3>1. entry.dies \in Nat
      BY <2>5 DEF IInv, Typed, TypeOK, Entry
    <3>2. entry.e # e
      BY <1>0, <2>1, <2>5, <3>1 DEF IInv, ReadInTime, EntryInTime
    <3> QED
      BY <2>5, <3>2 DEF IInv, AllCovered, EntryOk, Reflects
  <2> QED
    BY <2>2, <2>3, <2>4, <2>5
<1>3. CASE Renewed(victim.born)
  <2>1. ASSUME NEW t \in Nat, UnderWay(t) PROVE Covered(t)
    <3>1. CASE Untold
      BY <3>1 DEF Covered
    <3>2. CASE \E i \in Instances : \E due \in timers[i] : victim.born + Delay <= due
      <4> PICK b : b = victim.born
        OBVIOUS
      <4>1. PICK i \in Instances : \E due \in timers[i] : b + Delay <= due
        BY <3>2
      <4>2. PICK due \in timers[i] : b + Delay <= due
        BY <4>1
      <4>3. due \in Nat
        BY BornIsNat DEF IInv
      <4>4. t + Latency < due
        BY <1>0, <2>1, <4>2, <4>3 DEF UnderWay, Spaced
      <4> QED
        BY <4>4 DEF Covered
    <3> QED
      BY <1>3, <3>1, <3>2 DEF Renewed
  <2>2. RemovalPending
    <3> PICK b : b = victim.born
      OBVIOUS
    <3> QED
      BY <1>0, <2>1, CoveredRemoves
  <2> QED
    BY <2>1, <2>2, BornIsNat DEF IInv, Timely
<1> QED
  BY <1>2, <1>3 DEF IInv, Selected

LEMMA PurgeDeleteKeeps ==
    ASSUME IInv, Typed', Spaced, PurgeDelete
    PROVE  IInv'
<1>0. UNCHANGED <<now, entry, pipe, flight, timers, req, wr>> /\ victim' = Nobody /\ victim # Nobody
  BY DEF PurgeDelete
<1>1. Timely'
  BY <1>0, SamePipe DEF IInv, Timely, UnderWay, Loaded
<1>2. OneDel'
  BY <1>0, DelsSame DEF IInv
<1>3. Selected'
  BY <1>0 DEF Selected
<1>4. ReadInTime'
  BY <1>0, SamePipe DEF IInv, ReadInTime, EntryInTime, SetInTime
<1>5. CASE UNCHANGED <<row, hist>>
  <2>1. RowFormed'
    BY <1>0, <1>5 DEF IInv, RowFormed, PurgeAt
  <2>2. AllCovered'
    BY <1>0, <1>5, SamePipe DEF IInv, AllCovered, CommandOk, LoadOk, Loaded, WriterOk, EntryOk, Covered,
                                RemovalPending, Untold, Reflects, Active, Expired
  <2> QED
    BY <1>1, <1>2, <1>3, <1>4, <2>1, <2>2 DEF IInv
<1>6. CASE row # NoRow /\ row.id = victim.id /\ row' = NoRow
  <2>1. RowFormed'
    BY <1>6 DEF RowFormed
  <2>2. /\ \A cmd \in OnTheWay : cmd.op = "set" => Covered(cmd.born)
        /\ \A i \in Instances : Loaded(i) /\ Active(flight[i].row) =>
              Covered(flight[i].born) \/ Expired(flight[i].row.e, now)
        /\ \A w \in Writers : wr[w].pc = "created" => Covered(wr[w].born)
        /\ entry # NoEntry /\ entry.kind = "url" => RemovalPending
    BY <1>0, <1>6, NothingLeft
  <2>3. AllCovered'
    BY <1>0, <1>6, <2>2, SamePipe DEF AllCovered, CommandOk, LoadOk, Loaded, WriterOk, EntryOk, Covered,
                                      RemovalPending, Untold, Active, Expired
  <2> QED
    BY <1>1, <1>2, <1>3, <1>4, <2>1, <2>3 DEF IInv
<1> QED
  BY <1>5, <1>6 DEF PurgeDelete, Commit

LEMMA TickKeeps ==
    ASSUME IInv, Typed', Tick
    PROVE  IInv'
<1>0. now \in Nat /\ Latency \in Nat /\ now' = now + 1
  BY TimesAssumption DEF IInv, Typed, TypeOK, Tick
<1>1. UNCHANGED <<row, pipe, flight, timers, req, wr, victim, hist>>
  BY DEF Tick
<1>2. /\ \A cmd \in OnTheWay : InTime(cmd.born)
      /\ \A i \in Instances : (\A t \in timers[i] : now < t) /\ (Loaded(i) => InTime(flight[i].born))
      /\ \A w \in Writers : wr[w].pc # "idle" => InTime(wr[w].born)
      /\ victim # Nobody => InTime(victim.born)
  BY DEF Tick, OnTheWay, Loaded
<1>3. ASSUME NEW t \in Nat, UnderWay(t), InTime(t) PROVE t <= now' /\ now' <= t + Latency
  BY <1>0, <1>3 DEF UnderWay, InTime
<1>4. Timely'
  <2>1. \A cmd \in OnTheWay : UnderWay(cmd.born)'
    BY <1>2, <1>3, BornIsNat DEF IInv, Timely, UnderWay
  <2>2. \A i \in Instances : Loaded(i)' => Loaded(i) /\ flight[i].born <= now' /\ now' <= flight[i].born + Latency
    BY <1>1, <1>2, <1>3, BornIsNat DEF IInv, Timely, Loaded
  <2>3. \A w \in Writers : wr[w].pc # "idle" => wr[w].born <= now' /\ now' <= wr[w].born + Latency
    BY <1>2, <1>3, BornIsNat DEF IInv, Timely
  <2>4. victim # Nobody => victim.born <= now' /\ now' <= victim.born + Latency
    BY <1>2, <1>3, BornIsNat DEF IInv, Timely
  <2>5. \A i \in Instances : \A t \in timers[i] : now' <= t
    <3> SUFFICES ASSUME NEW i \in Instances, NEW t \in timers[i] PROVE now' <= t
      OBVIOUS
    <3>1. t \in Nat /\ now < t
      BY <1>2, BornIsNat DEF IInv
    <3> QED
      BY <1>0, <3>1
  <2>6. OnTheWay' = OnTheWay
    BY <1>1, SamePipe
  <2> QED
    BY <1>1, <2>1, <2>2, <2>3, <2>4, <2>5, <2>6 DEF Timely, UnderWay
<1>5. OneDel'
  BY <1>1, DelsSame DEF IInv
<1>6. RowFormed' /\ Selected'
  <2>1. row # NoRow => row.born \in Nat
    BY DEF IInv, Typed, TypeOK, Row
  <2>2. row # NoRow /\ row.born <= now => row.born <= now'
    BY <1>0, <2>1
  <2> QED
    BY <1>1, <2>2 DEF IInv, RowFormed, Selected, PurgeAt, Renewed, Untold
<1>7. entry' # NoEntry => entry' = entry /\ entry # NoEntry /\ now' < entry.dies /\ entry.dies \in Nat
  BY <1>0 DEF Tick, IInv, Typed, TypeOK, Entry
<1>8. ReadInTime'
  <2>1. EntryInTime'
    <3>1. entry' # NoEntry /\ entry'.kind = "none" => entry'.dies <= now' + NegTtl
      <4>1. NegTtl \in Nat
        BY TimesAssumption
      <4>2. entry' # NoEntry /\ entry.kind = "none" => entry.dies <= now + NegTtl
        BY <1>7 DEF IInv, ReadInTime, EntryInTime
      <4>3. entry' # NoEntry /\ entry.kind = "none" => entry.dies <= now' + NegTtl
        BY <1>0, <1>7, <4>1, <4>2
      <4> QED
        BY <1>7, <4>3
    <3> QED
      BY <1>7, <3>1 DEF IInv, ReadInTime, EntryInTime
  <2> QED
    BY <1>1, <2>1, SamePipe DEF IInv, ReadInTime, SetInTime
<1>9. AllCovered'
  <2>1. \A t : Covered(t)' <=> Covered(t)
    BY <1>1 DEF Covered, Untold
  <2>2. RemovalPending' <=> RemovalPending
    BY <1>1 DEF RemovalPending
  <2>3. \A rw : Active(rw)' <=> Active(rw)
    BY DEF Active
  <2>4. \A cmd \in OnTheWay' : CommandOk(cmd)'
    BY <1>1, <2>1, SamePipe DEF IInv, AllCovered, CommandOk, Reflects, Active
  <2>5. \A i \in Instances : LoadOk(i)'
    <3> SUFFICES ASSUME NEW i \in Instances, Loaded(i)' PROVE LoadOk(i)'
      BY DEF LoadOk
    <3> PICK load, rw, t : load = flight[i] /\ rw = load.row /\ t = load.born
      OBVIOUS
    <3>1. Loaded(i) /\ rw \in Row \cup {NoRow} /\ flight'[i] = load
      BY <1>1, LoadFields DEF Loaded, IInv, Typed
    <3>2. /\ Active(rw) => Reflects(rw, row) \/ Covered(t) \/ Expired(rw.e, now)
          /\ ~Active(rw) /\ Active(row) => t <= row.born \/ Covered(t)
      BY <3>1 DEF IInv, AllCovered, LoadOk
    <3>3. Active(rw) /\ Expired(rw.e, now) => Expired(rw.e, now')
      <4>1. Active(rw) => rw.e \in Nat \cup {Never}
        BY <3>1 DEF Active, Row
      <4> QED
        BY <1>0, <4>1 DEF Expired
    <3>4. Covered(flight[i].born)' <=> Covered(t)
      BY <1>1, <3>1 DEF Covered, Untold
    <3> QED
      BY <1>1, <3>1, <3>2, <3>3, <3>4 DEF LoadOk, Active, Reflects, Expired
  <2>6. \A w \in Writers : WriterOk(w)'
    BY <1>1 DEF IInv, AllCovered, WriterOk, Reflects, Covered, Untold
  <2>7. EntryOk'
    BY <1>1, <1>7, <2>2 DEF IInv, AllCovered, EntryOk, Reflects, Active
  <2> QED
    BY <2>4, <2>5, <2>6, <2>7 DEF AllCovered
<1> QED
  BY <1>4, <1>5, <1>6, <1>8, <1>9 DEF IInv

(***************************************************************************)
(* The statements.                                                         *)
(***************************************************************************)

LEMMA WritesDoes ==
    ASSUME IInv, NEW w \in Writers, NEW i \in Instances, NEW pc \in {"created", "written"},
           NEW rw \in Row, Writes(w, i, pc, rw)
    PROVE  /\ UNCHANGED <<now, entry, pipe, flight, timers, req, victim>> /\ row' = rw
           /\ Len(hist') = Len(hist) + 1 /\ Len(hist) \in Nat
           /\ wr'[w] = [pc |-> pc, at |-> i, row |-> rw, born |-> now] /\ wr[w].pc = "idle"
           /\ \A v \in Writers : v # w => wr'[v] = wr[v]
           /\ Timely' /\ OneDel'
<1> PICK writer : writer = [pc |-> pc, at |-> i, row |-> rw, born |-> now]
  OBVIOUS
<1>1. UNCHANGED <<now, entry, pipe, flight, timers, req, victim>> /\ row' = rw
  BY DEF Writes, Commit
<1>2. wr' = [wr EXCEPT ![w] = writer] /\ wr[w].pc = "idle"
  BY DEF Writes
<1>3. wr'[w] = writer /\ \A v \in Writers : v # w => wr'[v] = wr[v]
  BY <1>2 DEF IInv, Typed, TypeOK
<1>4. Len(hist') = Len(hist) + 1 /\ Len(hist) \in Nat
  <2> PICK new : new = [row |-> rw, at |-> now]
    OBVIOUS
  <2>1. hist' = Append(hist, new) /\ hist \in Seq([row : Row \cup {NoRow}, at : Nat])
    BY DEF Writes, Commit, IInv, Typed, TypeOK
  <2>2. new \in [row : Row \cup {NoRow}, at : Nat]
    BY DEF IInv, Typed, TypeOK
  <2> QED
    BY <2>1, <2>2, AppendProperties
<1>5. UnderWay(now) /\ writer.born = now /\ writer.pc # "deleting"
  BY TimesAssumption DEF UnderWay, IInv, Typed, TypeOK
<1>6. Timely'
  <2>1. \A v \in Writers : wr'[v].pc # "idle" => UnderWay(wr'[v].born)
    BY <1>3, <1>5 DEF IInv, Timely
  <2> QED
    BY <1>1, <2>1, SamePipe DEF IInv, Timely, UnderWay, Loaded
<1>7. OneDel'
  <2>1. \A v \in Writers : wr[v].pc = "deleting" => wr'[v].pc = "deleting"
    BY <1>2, <1>3
  <2> QED
    BY <1>1, <2>1, DelsSame DEF IInv
<1> QED
  BY <1>1, <1>2, <1>3, <1>4, <1>6, <1>7

(* An update or a delete: its DELs are still to come. *)
LEMMA ChangeKeeps ==
    ASSUME IInv, Typed', NEW w \in Writers, NEW i \in Instances, NEW rw \in Row, row \in Row,
           Writes(w, i, "written", rw), row # NoRow, rw.id = row.id, rw.born = row.born,
           rw.purge = PurgeAt(rw.e)
    PROVE  IInv'
<1>1. /\ UNCHANGED <<now, entry, pipe, flight, timers, req, victim>> /\ row' = rw
      /\ Len(hist') = Len(hist) + 1 /\ Len(hist) \in Nat
      /\ wr'[w] = [pc |-> "written", at |-> i, row |-> rw, born |-> now] /\ wr[w].pc = "idle"
      /\ \A v \in Writers : v # w => wr'[v] = wr[v]
      /\ Timely' /\ OneDel'
  BY WritesDoes
<1>2. wr'[w].pc = "written"
  BY <1>1
<1>3. Untold' /\ RemovalPending' /\ (\A t : Covered(t)') /\ \A t : Renewed(t)'
  BY <1>2 DEF Untold, RemovalPending, Covered, Renewed
<1>4. RowFormed'
  <2>1. rw.id \in Nat /\ row.id < Len(hist) /\ row.born <= now
    BY DEF Row, IInv, RowFormed
  <2>2. rw.id < Len(hist')
    BY <1>1, <2>1
  <2> QED
    BY <1>1, <2>1, <2>2 DEF RowFormed, PurgeAt
<1>5. Selected'
  <2>1. victim # Nobody => victim.id < Len(hist')
    BY <1>1, BornIsNat DEF IInv, Selected
  <2>2. Renewed(victim.born)'
    BY <1>3 DEF Renewed
  <2> QED
    BY <1>1, <2>1, <2>2 DEF Selected
<1>6. ReadInTime'
  <2>1. \A v \in Writers : wr'[v].pc = "created" => wr'[v] = wr[v]
    BY <1>1, <1>2
  <2> QED
    BY <1>1, <2>1, SamePipe DEF IInv, ReadInTime, EntryInTime, SetInTime
<1>7. AllCovered'
  BY <1>3 DEF AllCovered, CommandOk, LoadOk, WriterOk, EntryOk, Covered
<1> QED
  BY <1>1, <1>4, <1>5, <1>6, <1>7 DEF IInv

(* An INSERT: what is under way was read of an older row, or of none. *)
LEMMA CreateKeeps ==
    ASSUME IInv, Typed', NEW w \in Writers, NEW i \in Instances,
           NEW user \in Users, NEW e \in Expiries, Create(w, i, user, e)
    PROVE  IInv'
<1>0. now \in Nat /\ Latency \in Nat \ {0} /\ NegTtl \in Nat \ {0}
  BY TimesAssumption DEF IInv, Typed, TypeOK
<1> PICK ex, t, n : ex = ResolveExpiry(e, user) /\ t = now /\ n = Len(hist)
  OBVIOUS
<1>1. ex \in Nat \cup {Never} /\ t \in Nat /\ n \in Nat /\ user \in BOOLEAN /\ (ex # Never => t < ex)
  <2>1. t \in Nat /\ n \in Nat /\ user \in BOOLEAN
    BY SetsAssumption DEF IInv, Typed, TypeOK
  <2>2. e \in Nat \cup {Never} /\ Never \notin Nat /\ AnonymousMax \in Nat \ {0}
    BY ExpiriesAssumption, TimesAssumption
  <2>3. e # Never => t < e
    BY <2>1, <2>2 DEF Create, Expired
  <2>4. CASE user
    BY <2>1, <2>2, <2>3, <2>4 DEF ResolveExpiry
  <2>5. CASE ~user
    <3>1. ex = Capped(e)
      BY <2>5 DEF ResolveExpiry
    <3> QED
      BY <2>1, <2>2, <2>3, <3>1 DEF Capped
  <2> QED
    BY <2>1, <2>4, <2>5
<1> PICK rw : rw = [id |-> n, status |-> "active", user |-> user, e |-> ex,
                    purge |-> PurgeAt(ex), born |-> t]
  OBVIOUS
<1>2. rw \in Row
  BY <1>1, PurgeAtIs DEF Row
<1>3. Writes(w, i, "created", rw) /\ row = NoRow
  BY DEF Create
<1>4. /\ UNCHANGED <<now, entry, pipe, flight, timers, req, victim>> /\ row' = rw
      /\ Len(hist') = Len(hist) + 1 /\ Len(hist) \in Nat
      /\ wr'[w] = [pc |-> "created", at |-> i, row |-> rw, born |-> now] /\ wr[w].pc = "idle"
      /\ \A v \in Writers : v # w => wr'[v] = wr[v]
      /\ Timely' /\ OneDel'
  BY <1>2, <1>3, WritesDoes
<1>5. (Untold => Untold') /\ (RemovalPending => RemovalPending') /\ \A b : Covered(b) => Covered(b)'
  BY <1>4 DEF Untold, RemovalPending, Covered
<1>6. rw # NoRow /\ Active(rw) /\ rw.born = now /\ rw.id = Len(hist) /\ rw.purge = PurgeAt(rw.e) /\ rw.e = ex
  BY <1>2, AbsentAssumption DEF Active
<1>7. RowFormed'
  BY <1>0, <1>4, <1>6 DEF RowFormed, PurgeAt
<1>8. Selected'
  <2>1. victim # Nobody => victim.id \in Nat /\ victim.id < Len(hist)
    BY BornIsNat DEF IInv, Selected
  <2>2. victim # Nobody => victim.id < Len(hist') /\ rw.id # victim.id
    BY <1>4, <1>6, <2>1
  <2> QED
    BY <1>4, <2>2 DEF Selected
<1>9. ReadInTime'
  <2> PICK writer : writer = [pc |-> "created", at |-> i, row |-> rw, born |-> now]
    OBVIOUS
  <2>1. wr'[w] = writer /\ writer.row.e = ex /\ writer.born = t
    BY <1>4, <1>6
  <2>2. \A v \in Writers : wr'[v].pc = "created" /\ wr'[v].row.e # Never => wr'[v].born < wr'[v].row.e
    BY <1>1, <1>4, <2>1 DEF IInv, ReadInTime
  <2> QED
    BY <1>4, <2>2, SamePipe DEF IInv, ReadInTime, EntryInTime, SetInTime
<1>10. AllCovered'
  <2>1. OnTheWay' = OnTheWay /\ row' = rw /\ \A x : ~Reflects(x, row)
    BY <1>3, <1>4, SamePipe DEF Reflects
  <2>2. \A cmd \in OnTheWay : CommandOk(cmd)'
    <3> SUFFICES ASSUME NEW cmd \in OnTheWay PROVE CommandOk(cmd)'
      OBVIOUS
    <3>1. cmd.op = "set" => Covered(cmd.born)
      BY <2>1 DEF IInv, AllCovered, CommandOk
    <3>2. cmd.born <= now
      BY DEF IInv, Timely, UnderWay
    <3> QED
      BY <1>5, <1>6, <2>1, <3>1, <3>2 DEF CommandOk
  <2>3. \A j \in Instances : LoadOk(j)'
    <3> SUFFICES ASSUME NEW j \in Instances, Loaded(j)' PROVE LoadOk(j)'
      BY DEF LoadOk
    <3> PICK load, b : load = flight[j] /\ b = load.born
      OBVIOUS
    <3>1. Loaded(j) /\ flight'[j] = load /\ b <= now
      BY <1>4 DEF Loaded, IInv, Timely, UnderWay
    <3>2. Active(load.row) => Covered(b) \/ Expired(load.row.e, now)
      BY <2>1, <3>1 DEF IInv, AllCovered, LoadOk
    <3>3. Covered(b) => Covered(flight[j].born)'
      BY <1>4, <3>1 DEF Covered, Untold
    <3> QED
      BY <1>4, <1>6, <2>1, <3>1, <3>2, <3>3 DEF LoadOk, Active, Expired
  <2>4. \A v \in Writers : WriterOk(v)'
    <3> SUFFICES ASSUME NEW v \in Writers, wr'[v].pc = "created" PROVE WriterOk(v)'
      BY DEF WriterOk
    <3>1. CASE v = w
      <4> PICK writer : writer = [pc |-> "created", at |-> i, row |-> rw, born |-> now]
        OBVIOUS
      <4>1. wr'[w] = writer /\ writer.row = rw
        BY <1>4
      <4>2. Reflects(wr'[v].row, row')
        BY <1>6, <2>1, <3>1, <4>1 DEF Reflects, Active
      <4> QED
        BY <4>2 DEF WriterOk
    <3>2. CASE v # w
      <4> PICK writer, b : writer = wr[v] /\ b = writer.born
        OBVIOUS
      <4>1. wr'[v] = writer /\ Covered(b)
        BY <1>4, <2>1, <3>2 DEF IInv, AllCovered, WriterOk
      <4>2. Covered(wr[v].born)' <=> Covered(b)'
        BY <4>1 DEF Covered
      <4> QED
        BY <1>5, <4>1, <4>2 DEF WriterOk
    <3> QED
      BY <3>1, <3>2
  <2>5. EntryOk'
    <3>1. entry # NoEntry /\ entry.kind = "url" => RemovalPending
      BY <2>1 DEF IInv, AllCovered, EntryOk
    <3>2. entry # NoEntry => entry.dies \in Nat
      BY DEF IInv, Typed, TypeOK, Entry
    <3>3. entry # NoEntry /\ entry.kind = "none" => entry.dies <= now + NegTtl
      BY DEF IInv, ReadInTime, EntryInTime
    <3>4. entry # NoEntry /\ entry.kind = "none" => entry.dies <= rw.born + Latency + NegTtl
      BY <1>0, <1>6, <3>2, <3>3
    <3> QED
      BY <1>4, <1>5, <3>1, <3>4 DEF EntryOk
  <2> QED
    BY <2>1, <2>2, <2>3, <2>4, <2>5 DEF AllCovered
<1> QED
  BY <1>4, <1>7, <1>8, <1>9, <1>10 DEF IInv

LEMMA ChangesKeep ==
    ASSUME IInv, Typed', NEW w \in Writers, NEW i \in Instances,
           \/ \E s \in {"active", "disabled"} : UpdateStatus(w, i, s)
           \/ \E e \in Expiries : UpdateExpiry(w, i, e)
           \/ Delete(w, i)
    PROVE  IInv'
<1>0. row \in Row /\ row # NoRow /\ row.purge = PurgeAt(row.e)
  <2>1. Owned
    BY DEF UpdateStatus, UpdateExpiry, Delete
  <2> QED
    BY <2>1 DEF Owned, IInv, Typed, TypeOK, RowFormed
<1>1. ASSUME NEW s \in {"active", "disabled"}, UpdateStatus(w, i, s) PROVE IInv'
  <2> PICK rw : rw = [row EXCEPT !.status = s]
    OBVIOUS
  <2>1. rw \in Row /\ rw.id = row.id /\ rw.born = row.born /\ rw.e = row.e /\ rw.purge = row.purge
    BY <1>0 DEF Row
  <2>2. Writes(w, i, "written", rw)
    BY <1>1 DEF UpdateStatus
  <2> QED
    BY <1>0, <2>1, <2>2, ChangeKeeps
<1>2. ASSUME NEW e \in Expiries, UpdateExpiry(w, i, e) PROVE IInv'
  <2> PICK p : p = PurgeAt(e)
    OBVIOUS
  <2>1. p \in Nat \cup {Never} /\ e \in Nat \cup {Never}
    BY PurgeAtIs, ExpiriesAssumption
  <2> PICK rw : rw = [row EXCEPT !.e = e, !.purge = p]
    OBVIOUS
  <2>2. rw \in Row /\ rw.id = row.id /\ rw.born = row.born /\ rw.e = e /\ rw.purge = p
    BY <1>0, <2>1 DEF Row
  <2>3. Writes(w, i, "written", rw)
    BY <1>2 DEF UpdateExpiry
  <2> QED
    BY <1>0, <2>2, <2>3, ChangeKeeps
<1>3. CASE Delete(w, i)
  <2> PICK p, t : p = PurgeAt(now) /\ t = now
    OBVIOUS
  <2>1. t \in Nat
    BY DEF IInv, Typed, TypeOK
  <2>2. p \in Nat \cup {Never} /\ p = PurgeAt(t)
    BY <2>1, PurgeAtIs
  <2> PICK rw : rw = [row EXCEPT !.status = "deleted", !.e = t, !.purge = p]
    OBVIOUS
  <2>3. rw \in Row /\ rw.id = row.id /\ rw.born = row.born /\ rw.e = t /\ rw.purge = p
    BY <1>0, <2>1, <2>2 DEF Row
  <2>4. Writes(w, i, "written", rw)
    BY <1>3 DEF Delete
  <2> QED
    BY <1>0, <2>2, <2>3, <2>4, ChangeKeeps
<1> QED
  BY <1>1, <1>2, <1>3

LEMMA IInvInit == Init => IInv
<1> SUFFICES ASSUME Init PROVE IInv
  OBVIOUS
<1>1. Typed
  BY TypeInit
<1>2. OnTheWay = {} /\ (\A C : AtMostOne(C)) /\ \A i \in Instances : ~Loaded(i)
  BY DEF Init, OnTheWay, AtMostOne, Loaded
<1>3. Len(hist) = 1 /\ now = 0
  BY DEF Init
<1>4. RowFormed
  BY <1>3 DEF Init, RowFormed, OldRow, PurgeAt
<1>5. Timely /\ OneDel /\ Selected /\ ReadInTime /\ AllCovered
  BY <1>2 DEF Init, Timely, OneDel, Selected, ReadInTime, EntryInTime, AllCovered, LoadOk, WriterOk, EntryOk
<1> QED
  BY <1>1, <1>4, <1>5 DEF IInv

LEMMA IInvNext ==
    ASSUME IInv, Spaced, NoneLost, [Next]_vars
    PROVE  IInv'
<1>0. Typed'
  BY TypeStep, NothingSkipped DEF IInv
<1>1. CASE Redirecting
  BY <1>0, <1>1, ArriveKeeps, RunGetKeeps, LoadReadKeeps, LoadDoneKeeps DEF Redirecting
<1>2. CASE Writing
  BY <1>0, <1>2, CreateKeeps, ChangesKeep, WriteThroughKeeps, InvalidateKeeps, DelTimesOutKeeps,
     RunWriteKeeps, SecondDelKeeps, PurgeSelectKeeps, PurgeDeleteKeeps DEF Writing
<1>3. CASE Environment
  BY <1>0, <1>3, TickKeeps, EvictKeeps, GetTimesOutKeeps, NothingSkipped DEF Environment
<1>4. CASE UNCHANGED vars
  <2>1. LoadsFollow
    BY <1>4 DEF vars, LoadsFollow, Loaded
  <2> QED
    BY <1>0, <1>4, <2>1, SilentStep DEF vars
<1> QED
  BY <1>1, <1>2, <1>3, <1>4 DEF Next

LEMMA IInvImplies ==
    ASSUME IInv
    PROVE  StaleIsDoomed
<1>1. entry # NoEntry => now < entry.dies /\ entry.dies \in Nat /\ now \in Nat
  BY DEF IInv, ReadInTime, EntryInTime, Typed, TypeOK, Entry
<1>2. Active(row) => row.born \in Nat
  BY DEF Active, IInv, Typed, TypeOK, Row
<1>3. entry # NoEntry /\ entry.kind = "none" /\ Active(row) =>
         RemovalPending \/ entry.dies <= row.born + Latency + NegTtl
  BY DEF IInv, AllCovered, EntryOk
<1>4. entry # NoEntry /\ entry.kind = "none" /\ Active(row) =>
         RemovalPending \/ now < row.born + Latency + NegTtl
  BY <1>1, <1>2, <1>3, TimesAssumption
<1> QED
  BY <1>4 DEF StaleIsDoomed, IInv, AllCovered, EntryOk, Active

(* While no command is lost, a value in the cache that differs from its row    *)
(* will be removed: whichever load read the old row, whenever its SET lands,   *)
(* however many instances redirect, create, change, delete and purge.          *)
THEOREM StaleValuesAreDoomed ==
    ASSUME Spaced, NoneLost
    PROVE  Spec => []StaleIsDoomed
<1>1. IInv /\ [Next]_vars => IInv'
  BY IInvNext
<1>2. Spec => []IInv
  BY <1>1, IInvInit, PTL DEF Spec
<1> QED
  BY <1>2, IInvImplies, PTL

--------------------------------------------------------------------------------
(***************************************************************************)
(* StalenessWithinTtl and NoOldTarget, whatever is skipped, lost or dies.  *)
(* DELs do not help then; that a value has an end does.  What is in Redis  *)
(* or on its way was the link's at a known time (LinkSince, GoneSince),    *)
(* and the value does not live much longer than a TTL from then.  And a    *)
(* row is not purged before the values that name it are gone (Target).     *)
(***************************************************************************)

(* A value lives shorter than the grace, and a link that its owner may still *)
(* change has no expiry.                                                     *)
Lasting == UrlTtl + Latency <= Grace /\ Expiries = {Never}

(* Version k of the link was current at the time t, or became it later. *)
Since(k, t) == k = Len(hist) \/ hist[k + 1].at >= t

RowSince(rw, t) == \E k \in DOMAIN hist : Since(k, t) /\ hist[k].row = rw
LinkSince(id, e, t) ==
    \E k \in DOMAIN hist : /\ Since(k, t) /\ Active(hist[k].row)
                           /\ hist[k].row.id = id /\ hist[k].row.e = e
GoneSince(t) == \E k \in DOMAIN hist : Since(k, t) /\ ~Active(hist[k].row)

(* The row with this id is there until t. *)
Target(id, t) == row # NoRow /\ row.id = id /\ (row.purge = Never \/ t <= row.purge)

(* What was read at the time t is in Redis at t + Latency, or not at all. *)
Ends(t) == t + Latency + UrlTtl

CommandFine(cmd) ==
    /\ UnderWay(cmd.born)
    /\ cmd.op = "set" => /\ cmd.ttl <= UrlTtl /\ LinkSince(cmd.id, cmd.e, cmd.born)
                         /\ Lasting => Target(cmd.id, Ends(cmd.born))
    /\ cmd.op = "neg" => GoneSince(cmd.born)
LoadFine(load) ==
    /\ UnderWay(load.born) /\ RowSince(load.row, load.born)
    /\ Lasting /\ Active(load.row) /\ ~Expired(load.row.e, now) => Target(load.row.id, Ends(load.born))
WriterFine(x) ==
    /\ UnderWay(x.born) /\ LinkSince(x.row.id, x.row.e, x.born)
    /\ Lasting => Target(x.row.id, Ends(x.born))
EntryFine(en) ==
    /\ now < en.dies
    /\ en.kind = "url" => /\ en.dies <= now + UrlTtl
                          /\ LinkSince(en.id, en.e, en.dies - Latency - UrlTtl)
                          /\ Lasting => Target(en.id, en.dies)
    /\ en.kind = "none" => en.dies <= now + NegTtl /\ GoneSince(en.dies - Latency - NegTtl)

(* The row is the last version; who owns it has not let it expire, and a row *)
(* that was selected for the purge is nobody's to change.                    *)
RowFine ==
    /\ Len(hist) >= 1 /\ hist[Len(hist)].row = row
    /\ row # NoRow => row.purge = PurgeAt(row.e) /\ row.id < Len(hist)
    /\ victim # Nobody => victim.id < Len(hist) /\ victim.born <= now
    /\ Lasting => /\ Owned => row.purge = Never
                  /\ victim # Nobody /\ row # NoRow /\ row.id = victim.id =>
                        row.purge # Never /\ row.purge < victim.born

AllFine ==
    /\ \A cmd \in OnTheWay : CommandFine(cmd)
    /\ \A i \in Instances : Loaded(i) => LoadFine(flight[i])
    /\ \A w \in Writers : wr[w].pc = "created" => WriterFine(wr[w])
    /\ entry # NoEntry => EntryFine(entry)
    /\ \A r \in Requests : req[r].pc # "idle" => req[r].since <= now

FInv == Typed /\ Home /\ RowFine /\ AllFine

LEMMA HistoryIs ==
    ASSUME TypeOK
    PROVE  /\ Len(hist) \in Nat /\ DOMAIN hist = 1..Len(hist) /\ now \in Nat
           /\ \A k \in DOMAIN hist : hist[k].at \in Nat /\ hist[k].row \in Row \cup {NoRow}
<1> PICK S : S = [row : Row \cup {NoRow}, at : Nat]
  OBVIOUS
<1>1. hist \in Seq(S)
  BY DEF TypeOK
<1>2. \A k \in DOMAIN hist : hist[k] \in S
  <2> PICK seq : seq = hist
    OBVIOUS
  <2>1. seq \in Seq(S) /\ DOMAIN seq = 1..Len(seq)
    BY <1>1
  <2>2. \A k \in 1..Len(seq) : seq[k] \in S
    BY <2>1, ElementOfSeq
  <2> QED
    BY <2>1, <2>2
<1> QED
  BY <1>1, <1>2 DEF TypeOK

LEMMA SinceEarlier ==
    ASSUME TypeOK, NEW k \in DOMAIN hist, NEW t \in Int, NEW u \in Int, u <= t, Since(k, t)
    PROVE  Since(k, u)
<1>1. k \in 1..Len(hist) /\ Len(hist) \in Nat
  BY HistoryIs
<1>2. k # Len(hist) => hist[k + 1].at \in Nat
  BY <1>1, HistoryIs
<1> QED
  BY <1>2 DEF Since

(* What is read now. *)
LEMMA ReadNow ==
    ASSUME FInv
    PROVE  /\ UnderWay(now)
           /\ RowSince(row, now)
           /\ Active(row) => LinkSince(row.id, row.e, now)
           /\ ~Active(row) => GoneSince(now)
<1>1. Len(hist) \in DOMAIN hist /\ hist[Len(hist)].row = row
  BY HistoryIs DEF FInv, Typed, RowFine
<1>2. UnderWay(now)
  BY HistoryIs, TimesAssumption DEF UnderWay, FInv, Typed
<1> QED
  BY <1>1, <1>2 DEF RowSince, LinkSince, GoneSince, Since

LEMMA LoadNow ==
    ASSUME FInv, NEW load, load.row = row, load.born = now
    PROVE  LoadFine(load)
<1>1. UnderWay(load.born) /\ RowSince(load.row, load.born)
  BY ReadNow
<1>2. ASSUME Lasting, Active(row), ~Expired(row.e, now) PROVE Target(row.id, Ends(now))
  <2>1. row # NoRow /\ row \in Row /\ row.purge = PurgeAt(row.e)
    BY <1>2 DEF Active, FInv, Typed, TypeOK, RowFine
  <2> PICK e, t, p : e = row.e /\ t = now /\ p = row.purge
    OBVIOUS
  <2>2. e \in Nat \cup {Never} /\ t \in Nat /\ p = PurgeAt(e)
    BY <2>1 DEF Row, FInv, Typed, TypeOK
  <2>3. e = Never => p = Never
    BY <2>2 DEF PurgeAt
  <2>4. e # Never => p = e + Grace /\ t < e /\ e \in Nat
    BY <1>2, <2>2 DEF PurgeAt, Expired
  <2>5. UrlTtl + Latency <= Grace /\ {UrlTtl, Latency, Grace} \subseteq Nat
    BY <1>2, TimesAssumption DEF Lasting
  <2>6. e # Never => t + Latency + UrlTtl <= p
    BY <2>2, <2>4, <2>5
  <2> QED
    BY <2>1, <2>3, <2>6 DEF Target, Ends
<1> QED
  BY <1>1, <1>2 DEF LoadFine

(* A step that commits nothing, and takes no time: what is new is read now. *)
LEMMA QuietFine ==
    ASSUME FInv, Typed', Home', UNCHANGED <<now, row, hist>>, victim' \in {victim, Nobody},
           \A cmd \in OnTheWay' : cmd \in OnTheWay \/ CommandFine(cmd),
           LoadsFollow,
           \A w \in Writers : wr'[w].pc = "created" => wr'[w] = wr[w],
           entry' \in {entry, NoEntry} \/ EntryFine(entry'),
           \A r \in Requests : req'[r].pc # "idle" =>
              \/ req[r].pc # "idle" /\ req'[r].since = req[r].since
              \/ req'[r].since <= now
    PROVE  FInv'
<1>1. \A t : UnderWay(t)' <=> UnderWay(t)
  BY DEF UnderWay
<1>2. \A rw, t : RowSince(rw, t)' <=> RowSince(rw, t)
  BY DEF RowSince, Since
<1>3. \A id, e, t : LinkSince(id, e, t)' <=> LinkSince(id, e, t)
  BY DEF LinkSince, Since, Active
<1>4. \A t : GoneSince(t)' <=> GoneSince(t)
  BY DEF GoneSince, Since, Active
<1>5. \A id, t : Target(id, t)' <=> Target(id, t)
  BY DEF Target
<1>6. \A cmd : CommandFine(cmd)' <=> CommandFine(cmd)
  BY <1>1, <1>3, <1>4, <1>5 DEF CommandFine, Ends
<1>7. \A load : LoadFine(load)' <=> LoadFine(load)
  BY <1>1, <1>2, <1>5 DEF LoadFine, Ends, Active, Expired
<1>8. \A x : WriterFine(x)' <=> WriterFine(x)
  BY <1>1, <1>3, <1>5 DEF WriterFine, Ends
<1>9. \A en : EntryFine(en)' <=> EntryFine(en)
  BY <1>3, <1>4, <1>5 DEF EntryFine
<1>10. RowFine'
  BY DEF FInv, RowFine, Owned
<1>11. \A cmd \in OnTheWay' : CommandFine(cmd)'
  BY <1>6 DEF FInv, AllFine
<1>12. \A i \in Instances : Loaded(i)' => LoadFine(flight[i])'
  <2> SUFFICES ASSUME NEW i \in Instances, Loaded(i)' PROVE LoadFine(flight[i])'
    OBVIOUS
  <2> PICK load : load = flight'[i]
    OBVIOUS
  <2>1. LoadFine(load)
    BY LoadNow DEF FInv, AllFine, LoadsFollow
  <2>2. LoadFine(load)'
    BY <1>7, <2>1
  <2>3. LoadFine(load)' <=> LoadFine(flight[i])'
    BY DEF LoadFine, RowSince
  <2> QED
    BY <2>2, <2>3
<1>13. \A w \in Writers : wr'[w].pc = "created" => WriterFine(wr[w])'
  <2> SUFFICES ASSUME NEW w \in Writers, wr'[w].pc = "created" PROVE WriterFine(wr[w])'
    OBVIOUS
  <2> PICK x : x = wr'[w]
    OBVIOUS
  <2>1. WriterFine(x)
    BY DEF FInv, AllFine
  <2>2. WriterFine(x)'
    BY <1>8, <2>1
  <2>3. WriterFine(x)' <=> WriterFine(wr[w])'
    BY DEF WriterFine, LinkSince
  <2> QED
    BY <2>2, <2>3
<1>14. entry' # NoEntry => EntryFine(entry)'
  <2> SUFFICES ASSUME entry' # NoEntry PROVE EntryFine(entry)'
    OBVIOUS
  <2> PICK en : en = entry'
    OBVIOUS
  <2>1. EntryFine(en)
    BY DEF FInv, AllFine
  <2>2. EntryFine(en)'
    BY <1>9, <2>1
  <2>3. EntryFine(en)' <=> EntryFine(entry)'
    BY DEF EntryFine, LinkSince, GoneSince
  <2> QED
    BY <2>2, <2>3
<1>15. \A r \in Requests : req'[r].pc # "idle" => req'[r].since <= now'
  BY DEF FInv, AllFine
<1> QED
  BY <1>10, <1>11, <1>12, <1>13, <1>14, <1>15 DEF FInv, AllFine

LEMMA FineTypes ==
    ASSUME FInv
    PROVE  /\ PipesOk /\ TypeOK /\ now \in Nat /\ DOMAIN req = Requests
           /\ {Latency, UrlTtl, NegTtl, Grace} \subseteq Nat \ {0}
           /\ \A cmd \in OnTheWay : cmd \in Command /\ CommandFine(cmd)
BY CommandsFormed, TimesAssumption DEF FInv, Typed, TypeOK, PipesOk, AllFine

(* Commands that carry nothing. *)
LEMMA GetOrDelFine ==
    ASSUME FInv, NEW cmd, cmd.op \in {"get", "del"}, UnderWay(cmd.born)
    PROVE  CommandFine(cmd)
BY DEF CommandFine

LEMMA SetFine ==
    ASSUME FInv, NEW rw \in Row, NEW t \in Nat, UnderWay(t), LinkSince(rw.id, rw.e, t),
           Lasting => Target(rw.id, Ends(t))
    PROVE  CommandFine(SetCommand(rw, t))
<1> PICK cmd : cmd = SetCommand(rw, t)
  OBVIOUS
<1>1. cmd.op = "set" /\ cmd.id = rw.id /\ cmd.e = rw.e /\ cmd.ttl = TtlFor(rw.e) /\ cmd.born = t
  BY DEF SetCommand
<1>2. rw.e \in Nat \cup {Never} /\ now \in Nat
  BY FineTypes DEF Row
<1>3. TtlFor(rw.e) <= UrlTtl
  BY <1>2, TtlIs
<1>4. CommandFine(cmd)
  BY <1>1, <1>3 DEF CommandFine
<1> QED
  BY <1>4

LEMMA MissAsks ==
    ASSUME FInv, NEW r \in Requests, NEW i, NEW q, q.since <= now, Miss(r, i, q),
           q \in [pc : {"get", "load"}, at : Instances, since : Nat]
    PROVE  \A x \in Requests : req'[x].pc # "idle" =>
              \/ req[x].pc # "idle" /\ req'[x].since = req[x].since
              \/ req'[x].since <= now
<1> PICK load : load = [q EXCEPT !.pc = "load"]
  OBVIOUS
<1>1. load.since <= now
  OBVIOUS
<1>2. req' = [req EXCEPT ![r] = load]
  BY DEF Miss
<1> QED
  BY <1>1, <1>2, FineTypes

LEMMA ArriveFine ==
    ASSUME FInv, Typed', Home', NEW r \in Requests, NEW i \in Instances, Arrive(r, i)
    PROVE  FInv'
<1> PICK cmd, q : /\ cmd = [op |-> "get", r |-> r, born |-> now]
                  /\ q = [pc |-> "get", at |-> i, since |-> now]
  OBVIOUS
<1>1. cmd \in Command /\ CommandFine(cmd)
  BY FineTypes, ReadNow, GetOrDelFine DEF Command
<1>2. q.since <= now /\ q \in [pc : {"get", "load"}, at : Instances, since : Nat]
  BY FineTypes
<1>3. CASE Sent(i, cmd) /\ req' = [req EXCEPT ![r] = q] /\ UNCHANGED flight
  <2>1. OnTheWay' \subseteq OnTheWay \cup {cmd}
    BY <1>1, <1>3, FineTypes, AppendDoes
  <2>2. \A x \in Requests : req'[x].pc # "idle" =>
              \/ req[x].pc # "idle" /\ req'[x].since = req[x].since
              \/ req'[x].since <= now
    BY <1>2, <1>3, FineTypes
  <2>3. LoadsFollow
    BY <1>3 DEF LoadsFollow, Loaded
  <2> QED
    BY <1>1, <2>1, <2>2, <2>3, QuietFine DEF Arrive
<1>4. CASE UNCHANGED pipe /\ Miss(r, i, q)
  <2>1. OnTheWay' = OnTheWay
    BY <1>4, SamePipe
  <2>2. LoadsFollow
    BY <1>4, MissLoads DEF FInv
  <2> QED
    BY <1>2, <1>4, <2>1, <2>2, MissAsks, QuietFine DEF Arrive
<1> QED
  BY <1>3, <1>4 DEF Arrive, Skipped

LEMMA GetFine ==
    ASSUME FInv, Typed', Home', NEW i \in Instances, NEW k, Leaves(i, k), NEW r \in Requests,
           req[r].pc = "get", UNCHANGED <<now, row, entry, timers, wr, victim, hist>>,
           \/ Miss(r, i, req[r])
           \/ req' = [req EXCEPT ![r] = [pc |-> "idle"]] /\ UNCHANGED flight
    PROVE  FInv'
<1>1. OnTheWay' \subseteq OnTheWay
  BY DEF Leaves
<1>2. CASE Miss(r, i, req[r])
  <2>1. LoadsFollow
    BY <1>2, MissLoads DEF FInv
  <2> PICK q : q = req[r]
    OBVIOUS
  <2>2. q.since <= now /\ q \in [pc : {"get", "load"}, at : Instances, since : Nat]
    BY DEF FInv, AllFine, Typed, TypeOK
  <2> QED
    BY <1>1, <1>2, <2>1, <2>2, MissAsks, QuietFine
<1>3. CASE req' = [req EXCEPT ![r] = [pc |-> "idle"]] /\ UNCHANGED flight
  <2>1. LoadsFollow
    BY <1>3 DEF LoadsFollow, Loaded
  <2>2. \A x \in Requests : req'[x].pc # "idle" => req'[x] = req[x]
    BY <1>3, FineTypes
  <2> QED
    BY <1>1, <2>1, <2>2, QuietFine
<1> QED
  BY <1>2, <1>3

(* Whoever waits for the answer to a GET. *)
LEMMA Asker ==
    ASSUME FInv, NEW i \in Instances, NEW k \in DOMAIN pipe[i], pipe[i][k].op = "get"
    PROVE  pipe[i][k].r \in Requests /\ req[pipe[i][k].r].pc = "get" /\ req[pipe[i][k].r].at = i
<1> PICK cmd : cmd = pipe[i][k]
  OBVIOUS
<1>1. cmd \in OnTheWay /\ cmd \in Command /\ cmd.op = "get"
  BY FineTypes DEF OnTheWay
<1>2. cmd.r \in Requests /\ cmd \in Gets(cmd.r)
  BY <1>1, CommandFields DEF Gets
<1> QED
  BY <1>1, <1>2 DEF FInv, Typed, OneGet, Home

LEMMA RunGetFine ==
    ASSUME FInv, Typed', Home', NEW i \in Instances, RunGet(i)
    PROVE  FInv'
<1>1. Leaves(i, 1) /\ Head(pipe[i]) = pipe[i][1] /\ 1 \in DOMAIN pipe[i]
  BY FineTypes, PopDoes DEF RunGet, Leaves
<1> PICK r : r = Head(pipe[i]).r
  OBVIOUS
<1>2. r \in Requests /\ req[r].pc = "get"
  BY <1>1, Asker DEF RunGet
<1>3. \/ Miss(r, i, req[r])
      \/ req' = [req EXCEPT ![r] = [pc |-> "idle"]] /\ UNCHANGED flight
  BY DEF RunGet, Got
<1> QED
  BY <1>1, <1>2, <1>3, GetFine DEF RunGet

LEMMA GetTimesOutFine ==
    ASSUME FInv, Typed', Home', NEW r \in Requests, GetTimesOut(r)
    PROVE  FInv'
<1> PICK i : i = req[r].at
  OBVIOUS
<1>1. i \in Instances
  BY DEF FInv, Typed, TypeOK, GetTimesOut
<1>2. PICK k \in DOMAIN pipe[i] : pipe' = [pipe EXCEPT ![i] = Without(@, k)]
  BY DEF GetTimesOut
<1>3. Leaves(i, k)
  BY <1>1, <1>2, WithoutDoes, FineTypes
<1> QED
  BY <1>1, <1>3, GetFine DEF GetTimesOut

LEMMA EndLoadFine ==
    ASSUME FInv, Typed', Home', NEW i \in Instances, EndLoad(i),
           UNCHANGED <<now, row, entry, wr, victim, hist>>,
           \A cmd \in OnTheWay' : cmd \in OnTheWay \/ CommandFine(cmd)
    PROVE  FInv'
<1>1. LoadsFollow
  BY EndLoadLoads DEF FInv
<1>2. \A x \in Requests : req'[x] = req[x] \/ req'[x].pc = "idle"
  BY DEF EndLoad
<1> QED
  BY <1>1, <1>2, QuietFine

LEMMA LoadReadFine ==
    ASSUME FInv, Typed', Home', NEW i \in Instances, LoadRead(i)
    PROVE  FInv'
<1> PICK load : load = [phase |-> "result", row |-> row, born |-> now]
  OBVIOUS
<1>1. flight' = [flight EXCEPT ![i] = load] /\ load.row = row /\ load.born = now
  BY DEF LoadRead
<1>2. LoadsFollow
  BY <1>1 DEF LoadsFollow, Loaded, FInv, Typed, TypeOK
<1> QED
  BY <1>2, SamePipe, QuietFine DEF LoadRead

LEMMA LoadDoneFine ==
    ASSUME FInv, Typed', Home', NEW i \in Instances, LoadDone(i)
    PROVE  FInv'
<1> PICK load, rw, t : load = flight[i] /\ rw = load.row /\ t = load.born
  OBVIOUS
<1>1. Loaded(i) /\ t \in Nat /\ rw \in Row \cup {NoRow}
  BY LoadFields DEF LoadDone, Loaded, FInv, Typed
<1>2. /\ UnderWay(t) /\ RowSince(rw, t)
      /\ Lasting /\ Active(rw) /\ ~Expired(rw.e, now) => Target(rw.id, Ends(t))
  BY <1>1 DEF FInv, AllFine, LoadFine
<1>3. EndLoad(i) /\ UNCHANGED <<now, row, entry, wr, victim, hist>>
  BY DEF LoadDone
<1>4. CASE Resolve(rw).kind = "not_found"
  <2> PICK cmd : cmd = [op |-> "neg", born |-> t]
    OBVIOUS
  <2>1. cmd \in Command /\ Send(i, cmd)
    BY <1>1, <1>4 DEF Command, LoadDone
  <2>2. GoneSince(t)
    BY <1>2, <1>4 DEF RowSince, GoneSince, Resolve, Evaluate, Active
  <2>3. CommandFine(cmd)
    BY <1>2, <2>2 DEF CommandFine
  <2> QED
    BY <1>3, <2>1, <2>3, FineTypes, SendDoes, EndLoadFine
<1>5. CASE Resolve(rw).kind = "found"
  <2>1. Active(rw) /\ ~Expired(rw.e, now) /\ rw \in Row
    BY <1>1, <1>5 DEF Resolve, Evaluate, Active, NotFound
  <2>2. SetCommand(rw, t) \in Command /\ Send(i, SetCommand(rw, t))
    BY <1>1, <1>5, <2>1, SetFormed, FineTypes DEF LoadDone
  <2>3. LinkSince(rw.id, rw.e, t)
    BY <1>2, <2>1 DEF RowSince, LinkSince
  <2>4. CommandFine(SetCommand(rw, t))
    BY <1>1, <1>2, <2>1, <2>3, SetFine
  <2> QED
    BY <1>3, <2>2, <2>4, FineTypes, SendDoes, EndLoadFine
<1>6. CASE Resolve(rw).kind = "expired"
  <2>1. UNCHANGED pipe
    BY <1>6 DEF LoadDone
  <2> QED
    BY <1>3, <2>1, SamePipe, EndLoadFine
<1>7. Resolve(rw).kind \in {"not_found", "found", "expired"}
  BY DEF Resolve, NotFound, Evaluate
<1> QED
  BY <1>4, <1>5, <1>6, <1>7

LEMMA LoadFailsFine ==
    ASSUME FInv, Typed', Home', NEW i \in Instances, LoadFails(i)
    PROVE  FInv'
BY SamePipe, EndLoadFine DEF LoadFails

(* A step of a writer or a timer, and what happens to commands: requests and *)
(* loads go on as they are.                                                  *)
LEMMA WriterStepFine ==
    ASSUME FInv, Typed', Home', UNCHANGED <<now, row, hist, victim, req, flight>>,
           \A cmd \in OnTheWay' : cmd \in OnTheWay \/ CommandFine(cmd),
           \A w \in Writers : wr'[w].pc = "created" => wr'[w] = wr[w],
           entry' \in {entry, NoEntry} \/ EntryFine(entry')
    PROVE  FInv'
<1>1. LoadsFollow
  BY DEF LoadsFollow, Loaded
<1> QED
  BY <1>1, QuietFine

LEMMA WriteThroughFine ==
    ASSUME FInv, Typed', Home', NEW w \in Writers, WriteThrough(w)
    PROVE  FInv'
<1> PICK i, rw, t : i = wr[w].at /\ rw = wr[w].row /\ t = wr[w].born
  OBVIOUS
<1>1. i \in Instances /\ rw \in Row /\ t \in Nat /\ Send(i, SetCommand(rw, t))
  BY FineTypes, WriterFields DEF WriteThrough
<1>2. UnderWay(t) /\ LinkSince(rw.id, rw.e, t) /\ (Lasting => Target(rw.id, Ends(t)))
  BY DEF WriteThrough, FInv, AllFine, WriterFine
<1>3. CommandFine(SetCommand(rw, t)) /\ SetCommand(rw, t) \in Command
  BY <1>1, <1>2, SetFine, SetFormed, FineTypes
<1>4. \A v \in Writers : wr'[v].pc = "created" => wr'[v] = wr[v]
  BY DEF WriteThrough, FInv, Typed, TypeOK
<1> QED
  BY <1>1, <1>3, <1>4, FineTypes, SendDoes, WriterStepFine DEF WriteThrough

LEMMA InvalidateFine ==
    ASSUME FInv, Typed', Home', NEW w \in Writers, Invalidate(w)
    PROVE  FInv'
<1> PICK cmd, i : cmd = [op |-> "del", w |-> w, born |-> now] /\ i = wr[w].at
  OBVIOUS
<1>1. i \in Instances /\ cmd \in Command /\ CommandFine(cmd)
  BY FineTypes, WriterFields, ReadNow, GetOrDelFine DEF Invalidate, Command
<1>2. Send(i, cmd)
  BY DEF Invalidate, Send
<1>3. \A v \in Writers : wr'[v].pc = "created" => wr'[v] = wr[v]
  <2> PICK deleting : deleting = [wr[w] EXCEPT !.pc = "deleting"]
    OBVIOUS
  <2>1. deleting.pc = "deleting"
    <3>1. wr[w] \in Writer /\ wr[w].pc = "written"
      BY DEF Invalidate, FInv, Typed, TypeOK, Writer
    <3> QED
      BY <3>1 DEF Writer
  <2>2. wr' = [wr EXCEPT ![w] = deleting] \/ wr' = [wr EXCEPT ![w] = [pc |-> "idle"]]
    BY DEF Invalidate
  <2> QED
    BY <2>1, <2>2 DEF FInv, Typed, TypeOK
<1> QED
  BY <1>1, <1>2, <1>3, FineTypes, SendDoes, WriterStepFine DEF Invalidate

LEMMA SecondDelFine ==
    ASSUME FInv, Typed', Home', NEW i \in Instances, NEW t \in timers[i], SecondDel(i, t)
    PROVE  FInv'
<1> PICK cmd : cmd = [op |-> "del", w |-> Nobody, born |-> now]
  OBVIOUS
<1>1. cmd \in Command /\ CommandFine(cmd) /\ Send(i, cmd)
  BY FineTypes, ReadNow, GetOrDelFine DEF SecondDel, Command
<1> QED
  BY <1>1, FineTypes, SendDoes, WriterStepFine DEF SecondDel

LEMMA DelTimesOutFine ==
    ASSUME FInv, Typed', Home', NEW w \in Writers, DelTimesOut(w)
    PROVE  FInv'
<1>1. \A cmd \in OnTheWay' : cmd \in OnTheWay \/ CommandFine(cmd)
  <2> SUFFICES ASSUME NEW i \in Instances, NEW k \in DOMAIN pipe'[i]
               PROVE  pipe'[i][k] \in OnTheWay \/ CommandFine(pipe'[i][k])
    BY DEF OnTheWay
  <2> PICK old, new : old = pipe[i][k] /\ new = pipe'[i][k]
    OBVIOUS
  <2>1. k \in DOMAIN pipe[i] /\ (new = old \/ (new \in Dels(Nobody) /\ new.born = old.born))
    BY FineTypes, Relabels
  <2>2. old \in OnTheWay /\ UnderWay(old.born)
    BY <2>1, FineTypes DEF OnTheWay, CommandFine
  <2> QED
    BY <2>1, <2>2, GetOrDelFine DEF Dels
<1>2. \A v \in Writers : wr'[v].pc = "created" => wr'[v] = wr[v]
  BY DEF DelTimesOut, FInv, Typed, TypeOK
<1> QED
  BY <1>1, <1>2, WriterStepFine DEF DelTimesOut

LEMMA LoseFine ==
    ASSUME FInv, Typed', Home', NEW i \in Instances, Lose(i)
    PROVE  FInv'
<1>1. OnTheWay' \subseteq OnTheWay
  BY FineTypes, PopDoes DEF Lose, Leaves
<1> QED
  BY <1>1, WriterStepFine DEF Lose

LEMMA CrashFine ==
    ASSUME FInv, Typed', Home', NEW i \in Instances, Crash(i)
    PROVE  FInv'
<1>1. OnTheWay' \subseteq OnTheWay
  BY FineTypes, CrashDoes
<1>2. LoadsFollow
  BY DEF Crash, LoadsFollow, Loaded, FInv, Typed, TypeOK
<1>3. /\ \A r \in Requests : req'[r] = req[r] \/ req'[r].pc = "idle"
      /\ \A w \in Writers : wr'[w] = wr[w] \/ wr'[w].pc = "idle"
  BY DEF Crash
<1> QED
  BY <1>1, <1>2, <1>3, QuietFine DEF Crash

LEMMA EvictFine == ASSUME FInv, Typed', Home', Evict PROVE FInv'
BY SamePipe, WriterStepFine DEF Evict

LEMMA WrittenFine ==
    ASSUME FInv, NEW cmd \in Command, CommandFine(cmd), cmd.op # "get"
    PROVE  Written(cmd) = NoEntry \/ EntryFine(Written(cmd))
<1>0. {Latency, UrlTtl, NegTtl} \subseteq Nat \ {0} /\ now \in Nat /\ TypeOK
  BY FineTypes
<1> PICK b : b = cmd.born
  OBVIOUS
<1>1. b \in Nat /\ b <= now /\ now <= b + Latency
  BY CommandFields DEF CommandFine, UnderWay
<1>2. CASE cmd.op = "set"
  <2> PICK ttl, d : ttl = cmd.ttl /\ d = now + ttl
    OBVIOUS
  <2> PICK en : en = [kind |-> "url", id |-> cmd.id, e |-> cmd.e, dies |-> d]
    OBVIOUS
  <2>1. ttl \in Nat \ {0} /\ ttl <= UrlTtl
    BY <1>2, CommandFields DEF CommandFine
  <2>2. now < d /\ d <= now + UrlTtl /\ d <= Ends(b) /\ d - Latency - UrlTtl <= b /\ d \in Nat
    BY <1>0, <1>1, <2>1 DEF Ends
  <2>3. LinkSince(cmd.id, cmd.e, d - Latency - UrlTtl)
    <3>1. PICK k \in DOMAIN hist : /\ Since(k, b) /\ Active(hist[k].row)
                                   /\ hist[k].row.id = cmd.id /\ hist[k].row.e = cmd.e
      BY <1>2 DEF CommandFine, LinkSince
    <3> PICK u : u = d - Latency - UrlTtl
      OBVIOUS
    <3>2. u \in Int /\ b \in Int /\ u <= b
      BY <1>0, <1>1, <2>2
    <3>3. Since(k, u)
      BY <1>0, <3>1, <3>2, SinceEarlier
    <3> QED
      BY <3>1, <3>3 DEF LinkSince
  <2>4. Lasting => Target(cmd.id, d)
    <3> SUFFICES ASSUME Lasting PROVE Target(cmd.id, d)
      OBVIOUS
    <3> PICK p : p = row.purge
      OBVIOUS
    <3>1. row # NoRow /\ row.id = cmd.id /\ (p = Never \/ Ends(b) <= p)
      BY <1>2 DEF CommandFine, Target
    <3>2. p = Never \/ p \in Nat
      BY <1>0, <3>1 DEF TypeOK, Row
    <3>3. Ends(b) \in Nat
      BY <1>0, <1>1 DEF Ends
    <3>4. p = Never \/ d <= p
      BY <2>2, <3>1, <3>2, <3>3
    <3> QED
      BY <3>1, <3>4 DEF Target
  <2>5. en.kind = "url" /\ en.id = cmd.id /\ en.e = cmd.e /\ en.dies = d
    OBVIOUS
  <2>6. EntryFine(en)
    BY <2>2, <2>3, <2>4, <2>5 DEF EntryFine
  <2> QED
    BY <1>2, <2>6 DEF Written
<1>3. CASE cmd.op = "neg"
  <2> PICK d : d = now + NegTtl
    OBVIOUS
  <2> PICK en : en = [kind |-> "none", dies |-> d]
    OBVIOUS
  <2>1. now < d /\ d <= now + NegTtl /\ d - Latency - NegTtl <= b /\ d \in Nat
    BY <1>0, <1>1
  <2>2. GoneSince(d - Latency - NegTtl)
    <3>1. PICK k \in DOMAIN hist : Since(k, b) /\ ~Active(hist[k].row)
      BY <1>3 DEF CommandFine, GoneSince
    <3> PICK u : u = d - Latency - NegTtl
      OBVIOUS
    <3>2. u \in Int /\ b \in Int /\ u <= b
      BY <1>0, <1>1, <2>1
    <3>3. Since(k, u)
      BY <1>0, <3>1, <3>2, SinceEarlier
    <3> QED
      BY <3>1, <3>3 DEF GoneSince
  <2>3. en.kind = "none" /\ en.dies = d
    OBVIOUS
  <2>4. EntryFine(en)
    BY <2>1, <2>2, <2>3 DEF EntryFine
  <2> QED
    BY <1>3, <2>4 DEF Written
<1>4. CASE cmd.op = "del"
  BY <1>4 DEF Written
<1> QED
  BY <1>2, <1>3, <1>4, CommandFields

LEMMA RunWriteFine ==
    ASSUME FInv, Typed', Home', NEW i \in Instances, RunWrite(i)
    PROVE  FInv'
<1> PICK cmd : cmd = Head(pipe[i])
  OBVIOUS
<1>1. OnTheWay' \subseteq OnTheWay /\ cmd \in OnTheWay
  BY FineTypes, PopDoes DEF RunWrite, Leaves
<1>2. cmd \in Command /\ CommandFine(cmd) /\ cmd.op # "get" /\ entry' = Written(cmd)
  BY <1>1, FineTypes DEF RunWrite
<1>3. \A v \in Writers : wr'[v] = wr[v] \/ wr'[v].pc = "idle"
  <2> PICK w : w = cmd.w
    OBVIOUS
  <2>1. wr' = wr \/ wr' = [wr EXCEPT ![w] = [pc |-> "idle"]]
    BY DEF RunWrite
  <2> QED
    BY <2>1 DEF FInv, Typed, TypeOK
<1> QED
  BY <1>1, <1>2, <1>3, WrittenFine, WriterStepFine DEF RunWrite

LEMMA PurgeSelectFine ==
    ASSUME FInv, Typed', Home', PurgeSelect
    PROVE  FInv'
<1>1. RowFine'
  <2> PICK v : v = [id |-> row.id, born |-> now]
    OBVIOUS
  <2>1. victim' = v /\ v.id = row.id /\ v.born = now /\ UNCHANGED <<now, row, hist>>
    BY DEF PurgeSelect
  <2>2. row # NoRow /\ row.purge # Never /\ row.purge < now /\ now <= now
    BY FineTypes DEF PurgeSelect
  <2> QED
    BY <2>1, <2>2 DEF FInv, RowFine, Owned
<1>2. AllFine'
  <2>1. UNCHANGED <<now, row, entry, pipe, flight, req, wr, hist>> /\ OnTheWay' = OnTheWay
    BY SamePipe DEF PurgeSelect
  <2> QED
    BY <2>1 DEF FInv, AllFine, CommandFine, LoadFine, WriterFine, EntryFine, UnderWay, RowSince, LinkSince,
                GoneSince, Since, Target, Ends, Active, Expired, Loaded
<1> QED
  BY <1>1, <1>2 DEF FInv

(***************************************************************************)
(* A commit: what was current at a time that is past stays so, and a row   *)
(* that is to stay for a while does.                                       *)
(***************************************************************************)

LEMMA CommitDoes ==
    ASSUME TypeOK, NEW rw \in Row \cup {NoRow}, Commit(rw)
    PROVE  /\ row' = rw /\ Len(hist') = Len(hist) + 1 
           /\ hist'[Len(hist')].row = rw /\ hist'[Len(hist')].at = now
           /\ DOMAIN hist \subseteq DOMAIN hist' /\ Len(hist') \in DOMAIN hist'
           /\ \A k \in DOMAIN hist : hist'[k] = hist[k]
<1> PICK version, S : version = [row |-> rw, at |-> now] /\ S = [row : Row \cup {NoRow}, at : Nat]
  OBVIOUS
<1>1. row' = rw /\ hist' = Append(hist, version) /\ version \in S /\ hist \in Seq(S)
      /\ version.row = rw /\ version.at = now
  BY DEF Commit, TypeOK
<1> QED
  BY <1>1, AppendProperties

LEMMA CommitSince ==
    ASSUME TypeOK, NEW rw \in Row \cup {NoRow}, Commit(rw), now' = now, NEW t \in Int, t <= now,
           NEW k \in DOMAIN hist, Since(k, t)
    PROVE  k \in DOMAIN hist' /\ Since(k, t)' /\ hist'[k] = hist[k]
<1>1. /\ Len(hist') = Len(hist) + 1 /\ hist'[Len(hist')].at = now
      /\ k \in DOMAIN hist' /\ \A m \in DOMAIN hist : hist'[m] = hist[m]
  BY CommitDoes
<1>2. k \in 1..Len(hist) /\ Len(hist) \in Nat /\ now \in Nat
  BY HistoryIs
<1>3. CASE k = Len(hist)
  <2>1. hist'[k + 1].at >= t
    BY <1>1, <1>2, <1>3
  <2> QED
    BY <1>1, <1>2, <2>1 DEF Since
<1>4. CASE k # Len(hist)
  <2>1. k + 1 \in DOMAIN hist /\ hist[k + 1].at >= t
    BY <1>2, <1>4, HistoryIs DEF Since
  <2> QED
    BY <1>1, <2>1 DEF Since
<1> QED
  BY <1>3, <1>4

LEMMA CommitKeepsSince ==
    ASSUME TypeOK, NEW rw \in Row \cup {NoRow}, Commit(rw), now' = now, NEW t \in Int, t <= now
    PROVE  /\ \A x : RowSince(x, t) => RowSince(x, t)'
           /\ \A id, e : LinkSince(id, e, t) => LinkSince(id, e, t)'
           /\ GoneSince(t) => GoneSince(t)'
<1>1. \A k \in DOMAIN hist : Since(k, t) => k \in DOMAIN hist' /\ Since(k, t)' /\ hist'[k] = hist[k]
  BY CommitSince
<1>2. ASSUME NEW x, RowSince(x, t) PROVE RowSince(x, t)'
  BY <1>1, <1>2 DEF RowSince
<1>3. ASSUME NEW id, NEW e, LinkSince(id, e, t) PROVE LinkSince(id, e, t)'
  <2>1. PICK k \in DOMAIN hist : /\ Since(k, t) /\ Active(hist[k].row)
                                 /\ hist[k].row.id = id /\ hist[k].row.e = e
    BY <1>3 DEF LinkSince
  <2>2. k \in DOMAIN hist' /\ Since(k, t)' /\ hist'[k] = hist[k]
    BY <1>1, <2>1
  <2> QED
    BY <2>1, <2>2 DEF LinkSince, Active
<1>4. ASSUME GoneSince(t) PROVE GoneSince(t)'
  <2>1. PICK k \in DOMAIN hist : Since(k, t) /\ ~Active(hist[k].row)
    BY <1>4 DEF GoneSince
  <2>2. k \in DOMAIN hist' /\ Since(k, t)' /\ hist'[k] = hist[k]
    BY <1>1, <2>1
  <2> QED
    BY <2>1, <2>2 DEF GoneSince, Active
<1> QED
  BY <1>2, <1>3, <1>4

(* What a value in Redis, or on its way, needs of the row. *)
TargetsStay ==
    \A id : \A t \in Nat : now < t /\ t <= now + Grace /\ Target(id, t) => Target(id, t)'

LEMMA EndsSoon ==
    ASSUME FInv, Lasting, NEW t \in Nat, UnderWay(t)
    PROVE  Ends(t) \in Nat /\ now < Ends(t) /\ Ends(t) <= now + Grace
<1>1. {Latency, UrlTtl, Grace} \subseteq Nat \ {0} /\ now \in Nat /\ t <= now /\ now <= t + Latency
  BY FineTypes DEF UnderWay
<1>2. UrlTtl + Latency <= Grace
  BY DEF Lasting
<1> QED
  BY <1>1, <1>2 DEF Ends

LEMMA CommitFine ==
    ASSUME FInv, Typed', Home', NEW rw \in Row \cup {NoRow}, Commit(rw),
           UNCHANGED <<now, entry, pipe, flight, req>>, RowFine', Lasting => TargetsStay,
           \A w \in Writers : wr'[w].pc = "created" => wr'[w] = wr[w] \/ WriterFine(wr[w])'
    PROVE  FInv'
<1>0. TypeOK /\ now \in Nat /\ now' = now /\ {Latency, UrlTtl, NegTtl, Grace} \subseteq Nat \ {0}
  BY FineTypes
<1>1. ASSUME NEW t \in Int, t <= now
      PROVE  /\ \A x : RowSince(x, t) => RowSince(x, t)'
             /\ \A id, e : LinkSince(id, e, t) => LinkSince(id, e, t)'
             /\ GoneSince(t) => GoneSince(t)'
  BY <1>0, <1>1, CommitKeepsSince
<1>2. ASSUME NEW t \in Nat, UnderWay(t), Lasting, NEW id, Target(id, Ends(t))
      PROVE  Target(id, Ends(t))'
  <2> PICK u : u = Ends(t)
    OBVIOUS
  <2>1. u \in Nat /\ now < u /\ u <= now + Grace /\ Target(id, u)
    BY <1>2, EndsSoon
  <2>2. Target(id, u)'
    BY <1>2, <2>1 DEF TargetsStay
  <2> QED
    BY <2>2 DEF Ends
<1>3. \A t : UnderWay(t)' <=> UnderWay(t)
  BY DEF UnderWay
<1>4. \A cmd \in OnTheWay' : CommandFine(cmd)'
  <2> SUFFICES ASSUME NEW cmd \in OnTheWay PROVE CommandFine(cmd)'
    BY SamePipe
  <2> PICK t, id, e : t = cmd.born /\ id = cmd.id /\ e = cmd.e
    OBVIOUS
  <2>1. CommandFine(cmd) /\ t \in Nat /\ UnderWay(t) /\ t <= now
    BY FineTypes, CommandFields DEF CommandFine, UnderWay
  <2>2. /\ LinkSince(id, e, t) => LinkSince(id, e, t)'
        /\ GoneSince(t) => GoneSince(t)'
    BY <1>1, <2>1
  <2>3. Lasting /\ Target(id, Ends(t)) => Target(id, Ends(t))'
    BY <1>2, <2>1
  <2>4. UnderWay(t)'
    BY <1>3, <2>1
  <2> QED
    BY <2>1, <2>2, <2>3, <2>4 DEF CommandFine
<1>5. \A i \in Instances : Loaded(i)' => LoadFine(flight[i])'
  <2> SUFFICES ASSUME NEW i \in Instances, Loaded(i)' PROVE LoadFine(flight[i])'
    OBVIOUS
  <2> PICK load : load = flight[i]
    OBVIOUS
  <2> PICK t, x : t = load.born /\ x = load.row
    OBVIOUS
  <2>1. LoadFine(load) /\ t \in Nat /\ UnderWay(t) /\ t <= now
    BY <1>0, LoadFields DEF Loaded, LoadFine, UnderWay, FInv, AllFine
  <2>2. RowSince(x, t)'
    BY <1>1, <2>1 DEF LoadFine
  <2>3. Lasting /\ Target(x.id, Ends(t)) => Target(x.id, Ends(t))'
    BY <1>2, <2>1
  <2>4. UnderWay(t)'
    BY <1>3, <2>1
  <2>5. LoadFine(load)'
    BY <2>1, <2>2, <2>3, <2>4 DEF LoadFine, Active, Expired
  <2>6. LoadFine(load)' <=> LoadFine(flight[i])'
    BY DEF LoadFine, RowSince
  <2> QED
    BY <2>5, <2>6
<1>6. \A w \in Writers : wr'[w].pc = "created" => WriterFine(wr[w])'
  <2> SUFFICES ASSUME NEW w \in Writers, wr'[w].pc = "created", wr'[w] = wr[w] PROVE WriterFine(wr[w])'
    OBVIOUS
  <2> PICK x : x = wr[w]
    OBVIOUS
  <2> PICK t, id, e : t = x.born /\ id = x.row.id /\ e = x.row.e
    OBVIOUS
  <2>1. WriterFine(x) /\ t \in Nat /\ UnderWay(t) /\ t <= now
    BY <1>0, WriterFields DEF WriterFine, UnderWay, FInv, AllFine
  <2>2. LinkSince(id, e, t)'
    BY <1>1, <2>1 DEF WriterFine
  <2>3. Lasting /\ Target(id, Ends(t)) => Target(id, Ends(t))'
    BY <1>2, <2>1
  <2>4. UnderWay(t)'
    BY <1>3, <2>1
  <2>5. WriterFine(x)'
    BY <2>1, <2>2, <2>3, <2>4 DEF WriterFine
  <2>6. WriterFine(x)' <=> WriterFine(wr[w])'
    BY DEF WriterFine, LinkSince
  <2> QED
    BY <2>5, <2>6
<1>7. entry' # NoEntry => EntryFine(entry)'
  <2> SUFFICES ASSUME entry # NoEntry PROVE EntryFine(entry)'
    OBVIOUS
  <2> PICK en : en = entry
    OBVIOUS
  <2> PICK d, id, e : d = en.dies /\ id = en.id /\ e = en.e
    OBVIOUS
  <2>1. EntryFine(en) /\ d \in Nat /\ now < d
    BY DEF EntryFine, FInv, AllFine, Typed, TypeOK, Entry
  <2>2. en.kind = "url" => d <= now + Grace \/ ~Lasting
    BY <1>0, <2>1 DEF EntryFine, Lasting
  <2>3. en.kind = "url" => LinkSince(id, e, d - Latency - UrlTtl)'
    <3> PICK t : t = d - Latency - UrlTtl
      OBVIOUS
    <3> SUFFICES ASSUME en.kind = "url" PROVE LinkSince(id, e, t)'
      OBVIOUS
    <3>1. t \in Int /\ t <= now /\ LinkSince(id, e, t)
      BY <1>0, <2>1 DEF EntryFine
    <3> QED
      BY <1>1, <3>1
  <2>4. en.kind = "none" => GoneSince(d - Latency - NegTtl)'
    <3> PICK t : t = d - Latency - NegTtl
      OBVIOUS
    <3> SUFFICES ASSUME en.kind = "none" PROVE GoneSince(t)'
      OBVIOUS
    <3>1. t \in Int /\ t <= now /\ GoneSince(t)
      BY <1>0, <2>1 DEF EntryFine
    <3> QED
      BY <1>1, <3>1
  <2>5. en.kind = "url" /\ Lasting => Target(id, d)'
    BY <2>1, <2>2 DEF EntryFine, TargetsStay
  <2>6. EntryFine(en)'
    BY <2>1, <2>3, <2>4, <2>5 DEF EntryFine
  <2>7. EntryFine(en)' <=> EntryFine(entry)'
    BY DEF EntryFine, LinkSince, GoneSince
  <2> QED
    BY <2>6, <2>7
<1>8. \A r \in Requests : req'[r].pc # "idle" => req'[r].since <= now'
  BY DEF FInv, AllFine
<1> QED
  BY <1>4, <1>5, <1>6, <1>7, <1>8 DEF FInv, AllFine

(* The statements of a user, and the purge's. *)
LEMMA ChangeFine ==
    ASSUME FInv, Typed', Home', NEW w \in Writers, NEW i \in Instances, NEW rw \in Row,
           Writes(w, i, "written", rw), Owned, rw.id = row.id, rw.purge = PurgeAt(rw.e),
           Lasting => rw.purge = Never \/ (rw.purge = now + Grace /\ rw.status = "deleted")
    PROVE  FInv'
<1>1. /\ UNCHANGED <<now, entry, pipe, flight, timers, req, victim>> /\ Commit(rw) /\ TypeOK
      /\ row \in Row /\ row # NoRow
  BY FineTypes DEF Writes, Owned, TypeOK
<1>2. /\ row' = rw /\ Len(hist') = Len(hist) + 1 /\ Len(hist) \in Nat
      /\ Len(hist') \in DOMAIN hist' /\ hist'[Len(hist')].row = rw
  BY <1>1, CommitDoes, HistoryIs
<1>3. Lasting => row.purge = Never /\ (victim # Nobody => row.id # victim.id)
  BY <1>1 DEF FInv, RowFine
<1>4. RowFine'
  <2>1. row.id \in Nat /\ row.id < Len(hist) /\ (victim # Nobody => victim.id \in Nat /\ victim.id < Len(hist))
    BY <1>1 DEF Row, FInv, RowFine, Typed, TypeOK
  <2>2. rw.id < Len(hist') /\ (victim # Nobody => victim.id < Len(hist') /\ victim.born <= now)
    BY <1>2, <2>1 DEF FInv, RowFine
  <2>3. Len(hist') >= 1
    BY <1>2
  <2> QED
    BY <1>1, <1>2, <1>3, <2>2, <2>3 DEF RowFine, Owned, PurgeAt, Lasting
<1>5. Lasting => TargetsStay
  <2>1. rw # NoRow
    BY AbsentAssumption
  <2>2. ASSUME Lasting, NEW t \in Nat, t <= now + Grace PROVE rw.purge = Never \/ t <= rw.purge
    BY <2>2
  <2>3. ASSUME Lasting, NEW t \in Nat, t <= now + Grace, NEW id, Target(id, t) PROVE Target(id, t)'
    <3>1. row.id = id /\ (rw.purge = Never \/ t <= rw.purge)
      BY <2>2, <2>3 DEF Target
    <3> QED
      BY <1>2, <2>1, <3>1 DEF Target
  <2> QED
    BY <2>3 DEF TargetsStay
<1>6. \A v \in Writers : wr'[v].pc = "created" => wr'[v] = wr[v]
  <2> PICK x : x = [pc |-> "written", at |-> i, row |-> rw, born |-> now]
    OBVIOUS
  <2>1. wr' = [wr EXCEPT ![w] = x] /\ x.pc = "written"
    BY DEF Writes
  <2> QED
    BY <2>1 DEF FInv, Typed, TypeOK
<1> QED
  BY <1>1, <1>4, <1>5, <1>6, CommitFine

LEMMA ChangesFine ==
    ASSUME FInv, Typed', Home', NEW w \in Writers, NEW i \in Instances,
           \/ \E s \in {"active", "disabled"} : UpdateStatus(w, i, s)
           \/ \E e \in Expiries : UpdateExpiry(w, i, e)
           \/ Delete(w, i)
    PROVE  FInv'
<1>1. Owned /\ row \in Row /\ row.purge = PurgeAt(row.e) /\ (Lasting => row.purge = Never)
  BY DEF UpdateStatus, UpdateExpiry, Delete, Owned, FInv, RowFine, Typed, TypeOK
<1>2. ASSUME NEW s \in {"active", "disabled"}, UpdateStatus(w, i, s) PROVE FInv'
  <2> PICK rw : rw = [row EXCEPT !.status = s]
    OBVIOUS
  <2>1. rw \in Row /\ rw.id = row.id /\ rw.e = row.e /\ rw.purge = row.purge
    BY <1>1 DEF Row
  <2>2. Writes(w, i, "written", rw)
    BY <1>2 DEF UpdateStatus
  <2> QED
    BY <1>1, <2>1, <2>2, ChangeFine
<1>3. ASSUME NEW e \in Expiries, UpdateExpiry(w, i, e) PROVE FInv'
  <2> PICK p : p = PurgeAt(e)
    OBVIOUS
  <2> PICK rw : rw = [row EXCEPT !.e = e, !.purge = p]
    OBVIOUS
  <2>1. e \in Nat \cup {Never} /\ p \in Nat \cup {Never}
    BY ExpiriesAssumption, PurgeAtIs
  <2>2. rw \in Row /\ rw.id = row.id /\ rw.e = e /\ rw.purge = p
    BY <1>1, <2>1 DEF Row
  <2>3. Lasting => p = Never
    BY PurgeAtIs DEF Lasting, PurgeAt
  <2>4. Writes(w, i, "written", rw)
    BY <1>3 DEF UpdateExpiry
  <2> QED
    BY <1>1, <2>2, <2>3, <2>4, ChangeFine
<1>4. CASE Delete(w, i)
  <2> PICK p, t : p = PurgeAt(now) /\ t = now
    OBVIOUS
  <2> PICK rw : rw = [row EXCEPT !.status = "deleted", !.e = t, !.purge = p]
    OBVIOUS
  <2>1. t \in Nat /\ p = PurgeAt(t) /\ p = now + Grace /\ p \in Nat
    BY FineTypes, ExpiriesAssumption DEF PurgeAt
  <2>2. rw \in Row /\ rw.id = row.id /\ rw.e = t /\ rw.purge = p /\ rw.status = "deleted"
    BY <1>1, <2>1 DEF Row
  <2>3. Writes(w, i, "written", rw)
    BY <1>4 DEF Delete
  <2> QED
    BY <1>1, <2>1, <2>2, <2>3, ChangeFine
<1> QED
  BY <1>2, <1>3, <1>4

LEMMA CreateFine ==
    ASSUME FInv, Typed', Home', NEW w \in Writers, NEW i \in Instances,
           NEW user \in Users, NEW e \in Expiries, Create(w, i, user, e)
    PROVE  FInv'
<1> PICK ex, t, n : ex = ResolveExpiry(e, user) /\ t = now /\ n = Len(hist)
  OBVIOUS
<1>1. ex \in Nat \cup {Never} /\ t \in Nat /\ n \in Nat /\ user \in BOOLEAN /\ (ex # Never => t < ex)
  <2>1. t \in Nat /\ n \in Nat /\ user \in BOOLEAN
    BY FineTypes, HistoryIs, SetsAssumption
  <2>2. e \in Nat \cup {Never} /\ Never \notin Nat /\ AnonymousMax \in Nat \ {0}
    BY ExpiriesAssumption, TimesAssumption
  <2>3. e # Never => t < e
    BY <2>1, <2>2 DEF Create, Expired
  <2>4. CASE user
    BY <2>1, <2>2, <2>3, <2>4 DEF ResolveExpiry
  <2>5. CASE ~user
    <3>1. ex = Capped(e)
      BY <2>5 DEF ResolveExpiry
    <3> QED
      BY <2>1, <2>2, <2>3, <3>1 DEF Capped
  <2> QED
    BY <2>1, <2>4, <2>5
<1>2. Lasting /\ user => ex = Never
  BY DEF Lasting, ResolveExpiry
<1> PICK p : p = PurgeAt(ex)
  OBVIOUS
<1>3. p \in Nat \cup {Never} /\ (ex = Never => p = Never) /\ (ex # Never => p = ex + Grace)
  BY <1>1, PurgeAtIs DEF PurgeAt
<1> PICK rw : rw = [id |-> n, status |-> "active", user |-> user, e |-> ex, purge |-> p, born |-> t]
  OBVIOUS
<1>4. /\ rw \in Row /\ rw # NoRow /\ rw.id = n /\ rw.status = "active" /\ rw.user = user
      /\ rw.e = ex /\ rw.purge = p
  BY <1>1, <1>3, AbsentAssumption DEF Row
<1>5. Writes(w, i, "created", rw) /\ Commit(rw) /\ row = NoRow
  BY DEF Create, Writes
<1>6. /\ row' = rw /\ Len(hist') = n + 1
      /\ Len(hist') \in DOMAIN hist' /\ hist'[Len(hist')].row = rw
  BY <1>4, <1>5, FineTypes, CommitDoes
<1>7. UNCHANGED <<now, entry, pipe, flight, timers, req, victim>>
  BY <1>5 DEF Writes
<1>8. RowFine'
  <2>1. victim # Nobody => victim.id \in Nat /\ victim.id < n /\ victim.born <= now
    BY DEF FInv, RowFine, Typed, TypeOK
  <2>2. victim # Nobody => victim.id < n + 1 /\ victim.id # n
    BY <1>1, <2>1
  <2>3. n < n + 1 /\ n + 1 >= 1
    BY <1>1
  <2>4. Lasting /\ user => p = Never
    BY <1>2, <1>3
  <2> QED
    BY <1>4, <1>6, <1>7, <2>1, <2>2, <2>3, <2>4 DEF RowFine, Owned, PurgeAt, Lasting
<1>9. TargetsStay
  BY <1>5 DEF TargetsStay, Target
<1>10. \A v \in Writers : wr'[v].pc = "created" => wr'[v] = wr[v] \/ WriterFine(wr[v])'
  <2> PICK x : x = [pc |-> "created", at |-> i, row |-> rw, born |-> t]
    OBVIOUS
  <2>1. wr' = [wr EXCEPT ![w] = x] /\ x.born = t /\ x.row = rw
    BY <1>5 DEF Writes
  <2>2. wr'[w] = x /\ \A v \in Writers : v # w => wr'[v] = wr[v]
    BY <2>1 DEF FInv, Typed, TypeOK
  <2>3. WriterFine(x)'
    <3>1. UnderWay(t)'
      BY <1>7, ReadNow DEF UnderWay
    <3>2. LinkSince(n, ex, t)'
      BY <1>4, <1>6 DEF LinkSince, Since, Active
    <3>3. Lasting => p = Never \/ Ends(t) <= p
      <4>1. {Latency, UrlTtl, Grace} \subseteq Nat \ {0}
        BY FineTypes
      <4> QED
        BY <1>1, <1>3, <4>1 DEF Lasting, Ends
    <3>4. Lasting => Target(n, Ends(t))'
      BY <1>4, <1>6, <3>3 DEF Target, Ends
    <3> QED
      BY <1>4, <2>1, <3>1, <3>2, <3>4 DEF WriterFine, Ends
  <2>4. WriterFine(x)' <=> WriterFine(wr[w])'
    BY <2>2 DEF WriterFine, LinkSince
  <2> QED
    BY <2>2, <2>3, <2>4
<1> QED
  BY <1>4, <1>5, <1>7, <1>8, <1>9, <1>10, CommitFine

LEMMA PurgeDeleteFine ==
    ASSUME FInv, Typed', Home', PurgeDelete
    PROVE  FInv'
<1>1. victim' = Nobody /\ victim # Nobody /\ UNCHANGED <<now, entry, pipe, flight, timers, req, wr>>
  BY DEF PurgeDelete
<1>2. CASE row # NoRow /\ row.id = victim.id
  <2>1. Commit(NoRow)
    BY <1>2 DEF PurgeDelete
  <2>2. /\ row' = NoRow /\ Len(hist') = Len(hist) + 1 /\ Len(hist) \in Nat
        /\ Len(hist') \in DOMAIN hist' /\ hist'[Len(hist')].row = NoRow
    BY <2>1, FineTypes, CommitDoes, HistoryIs
  <2>3. RowFine'
    <3>1. Len(hist') >= 1
      BY <2>2
    <3> QED
      BY <1>1, <2>2, <3>1 DEF RowFine, Owned
  <2>4. Lasting => TargetsStay
    <3> PICK p : p = row.purge
      OBVIOUS
    <3>1. Lasting => p # Never /\ p < victim.born /\ victim.born <= now
      BY <1>1, <1>2 DEF FInv, RowFine
    <3>2. p \in Nat \cup {Never} /\ victim.born \in Nat /\ now \in Nat
      BY <1>1, <1>2 DEF FInv, Typed, TypeOK, Row
    <3>3. Lasting => p # Never /\ \A t \in Nat : now < t => ~(t <= p)
      BY <3>1, <3>2
    <3> QED
      BY <3>3 DEF TargetsStay, Target
  <2> QED
    BY <1>1, <2>1, <2>3, <2>4, CommitFine
<1>3. CASE ~(row # NoRow /\ row.id = victim.id)
  <2>1. UNCHANGED <<row, hist>>
    BY <1>3 DEF PurgeDelete
  <2>2. LoadsFollow
    BY <1>1 DEF LoadsFollow, Loaded
  <2> QED
    BY <1>1, <2>1, <2>2, SamePipe, QuietFine
<1> QED
  BY <1>2, <1>3

(* The clock waits for what is under way; what is in Redis goes with its time. *)
LEMMA TickFine ==
    ASSUME FInv, Typed', Home', Tick
    PROVE  FInv'
<1>0. TypeOK /\ now \in Nat /\ now' = now + 1 /\ {Latency, UrlTtl, NegTtl} \subseteq Nat
  BY FineTypes DEF Tick
<1>1. UNCHANGED <<row, pipe, flight, timers, req, wr, victim, hist>>
  BY DEF Tick
<1>2. /\ \A cmd \in OnTheWay : InTime(cmd.born)
      /\ \A i \in Instances : Loaded(i) => InTime(flight[i].born)
      /\ \A w \in Writers : wr[w].pc # "idle" => InTime(wr[w].born)
  BY DEF Tick, OnTheWay, Loaded
<1>3. ASSUME NEW t \in Nat, UnderWay(t), InTime(t) PROVE UnderWay(t)'
  BY <1>0, <1>3 DEF UnderWay, InTime
<1>4. \A rw, t : RowSince(rw, t)' <=> RowSince(rw, t)
  BY <1>1 DEF RowSince, Since
<1>5. \A id, e, t : LinkSince(id, e, t)' <=> LinkSince(id, e, t)
  BY <1>1 DEF LinkSince, Since, Active
<1>6. \A t : GoneSince(t)' <=> GoneSince(t)
  BY <1>1 DEF GoneSince, Since, Active
<1>7. \A id, t : Target(id, t)' <=> Target(id, t)
  BY <1>1 DEF Target
<1>8. RowFine'
  <2>1. victim # Nobody => victim.born <= now'
    <3>1. victim # Nobody => victim.born \in Nat /\ victim.born <= now
      BY DEF FInv, RowFine, Typed, TypeOK
    <3> QED
      BY <1>0, <3>1
  <2> QED
    BY <1>1, <2>1 DEF FInv, RowFine, Owned
<1>9. \A cmd \in OnTheWay' : CommandFine(cmd)'
  <2> SUFFICES ASSUME NEW cmd \in OnTheWay PROVE CommandFine(cmd)'
    BY <1>1, SamePipe
  <2> PICK t : t = cmd.born
    OBVIOUS
  <2>1. CommandFine(cmd) /\ t \in Nat /\ UnderWay(t) /\ InTime(t)
    BY <1>2, FineTypes, CommandFields DEF CommandFine
  <2>2. UnderWay(t)'
    BY <1>3, <2>1
  <2> QED
    BY <1>5, <1>6, <1>7, <2>1, <2>2 DEF CommandFine, Ends
<1>10. \A i \in Instances : Loaded(i)' => LoadFine(flight[i])'
  <2> SUFFICES ASSUME NEW i \in Instances, Loaded(i)' PROVE LoadFine(flight[i])'
    OBVIOUS
  <2> PICK load : load = flight[i]
    OBVIOUS
  <2> PICK t, x : t = load.born /\ x = load.row
    OBVIOUS
  <2>1. Loaded(i) /\ flight'[i] = load
    BY <1>1 DEF Loaded
  <2>2. LoadFine(load) /\ t \in Nat /\ x \in Row \cup {NoRow} /\ UnderWay(t) /\ InTime(t)
    BY <1>0, <1>2, <2>1, LoadFields DEF LoadFine, FInv, AllFine
  <2>3. UnderWay(t)'
    BY <1>3, <2>2
  <2>4. Active(x) /\ ~Expired(x.e, now') => ~Expired(x.e, now)
    <3>1. Active(x) => x.e \in Nat \cup {Never}
      BY <2>2 DEF Active, Row
    <3> QED
      BY <1>0, <3>1 DEF Expired
  <2>5. LoadFine(load)'
    BY <1>4, <1>7, <2>2, <2>3, <2>4 DEF LoadFine, Active, Ends
  <2>6. LoadFine(load)' <=> LoadFine(flight[i])'
    BY <2>1 DEF LoadFine, RowSince
  <2> QED
    BY <2>5, <2>6
<1>11. \A w \in Writers : wr'[w].pc = "created" => WriterFine(wr[w])'
  <2> SUFFICES ASSUME NEW w \in Writers, wr'[w].pc = "created" PROVE WriterFine(wr[w])'
    OBVIOUS
  <2> PICK x : x = wr[w]
    OBVIOUS
  <2> PICK t : t = x.born
    OBVIOUS
  <2>1. x.pc = "created" /\ wr'[w] = x
    BY <1>1
  <2>2. WriterFine(x) /\ t \in Nat /\ UnderWay(t) /\ InTime(t)
    BY <1>0, <1>2, <2>1, WriterFields DEF WriterFine, FInv, AllFine
  <2>3. UnderWay(t)'
    BY <1>3, <2>2
  <2>4. WriterFine(x)'
    BY <1>5, <1>7, <2>2, <2>3 DEF WriterFine, Ends
  <2>5. WriterFine(x)' <=> WriterFine(wr[w])'
    BY <2>1 DEF WriterFine, LinkSince
  <2> QED
    BY <2>4, <2>5
<1>12. entry' # NoEntry => EntryFine(entry)'
  <2> SUFFICES ASSUME entry' # NoEntry PROVE EntryFine(entry)'
    OBVIOUS
  <2> PICK en : en = entry
    OBVIOUS
  <2> PICK d : d = en.dies
    OBVIOUS
  <2>1. entry' = en /\ en # NoEntry /\ d \in Nat /\ now' < d
    BY <1>0 DEF Tick, FInv, Typed, TypeOK, Entry
  <2>2. EntryFine(en)
    BY <2>1 DEF FInv, AllFine
  <2>3. /\ en.kind = "url" => d <= now' + UrlTtl
        /\ en.kind = "none" => d <= now' + NegTtl
    BY <1>0, <2>1, <2>2 DEF EntryFine
  <2>4. EntryFine(en)'
    BY <1>5, <1>6, <1>7, <2>1, <2>2, <2>3 DEF EntryFine
  <2>5. EntryFine(en)' <=> EntryFine(entry)'
    BY <2>1 DEF EntryFine, LinkSince, GoneSince
  <2> QED
    BY <2>4, <2>5
<1>13. \A r \in Requests : req'[r].pc # "idle" => req'[r].since <= now'
  <2> SUFFICES ASSUME NEW r \in Requests, req[r].pc # "idle" PROVE req[r].since <= now'
    BY <1>1
  <2>1. req[r].since \in Nat /\ req[r].since <= now
    BY DEF FInv, AllFine, Typed, TypeOK
  <2> QED
    BY <1>0, <2>1
<1> QED
  BY <1>8, <1>9, <1>10, <1>11, <1>12, <1>13 DEF FInv, AllFine

LEMMA FInvInit == Init => FInv
<1> SUFFICES ASSUME Init PROVE FInv
  OBVIOUS
<1>1. Typed /\ Home
  BY TypeInit, HomeInit
<1>2. OnTheWay = {} /\ (\A i \in Instances : ~Loaded(i)) /\ entry = NoEntry
  BY DEF Init, OnTheWay, Loaded
<1>3. RowFine
  <2>1. Len(hist) = 1 /\ hist[1].row = row /\ victim = Nobody
    BY DEF Init
  <2>2. row # NoRow => row.e = Never /\ row.purge = Never /\ row.id = 0
    BY DEF Init, OldRow
  <2> QED
    BY <2>1, <2>2 DEF RowFine, PurgeAt, Owned
<1>4. AllFine
  BY <1>2 DEF Init, AllFine
<1> QED
  BY <1>1, <1>3, <1>4 DEF FInv

LEMMA FInvNext ==
    ASSUME FInv, [Next]_vars
    PROVE  FInv'
<1>0. Typed' /\ Home'
  BY TypeStep, HomeStep, CrashTypes DEF FInv
<1>1. CASE Redirecting
  BY <1>0, <1>1, ArriveFine, RunGetFine, LoadReadFine, LoadDoneFine, LoadFailsFine DEF Redirecting
<1>2. CASE Writing
  BY <1>0, <1>2, CreateFine, ChangesFine, WriteThroughFine, InvalidateFine, DelTimesOutFine,
     RunWriteFine, SecondDelFine, PurgeSelectFine, PurgeDeleteFine DEF Writing
<1>3. CASE Environment
  BY <1>0, <1>3, TickFine, EvictFine, GetTimesOutFine, LoseFine, CrashFine DEF Environment
<1>4. CASE UNCHANGED vars
  BY <1>0, <1>4, SamePipe, WriterStepFine DEF vars
<1> QED
  BY <1>1, <1>2, <1>3, <1>4 DEF Next

(* When a value lives shorter than a deleted row is kept, and links end only by *)
(* being deleted, a cached value never outlives the row it was made of: not     *)
(* when commands are skipped, late or lost, nor when processes die.             *)
THEOREM OldTargetGone ==
    ASSUME Lasting
    PROVE  Spec => []NoOldTarget
<1>1. FInv /\ [Next]_vars => FInv'
  BY FInvNext
<1>2. FInv => NoOldTarget
  BY DEF FInv, AllFine, EntryFine, Target, NoOldTarget
<1> QED
  BY <1>1, <1>2, FInvInit, PTL DEF Spec

(* What was current at the time u or later was right since any earlier time. *)
LEMMA RightIfSince ==
    ASSUME TypeOK, NEW u \in Int, NEW t \in Int, t <= u
    PROVE  /\ \A rw : RowSince(rw, u) => Resolve(rw) \in RightSince(t)
           /\ \A id, e : LinkSince(id, e, u) => Evaluate(id, e) \in RightSince(t)
           /\ GoneSince(u) => NotFound \in RightSince(t)
<1>1. ASSUME NEW k \in DOMAIN hist, Since(k, u) PROVE Resolve(hist[k].row) \in RightSince(t)
  <2>1. Since(k, t)
    BY <1>1, SinceEarlier
  <2> QED
    BY <2>1 DEF Since, RightSince
<1>2. ASSUME NEW rw, RowSince(rw, u) PROVE Resolve(rw) \in RightSince(t)
  BY <1>1, <1>2 DEF RowSince
<1>3. ASSUME NEW id, NEW e, LinkSince(id, e, u) PROVE Evaluate(id, e) \in RightSince(t)
  <2>1. PICK k \in DOMAIN hist : /\ Since(k, u) /\ Active(hist[k].row)
                                 /\ hist[k].row.id = id /\ hist[k].row.e = e
    BY <1>3 DEF LinkSince
  <2>2. Resolve(hist[k].row) = Evaluate(id, e)
    BY <2>1 DEF Active, Resolve
  <2> QED
    BY <1>1, <2>1, <2>2
<1>4. ASSUME GoneSince(u) PROVE NotFound \in RightSince(t)
  <2>1. PICK k \in DOMAIN hist : Since(k, u) /\ ~Active(hist[k].row)
    BY <1>4 DEF GoneSince
  <2>2. Resolve(hist[k].row) = NotFound
    BY <2>1 DEF Active, Resolve
  <2> QED
    BY <1>1, <2>1, <2>2
<1> QED
  BY <1>2, <1>3, <1>4

(* "Not found" is kept for a shorter time than a link. *)
NegativeIsShort == NegTtl <= UrlTtl

LEMMA HitIsRight ==
    ASSUME FInv, NegativeIsShort, entry # NoEntry, NEW since \in Nat, since <= now
    PROVE  ResolveEntry \in RightSince(since - UrlTtl - Latency)
<1> PICK d, t : d = entry.dies /\ t = since - UrlTtl - Latency
  OBVIOUS
<1>1. /\ TypeOK /\ {Latency, UrlTtl, NegTtl, now} \subseteq Nat
      /\ entry \in Entry /\ entry.kind \in {"url", "none"} /\ d \in Nat /\ now < d /\ EntryFine(entry)
  BY FineTypes DEF FInv, AllFine, EntryFine, Typed, TypeOK, Entry
<1>2. CASE entry.kind = "url"
  <2> PICK u : u = d - Latency - UrlTtl
    OBVIOUS
  <2>1. u \in Int /\ t \in Int /\ t <= u /\ LinkSince(entry.id, entry.e, u)
    BY <1>1, <1>2 DEF EntryFine
  <2>2. Evaluate(entry.id, entry.e) \in RightSince(t)
    BY <1>1, <2>1, RightIfSince
  <2> QED
    BY <1>2, <2>2 DEF ResolveEntry
<1>3. CASE entry.kind = "none"
  <2> PICK u : u = d - Latency - NegTtl
    OBVIOUS
  <2>1. u \in Int /\ t \in Int /\ t <= u /\ GoneSince(u)
    BY <1>1, <1>3 DEF EntryFine, NegativeIsShort
  <2>2. NotFound \in RightSince(t)
    BY <1>1, <2>1, RightIfSince
  <2> QED
    BY <1>3, <2>2 DEF ResolveEntry
<1> QED
  BY <1>1, <1>2, <1>3

LEMMA LoadIsRight ==
    ASSUME FInv, NEW i \in Instances, Loaded(i), NEW since \in Nat, since <= now
    PROVE  Resolve(flight[i].row) \in RightSince(since - UrlTtl - Latency)
<1> PICK u, t, rw : u = flight[i].born /\ t = since - UrlTtl - Latency /\ rw = flight[i].row
  OBVIOUS
<1>1. /\ TypeOK /\ {Latency, UrlTtl, now} \subseteq Nat /\ u \in Nat
      /\ now <= u + Latency /\ RowSince(rw, u)
  BY FineTypes, LoadFields DEF FInv, AllFine, LoadFine, UnderWay
<1>2. t \in Int /\ t <= u
  BY <1>1
<1>3. Resolve(rw) \in RightSince(t)
  BY <1>1, <1>2, RightIfSince
<1> QED
  BY <1>3

Answers ==
    EveryAnswer(LAMBDA r, a : a \in RightSince(req[r].since - UrlTtl - Latency))

LEMMA AnswersRight ==
    ASSUME FInv, NegativeIsShort
    PROVE  Answers
<1>1. ASSUME NEW i \in Instances, RunGet(i), entry # NoEntry
      PROVE  ResolveEntry \in RightSince(req[Head(pipe[i]).r].since - UrlTtl - Latency)
  <2> PICK r : r = Head(pipe[i]).r
    OBVIOUS
  <2>1. Head(pipe[i]) = pipe[i][1] /\ 1 \in DOMAIN pipe[i]
    BY <1>1, FineTypes, PopDoes DEF RunGet, Leaves
  <2>2. r \in Requests /\ req[r].pc = "get"
    BY <1>1, <2>1, Asker DEF RunGet
  <2>3. req[r].since \in Nat /\ req[r].since <= now
    BY <2>2 DEF FInv, AllFine, Typed, TypeOK
  <2> QED
    BY <1>1, <2>3, HitIsRight
<1>2. ASSUME NEW i \in Instances, LoadDone(i), NEW r \in Joined(i)
      PROVE  Resolve(flight[i].row) \in RightSince(req[r].since - UrlTtl - Latency)
  <2>1. Loaded(i)
    BY <1>2 DEF LoadDone, Loaded
  <2>2. req[r].since \in Nat /\ req[r].since <= now
    BY DEF Joined, FInv, AllFine, Typed, TypeOK
  <2> QED
    BY <2>1, <2>2, LoadIsRight
<1> QED
  BY <1>1, <1>2 DEF Answers, EveryAnswer

(* Whatever is skipped, late or lost, and whoever dies: what a visitor is told  *)
(* was right at most one TTL and one latency before the visitor came, or at     *)
(* some moment since then.                                                      *)
THEOREM AnswersAreWithinTtl ==
    ASSUME NegativeIsShort
    PROVE  Spec => StalenessWithinTtl
<1>1. FInv /\ [Next]_vars => FInv'
  BY FInvNext
<1>2. FInv => Answers
  BY AnswersRight
<1> QED
  BY <1>1, <1>2, FInvInit, PTL DEF Spec, StalenessWithinTtl, Answers

--------------------------------------------------------------------------------
(***************************************************************************)
(* BoundedStaleness.  StaleIsDoomed says that some DEL is to come; here    *)
(* each change of the link has its own, whose time is known: the change    *)
(* committed at the time at is told to Redis a latency later, its second   *)
(* DEL is sent a Delay after that, and arrives a latency later.            *)
(***************************************************************************)

(* Of the change that committed at the time at: Redis has not been told, or *)
(* its second DEL is to come.                                               *)
UntoldOf(at)      == \E w \in Writers : wr[w].pc = "written" /\ wr[w].born <= at
DueOf(at, due)    == due <= at + Latency + Delay
CoveredOf(t, at)  == \/ UntoldOf(at)
                     \/ \E i \in Instances : \E due \in timers[i] : t + Latency < due /\ DueOf(at, due)
DoomedOf(at)      == \/ UntoldOf(at)
                     \/ \E i \in Instances : \E due \in timers[i] : DueOf(at, due)
                     \/ \E cmd \in OnTheWay : cmd.op = "del" /\ DueOf(at, cmd.born)

Version(k, id, e) == Active(hist[k].row) /\ hist[k].row.id = id /\ hist[k].row.e = e

(* What was read at the time t is the last version, or what replaced it is *)
(* still to remove it; the same for what Redis holds.                      *)
ReadOf(id, e, t) ==
    \E k \in DOMAIN hist : Version(k, id, e) /\ (k # Len(hist) => CoveredOf(t, hist[k + 1].at))
HeldOf(id, e) ==
    \E k \in DOMAIN hist : Version(k, id, e) /\ (k # Len(hist) => DoomedOf(hist[k + 1].at))

Bounded ==
    /\ \A i \in Instances : \A due \in timers[i] : due <= now + Delay
    /\ \A cmd \in OnTheWay : cmd.op = "set" => ReadOf(cmd.id, cmd.e, cmd.born)
    /\ \A i \in Instances : Loaded(i) /\ Active(flight[i].row) =>
          ReadOf(flight[i].row.id, flight[i].row.e, flight[i].born) \/ Expired(flight[i].row.e, now)
    /\ \A w \in Writers : wr[w].pc = "created" => ReadOf(wr[w].row.id, wr[w].row.e, wr[w].born)
    /\ entry # NoEntry /\ entry.kind = "url" => HeldOf(entry.id, entry.e)

BInv == IInv /\ FInv /\ Bounded

CoverOfStays == \A t, at \in Nat : UnderWay(t) /\ CoveredOf(t, at) => CoveredOf(t, at)'
DoomOfStays  == \A at \in Nat : DoomedOf(at) => DoomedOf(at)'

(* What is known of a state. *)
LEMMA BoundedTypes ==
    ASSUME BInv
    PROVE  /\ TypeOK /\ PipesOk /\ now \in Nat /\ {Latency, Delay} \subseteq Nat \ {0}
           /\ Len(hist) \in Nat /\ DOMAIN hist = 1..Len(hist)
           /\ \A k \in DOMAIN hist : k # Len(hist) => hist[k + 1].at \in Nat
           /\ Len(hist) \in DOMAIN hist /\ hist[Len(hist)].row = row
           /\ \A cmd \in OnTheWay : cmd \in Command /\ cmd.born \in Nat /\ UnderWay(cmd.born)
           /\ \A i \in Instances : Loaded(i) => flight[i].born \in Nat /\ UnderWay(flight[i].born)
           /\ \A w \in Writers : wr[w].pc # "idle" => wr[w].born \in Nat /\ UnderWay(wr[w].born)
           /\ \A i \in Instances : \A due \in timers[i] : due \in Nat /\ now <= due /\ due <= now + Delay
<1>1. TypeOK /\ PipesOk /\ now \in Nat /\ {Latency, Delay} \subseteq Nat \ {0}
  BY FineTypes, TimesAssumption DEF BInv
<1>2. Len(hist) \in Nat /\ DOMAIN hist = 1..Len(hist) /\ \A k \in DOMAIN hist : hist[k].at \in Nat
  BY <1>1, HistoryIs
<1>3. \A k \in DOMAIN hist : k # Len(hist) => hist[k + 1].at \in Nat
  BY <1>2
<1>4. Len(hist) \in DOMAIN hist /\ hist[Len(hist)].row = row
  BY <1>2 DEF BInv, FInv, RowFine
<1>5. /\ \A cmd \in OnTheWay : cmd \in Command /\ cmd.born \in Nat /\ UnderWay(cmd.born)
      /\ \A i \in Instances : Loaded(i) => flight[i].born \in Nat /\ UnderWay(flight[i].born)
      /\ \A w \in Writers : wr[w].pc # "idle" => wr[w].born \in Nat /\ UnderWay(wr[w].born)
      /\ \A i \in Instances : \A due \in timers[i] : due \in Nat /\ now <= due
  BY BornIsNat, FineTypes DEF BInv, IInv, Timely
<1> QED
  BY <1>1, <1>2, <1>3, <1>4, <1>5 DEF BInv, Bounded

LEMMA ReadStays ==
    ASSUME BInv, UNCHANGED hist, CoverOfStays, NEW t \in Nat, UnderWay(t), NEW id, NEW e, ReadOf(id, e, t)
    PROVE  ReadOf(id, e, t)'
<1>1. PICK k \in DOMAIN hist : Version(k, id, e) /\ (k # Len(hist) => CoveredOf(t, hist[k + 1].at))
  BY DEF ReadOf
<1>2. k # Len(hist) => CoveredOf(t, hist[k + 1].at)'
  <2> SUFFICES ASSUME k # Len(hist) PROVE CoveredOf(t, hist[k + 1].at)'
    OBVIOUS
  <2> PICK at : at = hist[k + 1].at
    OBVIOUS
  <2>1. at \in Nat /\ CoveredOf(t, at)
    BY <1>1, BoundedTypes
  <2>2. CoveredOf(t, at)'
    BY <2>1 DEF CoverOfStays
  <2> QED
    BY <2>2 DEF CoveredOf, UntoldOf
<1>3. Version(k, id, e)'
  BY <1>1 DEF Version, Active
<1> QED
  BY <1>2, <1>3 DEF ReadOf

LEMMA HeldStays ==
    ASSUME BInv, UNCHANGED hist, DoomOfStays, NEW id, NEW e, HeldOf(id, e)
    PROVE  HeldOf(id, e)'
<1>1. PICK k \in DOMAIN hist : Version(k, id, e) /\ (k # Len(hist) => DoomedOf(hist[k + 1].at))
  BY DEF HeldOf
<1>2. k # Len(hist) => DoomedOf(hist[k + 1].at)'
  <2> SUFFICES ASSUME k # Len(hist) PROVE DoomedOf(hist[k + 1].at)'
    OBVIOUS
  <2> PICK at : at = hist[k + 1].at
    OBVIOUS
  <2>1. at \in Nat /\ DoomedOf(at)
    BY <1>1, BoundedTypes
  <2>2. DoomedOf(at)'
    BY <2>1 DEF DoomOfStays
  <2> QED
    BY <2>2 DEF DoomedOf, UntoldOf
<1>3. Version(k, id, e)'
  BY <1>1 DEF Version, Active
<1> QED
  BY <1>2, <1>3 DEF HeldOf

(* A SET arrives: the second DEL that covers it has not been sent. *)
LEMMA HeldIfRead ==
    ASSUME NEW id, NEW e, NEW t, ReadOf(id, e, t)
    PROVE  HeldOf(id, e)
<1>1. \A at : CoveredOf(t, at) => DoomedOf(at)
  BY DEF CoveredOf, DoomedOf
<1> QED
  BY <1>1 DEF ReadOf, HeldOf

LEMMA ReadCurrent ==
    ASSUME BInv, Active(row)
    PROVE  \A t : ReadOf(row.id, row.e, t)
BY BoundedTypes DEF ReadOf, Version

(* A step that changes no row and takes no time. *)
LEMMA QuietBounded ==
    ASSUME BInv, UNCHANGED <<now, row, hist>>, CoverOfStays, LoadsFollow,
           \A i \in Instances : \A due \in timers'[i] : due <= now + Delay,
           \A cmd \in OnTheWay' : cmd.op = "set" =>
              cmd \in OnTheWay \/ (cmd.born \in Nat /\ UnderWay(cmd.born) /\ ReadOf(cmd.id, cmd.e, cmd.born)),
           \A w \in Writers : wr'[w].pc = "created" => wr'[w] = wr[w],
           entry' # NoEntry /\ entry'.kind = "url" => HeldOf(entry'.id, entry'.e) /\ DoomOfStays
    PROVE  Bounded'
<1>1. \A t : UnderWay(t)' <=> UnderWay(t)
  BY DEF UnderWay
<1>2. \A i \in Instances : \A due \in timers'[i] : due <= now' + Delay
  OBVIOUS
<1>3. ASSUME NEW cmd \in OnTheWay', cmd.op = "set" PROVE ReadOf(cmd.id, cmd.e, cmd.born)'
  <2>1. cmd.born \in Nat /\ UnderWay(cmd.born) /\ ReadOf(cmd.id, cmd.e, cmd.born)
    BY <1>3, BoundedTypes DEF BInv, Bounded
  <2> QED
    BY <2>1, ReadStays
<1>4. ASSUME NEW i \in Instances, Loaded(i)', Active(flight[i].row)'
      PROVE  (ReadOf(flight[i].row.id, flight[i].row.e, flight[i].born) \/ Expired(flight[i].row.e, now))'
  <2> PICK load : load = flight'[i]
    OBVIOUS
  <2> PICK rw, t : rw = load.row /\ t = load.born
    OBVIOUS
  <2>1. Active(rw)
    BY <1>4 DEF Active
  <2>2. t \in Nat /\ UnderWay(t) /\ (ReadOf(rw.id, rw.e, t) \/ Expired(rw.e, now))
    <3>1. CASE Loaded(i) /\ load = flight[i]
      BY <2>1, <3>1, BoundedTypes DEF BInv, Bounded
    <3>2. CASE rw = row /\ t = now
      BY <2>1, <3>2, BoundedTypes, ReadCurrent, ReadNow DEF BInv
    <3> QED
      BY <1>4, <3>1, <3>2 DEF LoadsFollow
  <2>3. ReadOf(rw.id, rw.e, t)' \/ Expired(rw.e, now)
    BY <2>2, ReadStays
  <2>4. ReadOf(rw.id, rw.e, t)' <=> ReadOf(flight[i].row.id, flight[i].row.e, flight[i].born)'
    BY DEF ReadOf, CoveredOf, UntoldOf, Version
  <2> QED
    BY <2>3, <2>4 DEF Expired
<1>5. ASSUME NEW w \in Writers, wr'[w].pc = "created"
      PROVE  ReadOf(wr[w].row.id, wr[w].row.e, wr[w].born)'
  <2> PICK x : x = wr[w]
    OBVIOUS
  <2> PICK rw, t : rw = x.row /\ t = x.born
    OBVIOUS
  <2>1. x.pc = "created" /\ wr'[w] = x
    BY <1>5
  <2>2. t \in Nat /\ UnderWay(t) /\ ReadOf(rw.id, rw.e, t)
    BY <2>1, BoundedTypes DEF BInv, Bounded
  <2>3. ReadOf(rw.id, rw.e, t)'
    BY <2>2, ReadStays
  <2>4. ReadOf(rw.id, rw.e, t)' <=> ReadOf(wr[w].row.id, wr[w].row.e, wr[w].born)'
    BY <2>1 DEF ReadOf, CoveredOf, UntoldOf, Version
  <2> QED
    BY <2>3, <2>4
<1>6. ASSUME entry' # NoEntry, entry'.kind = "url" PROVE HeldOf(entry.id, entry.e)'
  <2> PICK en : en = entry'
    OBVIOUS
  <2> PICK id, e : id = en.id /\ e = en.e
    OBVIOUS
  <2>1. HeldOf(id, e) /\ DoomOfStays
    BY <1>6
  <2>2. HeldOf(id, e)'
    BY <2>1, HeldStays
  <2>3. HeldOf(id, e)' <=> HeldOf(entry.id, entry.e)'
    BY DEF HeldOf, DoomedOf, UntoldOf, Version
  <2> QED
    BY <2>2, <2>3
<1> QED
  BY <1>2, <1>3, <1>4, <1>5, <1>6 DEF Bounded

(* A step that keeps the timers and what is written, and takes no DEL. *)
LEMMA DelsStay ==
    ASSUME UNCHANGED timers, \A w \in Writers : wr[w].pc = "written" => wr'[w] = wr[w],
           \A cmd \in OnTheWay : cmd.op = "del" => cmd \in OnTheWay'
    PROVE  CoverOfStays /\ DoomOfStays
<1>1. \A at : UntoldOf(at) => UntoldOf(at)'
  BY DEF UntoldOf
<1>2. CoverOfStays
  BY <1>1 DEF CoverOfStays, CoveredOf, DueOf
<1>3. DoomOfStays
  BY <1>1 DEF DoomOfStays, DoomedOf, DueOf
<1> QED
  BY <1>2, <1>3

LEMMA SilentBounded ==
    ASSUME BInv, UNCHANGED <<now, row, hist, timers>>, LoadsFollow,
           \A w \in Writers : wr[w].pc = "written" => wr'[w] = wr[w],
           \A w \in Writers : wr'[w].pc = "created" => wr'[w] = wr[w],
           \A cmd \in OnTheWay : cmd.op = "del" => cmd \in OnTheWay',
           \A cmd \in OnTheWay' : cmd.op = "set" =>
              cmd \in OnTheWay \/ (cmd.born \in Nat /\ UnderWay(cmd.born) /\ ReadOf(cmd.id, cmd.e, cmd.born)),
           entry' # NoEntry /\ entry'.kind = "url" => entry' = entry \/ HeldOf(entry'.id, entry'.e)
    PROVE  Bounded'
<1>1. CoverOfStays /\ DoomOfStays
  BY DelsStay
<1>2. entry' # NoEntry /\ entry'.kind = "url" => HeldOf(entry'.id, entry'.e)
  BY DEF BInv, Bounded
<1>3. \A i \in Instances : \A due \in timers'[i] : due <= now + Delay
  BY BoundedTypes
<1> QED
  BY <1>1, <1>2, <1>3, QuietBounded

LEMMA ArriveBounded ==
    ASSUME BInv, NoneLost, NEW r \in Requests, NEW i \in Instances, Arrive(r, i)
    PROVE  Bounded'
<1> PICK cmd : cmd = [op |-> "get", r |-> r, born |-> now]
  OBVIOUS
<1>1. Sent(i, cmd) /\ UNCHANGED <<flight, wr>>
  BY NothingSkipped DEF Arrive
<1>2. cmd \in Command /\ cmd.op = "get"
  BY BoundedTypes DEF Command
<1>3. OnTheWay' = OnTheWay \cup {cmd}
  BY <1>1, <1>2, BoundedTypes, AppendDoes
<1>4. LoadsFollow
  BY <1>1 DEF LoadsFollow, Loaded
<1> QED
  BY <1>1, <1>2, <1>3, <1>4, SilentBounded DEF Arrive

LEMMA GetBounded ==
    ASSUME BInv, NEW i \in Instances, NEW k \in DOMAIN pipe[i], Leaves(i, k), pipe[i][k].op = "get",
           LoadsFollow, UNCHANGED <<now, row, entry, timers, wr, victim, hist>>
    PROVE  Bounded'
<1>1. OnTheWay' \subseteq OnTheWay /\ OnTheWay \subseteq OnTheWay' \cup {pipe[i][k]}
  BY DEF Leaves
<1> QED
  BY <1>1, SilentBounded

LEMMA RunGetBounded ==
    ASSUME BInv, NEW i \in Instances, RunGet(i)
    PROVE  Bounded'
<1>1. Leaves(i, 1) /\ 1 \in DOMAIN pipe[i] /\ pipe[i][1].op = "get"
  BY BoundedTypes, PopDoes DEF RunGet, Leaves
<1>2. LoadsFollow
  <2>1. CASE UNCHANGED flight
    BY <2>1 DEF LoadsFollow, Loaded
  <2>2. CASE Miss(Head(pipe[i]).r, i, req[Head(pipe[i]).r])
    BY <2>2, MissLoads DEF BInv, IInv
  <2> QED
    BY <2>1, <2>2 DEF RunGet, Got
<1> QED
  BY <1>1, <1>2, GetBounded DEF RunGet

LEMMA GetTimesOutBounded ==
    ASSUME BInv, NEW r \in Requests, GetTimesOut(r)
    PROVE  Bounded'
<1> PICK i : i = req[r].at
  OBVIOUS
<1>1. i \in Instances
  BY BoundedTypes DEF TypeOK, GetTimesOut
<1>2. PICK k \in DOMAIN pipe[i] : pipe[i][k].op = "get" /\ pipe' = [pipe EXCEPT ![i] = Without(@, k)]
  BY DEF GetTimesOut
<1>3. Leaves(i, k)
  BY <1>1, <1>2, WithoutDoes, BoundedTypes
<1>4. LoadsFollow
  BY <1>1, MissLoads DEF GetTimesOut, BInv, IInv
<1> QED
  BY <1>1, <1>2, <1>3, <1>4, GetBounded DEF GetTimesOut

LEMMA LoadBounded ==
    ASSUME BInv, NoneLost, NEW i \in Instances, LoadRead(i) \/ LoadDone(i) \/ LoadFails(i)
    PROVE  Bounded'
<1>1. CASE LoadRead(i)
  <2> PICK load : load = [phase |-> "result", row |-> row, born |-> now]
    OBVIOUS
  <2>1. flight' = [flight EXCEPT ![i] = load] /\ load.row = row /\ load.born = now
    BY <1>1 DEF LoadRead
  <2>2. LoadsFollow
    BY <2>1, BoundedTypes DEF LoadsFollow, Loaded, TypeOK
  <2> QED
    BY <1>1, <2>2, SamePipe, SilentBounded DEF LoadRead
<1>2. CASE LoadFails(i)
  <2>1. LoadsFollow
    BY <1>2, EndLoadLoads DEF LoadFails, BInv, IInv
  <2> QED
    BY <1>2, <2>1, SamePipe, SilentBounded DEF LoadFails
<1>3. CASE LoadDone(i)
  <2> PICK load : load = flight[i]
    OBVIOUS
  <2> PICK rw, t : rw = load.row /\ t = load.born
    OBVIOUS
  <2>1. Loaded(i) /\ t \in Nat /\ UnderWay(t) /\ rw \in Row \cup {NoRow}
    BY <1>3, BoundedTypes, LoadFields DEF LoadDone, Loaded
  <2>2. LoadsFollow
    BY <1>3, EndLoadLoads DEF LoadDone, BInv, IInv
  <2>3. ASSUME NEW cmd \in Command, Sent(i, cmd), cmd.born = t,
               cmd.op = "set" => ReadOf(cmd.id, cmd.e, t)
        PROVE  Bounded'
    <3>1. OnTheWay' = OnTheWay \cup {cmd}
      BY <2>3, BoundedTypes, AppendDoes
    <3> QED
      BY <1>3, <2>1, <2>2, <2>3, <3>1, SilentBounded DEF LoadDone
  <2>4. CASE Resolve(rw).kind = "not_found"
    <3> PICK cmd : cmd = [op |-> "neg", born |-> t]
      OBVIOUS
    <3>1. cmd \in Command /\ Sent(i, cmd) /\ cmd.born = t /\ cmd.op = "neg"
      BY <1>3, <2>1, <2>4, NothingSkipped DEF LoadDone, Command
    <3> QED
      BY <2>3, <3>1
  <2>5. CASE Resolve(rw).kind = "found"
    <3> PICK cmd : cmd = SetCommand(rw, t)
      OBVIOUS
    <3>1. Active(rw) /\ ~Expired(rw.e, now) /\ rw \in Row
      BY <2>1, <2>5 DEF Resolve, Evaluate, Active, NotFound
    <3>2. cmd \in Command /\ Sent(i, cmd)
      BY <1>3, <2>1, <2>5, <3>1, SetFormed, BoundedTypes, NothingSkipped DEF LoadDone
    <3>3. cmd.id = rw.id /\ cmd.e = rw.e /\ cmd.born = t
      BY DEF SetCommand
    <3>4. ReadOf(rw.id, rw.e, t)
      BY <2>1, <3>1 DEF BInv, Bounded
    <3> QED
      BY <2>3, <3>2, <3>3, <3>4
  <2>6. CASE Resolve(rw).kind = "expired"
    <3>1. UNCHANGED pipe
      BY <1>3, <2>6 DEF LoadDone
    <3> QED
      BY <1>3, <2>2, <3>1, SamePipe, SilentBounded DEF LoadDone
  <2>7. Resolve(rw).kind \in {"not_found", "found", "expired"}
    BY DEF Resolve, NotFound, Evaluate
  <2> QED
    BY <2>4, <2>5, <2>6, <2>7
<1> QED
  BY <1>1, <1>2, <1>3

LEMMA WriteThroughBounded ==
    ASSUME BInv, NoneLost, NEW w \in Writers, WriteThrough(w)
    PROVE  Bounded'
<1> PICK x : x = wr[w]
  OBVIOUS
<1> PICK i, rw, t : i = x.at /\ rw = x.row /\ t = x.born
  OBVIOUS
<1> PICK cmd : cmd = SetCommand(rw, t)
  OBVIOUS
<1>1. x.pc = "created" /\ i \in Instances /\ rw \in Row /\ t \in Nat /\ UnderWay(t) /\ Sent(i, cmd)
  BY BoundedTypes, WriterFields, NothingSkipped DEF WriteThrough
<1>2. cmd \in Command /\ cmd.id = rw.id /\ cmd.e = rw.e /\ cmd.born = t
  BY <1>1, SetFormed, BoundedTypes DEF SetCommand
<1>3. OnTheWay' = OnTheWay \cup {cmd}
  BY <1>1, <1>2, BoundedTypes, AppendDoes
<1>4. ReadOf(rw.id, rw.e, t)
  BY <1>1 DEF BInv, Bounded
<1>5. wr' = [wr EXCEPT ![w] = [pc |-> "idle"]]
  BY DEF WriteThrough
<1>6. \A v \in Writers : IF v = w THEN wr'[v].pc = "idle" ELSE wr'[v] = wr[v]
  BY <1>5, BoundedTypes DEF TypeOK
<1>7. LoadsFollow
  BY DEF WriteThrough, LoadsFollow, Loaded
<1> QED
  BY <1>1, <1>2, <1>3, <1>4, <1>6, <1>7, SilentBounded DEF WriteThrough

LEMMA EvictBounded ==
    ASSUME BInv, Evict \/ PurgeSelect
    PROVE  Bounded'
<1>1. LoadsFollow
  BY DEF Evict, PurgeSelect, LoadsFollow, Loaded
<1> QED
  BY <1>1, SamePipe, SilentBounded DEF Evict, PurgeSelect

(* A change is told: its second DEL is due later than what was read before can *)
(* arrive, and soon enough.                                                    *)
LEMMA InvalidateBounded ==
    ASSUME BInv, Spaced, NoneLost, NEW w \in Writers, Invalidate(w)
    PROVE  Bounded'
<1> PICK x, cmd : x = wr[w] /\ cmd = [op |-> "del", w |-> w, born |-> now]
  OBVIOUS
<1> PICK i, due : i = x.at /\ due = now + Delay
  OBVIOUS
<1>1. /\ x.pc = "written" /\ i \in Instances /\ x.born \in Nat /\ UnderWay(x.born) /\ Sent(i, cmd)
      /\ cmd \in Command /\ UNCHANGED <<now, row, entry, flight, req, victim, hist>>
  BY BoundedTypes, WriterFields, NothingSkipped DEF Invalidate, Command
<1>2. /\ timers'[i] = timers[i] \cup {due}
      /\ \A j \in Instances : j # i => timers'[j] = timers[j]
  BY <1>1, BoundedTypes DEF Invalidate, TypeOK
<1>3. \A v \in Writers : v # w => wr'[v] = wr[v]
  BY BoundedTypes DEF Invalidate, TypeOK
<1>4. wr'[w].pc # "created"
  <2>1. wr[w] \in Writer /\ wr[w].pc = "written"
    BY <1>1, BoundedTypes DEF TypeOK, Writer
  <2>2. [wr[w] EXCEPT !.pc = "deleting"].pc = "deleting"
    BY <2>1 DEF Writer
  <2> PICK deleting : deleting = [wr[w] EXCEPT !.pc = "deleting"]
    OBVIOUS
  <2>3. wr' = [wr EXCEPT ![w] = deleting] \/ wr' = [wr EXCEPT ![w] = [pc |-> "idle"]]
    BY DEF Invalidate
  <2> QED
    BY <2>2, <2>3, BoundedTypes DEF TypeOK
<1>5. OnTheWay' = OnTheWay \cup {cmd}
  BY <1>1, BoundedTypes, AppendDoes
<1>6. /\ now \in Nat /\ {Latency, Delay} \subseteq Nat \ {0} /\ due \in Nat
      /\ x.born <= now /\ now <= x.born + Latency
  BY <1>1, BoundedTypes DEF UnderWay
<1>7. ASSUME NEW at \in Nat, x.born <= at PROVE DueOf(at, due)
  BY <1>6, <1>7, <1>1 DEF DueOf
<1>8. ASSUME NEW at \in Nat, UntoldOf(at) PROVE UntoldOf(at)' \/ DueOf(at, due)
  <2>1. PICK v \in Writers : wr[v].pc = "written" /\ wr[v].born <= at
    BY <1>8 DEF UntoldOf
  <2> QED
    BY <1>3, <1>7, <2>1 DEF UntoldOf
<1>9. CoverOfStays
  <2> SUFFICES ASSUME NEW t \in Nat, NEW at \in Nat, UnderWay(t), CoveredOf(t, at) PROVE CoveredOf(t, at)'
    BY DEF CoverOfStays
  <2>1. t + Latency < due
    BY <1>6 DEF UnderWay, Spaced
  <2>2. CASE UntoldOf(at)
    <3>1. CASE UntoldOf(at)'
      BY <3>1 DEF CoveredOf
    <3>2. CASE DueOf(at, due)
      BY <1>1, <1>2, <2>1, <3>2 DEF CoveredOf, DueOf
    <3> QED
      BY <1>8, <2>2, <3>1, <3>2
  <2>3. CASE \E j \in Instances : \E d \in timers[j] : t + Latency < d /\ DueOf(at, d)
    <3>1. \A j \in Instances : timers[j] \subseteq timers'[j]
      BY <1>2
    <3> QED
      BY <2>3, <3>1 DEF CoveredOf, DueOf
  <2> QED
    BY <2>2, <2>3 DEF CoveredOf
<1>10. DoomOfStays
  <2> SUFFICES ASSUME NEW at \in Nat, DoomedOf(at) PROVE DoomedOf(at)'
    BY DEF DoomOfStays
  <2>1. CASE UntoldOf(at)
    <3>1. CASE UntoldOf(at)'
      BY <3>1 DEF DoomedOf
    <3>2. CASE DueOf(at, due)
      BY <1>1, <1>2, <3>2 DEF DoomedOf, DueOf
    <3> QED
      BY <1>8, <2>1, <3>1, <3>2
  <2>2. CASE \E j \in Instances : \E d \in timers[j] : DueOf(at, d)
    <3>1. \A j \in Instances : timers[j] \subseteq timers'[j]
      BY <1>2
    <3> QED
      BY <2>2, <3>1 DEF DoomedOf, DueOf
  <2>3. CASE \E c \in OnTheWay : c.op = "del" /\ DueOf(at, c.born)
    BY <1>5, <2>3 DEF DoomedOf, DueOf
  <2> QED
    BY <2>1, <2>2, <2>3 DEF DoomedOf
<1>11. \A j \in Instances : \A d \in timers'[j] : d <= now + Delay
  <2>1. due <= now + Delay
    BY <1>6
  <2> QED
    BY <1>1, <1>2, <2>1, BoundedTypes
<1>12. LoadsFollow
  BY <1>1 DEF LoadsFollow, Loaded
<1>13. entry' # NoEntry /\ entry'.kind = "url" => HeldOf(entry'.id, entry'.e)
  BY <1>1 DEF BInv, Bounded
<1>14. cmd.op = "del"
  OBVIOUS
<1>15. \A v \in Writers : wr'[v].pc = "created" => wr'[v] = wr[v]
  BY <1>3, <1>4
<1> QED
  BY <1>1, <1>5, <1>9, <1>10, <1>11, <1>12, <1>13, <1>14, <1>15, QuietBounded

LEMMA SecondDelBounded ==
    ASSUME BInv, NoneLost, NEW i \in Instances, NEW due \in timers[i], SecondDel(i, due)
    PROVE  Bounded'
<1> PICK cmd : cmd = [op |-> "del", w |-> Nobody, born |-> now]
  OBVIOUS
<1>1. /\ cmd \in Command /\ cmd.op = "del" /\ cmd.born = now /\ Sent(i, cmd)
      /\ UNCHANGED <<now, row, entry, flight, req, wr, victim, hist>>
  BY BoundedTypes, NothingSkipped DEF SecondDel, Command
<1>2. due = now
  BY BoundedTypes DEF SecondDel
<1>3. /\ timers'[i] = timers[i] \ {due}
      /\ \A j \in Instances : j # i => timers'[j] = timers[j]
  BY BoundedTypes DEF SecondDel, TypeOK
<1>4. OnTheWay' = OnTheWay \cup {cmd}
  BY <1>1, BoundedTypes, AppendDoes
<1>5. \A at : UntoldOf(at)' <=> UntoldOf(at)
  BY <1>1 DEF UntoldOf
<1>6. CoverOfStays
  <2> SUFFICES ASSUME NEW t \in Nat, NEW at \in Nat, UnderWay(t), CoveredOf(t, at) PROVE CoveredOf(t, at)'
    BY DEF CoverOfStays
  <2>1. ~(t + Latency < due)
    BY <1>2, BoundedTypes DEF UnderWay
  <2>2. \A j \in Instances : \A d \in timers[j] : t + Latency < d => d \in timers'[j]
    BY <1>3, <2>1
  <2> QED
    BY <1>5, <2>2 DEF CoveredOf, DueOf
<1>7. DoomOfStays
  <2> SUFFICES ASSUME NEW at \in Nat, DoomedOf(at) PROVE DoomedOf(at)'
    BY DEF DoomOfStays
  <2>1. CASE UntoldOf(at)
    BY <1>5, <2>1 DEF DoomedOf
  <2>2. CASE \E j \in Instances : \E d \in timers[j] : DueOf(at, d)
    <3>1. PICK j \in Instances : \E d \in timers[j] : DueOf(at, d)
      BY <2>2
    <3>2. PICK d \in timers[j] : DueOf(at, d)
      BY <3>1
    <3>3. CASE d \in timers'[j]
      BY <3>2, <3>3 DEF DoomedOf, DueOf
    <3>4. CASE d = due
      BY <1>1, <1>2, <1>4, <3>2, <3>4 DEF DoomedOf, DueOf
    <3> QED
      BY <1>3, <3>3, <3>4
  <2>3. CASE \E c \in OnTheWay : c.op = "del" /\ DueOf(at, c.born)
    BY <1>4, <2>3 DEF DoomedOf, DueOf
  <2> QED
    BY <2>1, <2>2, <2>3 DEF DoomedOf
<1>8. \A j \in Instances : \A d \in timers'[j] : d <= now + Delay
  BY <1>3, BoundedTypes
<1>9. LoadsFollow
  BY <1>1 DEF LoadsFollow, Loaded
<1>10. entry' # NoEntry /\ entry'.kind = "url" => HeldOf(entry'.id, entry'.e)
  BY <1>1 DEF BInv, Bounded
<1> QED
  BY <1>1, <1>4, <1>6, <1>7, <1>8, <1>9, <1>10, QuietBounded

LEMMA DelTimesOutBounded ==
    ASSUME BInv, NEW w \in Writers, DelTimesOut(w)
    PROVE  Bounded'
<1>1. UNCHANGED <<now, row, entry, flight, timers, req, victim, hist>>
  BY DEF DelTimesOut
<1>2. \A i \in Instances :
         /\ DOMAIN pipe'[i] = DOMAIN pipe[i]
         /\ \A k \in DOMAIN pipe[i] :
               IF pipe[i][k] \in Dels(w)
               THEN pipe'[i][k] \in Dels(Nobody) /\ pipe'[i][k].born = pipe[i][k].born
               ELSE pipe'[i][k] = pipe[i][k]
  BY BoundedTypes, Relabels
<1>3. \A cmd \in OnTheWay' : cmd.op = "set" => cmd \in OnTheWay
  <2> SUFFICES ASSUME NEW i \in Instances, NEW k \in DOMAIN pipe'[i], pipe'[i][k].op = "set"
               PROVE  pipe'[i][k] \in OnTheWay
    BY DEF OnTheWay
  <2>1. k \in DOMAIN pipe[i] /\ pipe'[i][k] = pipe[i][k]
    BY <1>2 DEF Dels
  <2> QED
    BY <2>1 DEF OnTheWay
<1>4. \A cmd \in OnTheWay : cmd.op = "del" => \E c \in OnTheWay' : c.op = "del" /\ c.born = cmd.born
  <2> SUFFICES ASSUME NEW i \in Instances, NEW k \in DOMAIN pipe[i], pipe[i][k].op = "del"
               PROVE  \E c \in OnTheWay' : c.op = "del" /\ c.born = pipe[i][k].born
    BY DEF OnTheWay
  <2> PICK c : c = pipe'[i][k]
    OBVIOUS
  <2>1. c.op = "del" /\ c.born = pipe[i][k].born
    BY <1>2 DEF Dels
  <2>2. c \in OnTheWay'
    BY <1>2 DEF OnTheWay
  <2> QED
    BY <2>1, <2>2
<1>5. \A v \in Writers : wr'[v] = wr[v] \/ (wr[v].pc = "deleting" /\ wr'[v].pc = "idle")
  BY BoundedTypes DEF DelTimesOut, TypeOK
<1>6. \A at : UntoldOf(at) => UntoldOf(at)'
  BY <1>5 DEF UntoldOf
<1>7. CoverOfStays
  BY <1>1, <1>6 DEF CoverOfStays, CoveredOf, DueOf
<1>8. DoomOfStays
  BY <1>1, <1>4, <1>6 DEF DoomOfStays, DoomedOf, DueOf
<1>9. LoadsFollow
  BY <1>1 DEF LoadsFollow, Loaded
<1>10. entry' # NoEntry /\ entry'.kind = "url" => HeldOf(entry'.id, entry'.e)
  BY <1>1 DEF BInv, Bounded
<1>11. \A j \in Instances : \A d \in timers'[j] : d <= now + Delay
  BY <1>1, BoundedTypes
<1> QED
  BY <1>1, <1>3, <1>5, <1>7, <1>8, <1>9, <1>10, <1>11, QuietBounded

LEMMA RunWriteBounded ==
    ASSUME BInv, NEW i \in Instances, RunWrite(i)
    PROVE  Bounded'
<1> PICK cmd : cmd = Head(pipe[i])
  OBVIOUS
<1>1. /\ cmd \in OnTheWay /\ OnTheWay' \subseteq OnTheWay /\ OnTheWay \subseteq OnTheWay' \cup {cmd}
  BY BoundedTypes, PopDoes DEF RunWrite, Leaves
<1>2. /\ cmd \in Command /\ cmd.op \in {"set", "neg", "del"} /\ entry' = Written(cmd)
      /\ UNCHANGED <<now, row, flight, timers, req, victim, hist>>
  BY <1>1, BoundedTypes, CommandFields DEF RunWrite
<1>3. LoadsFollow
  BY <1>2 DEF LoadsFollow, Loaded
<1>4. CASE cmd.op # "del"
  <2>1. UNCHANGED wr
    BY <1>4 DEF RunWrite
  <2>2. entry' # NoEntry /\ entry'.kind = "url" => HeldOf(entry'.id, entry'.e)
    <3>1. CASE cmd.op = "set"
      <4>1. ReadOf(cmd.id, cmd.e, cmd.born)
        BY <1>1, <3>1 DEF BInv, Bounded
      <4>2. HeldOf(cmd.id, cmd.e)
        BY <4>1, HeldIfRead
      <4>3. entry' = [kind |-> "url", id |-> cmd.id, e |-> cmd.e, dies |-> now + cmd.ttl]
        BY <1>2, <3>1 DEF Written
      <4>4. entry'.id = cmd.id /\ entry'.e = cmd.e
        BY <4>3
      <4> QED
        BY <4>2, <4>4
    <3>2. CASE cmd.op = "neg"
      <4>1. entry' = [kind |-> "none", dies |-> now + NegTtl]
        BY <1>2, <3>2 DEF Written
      <4> QED
        BY <4>1
    <3> QED
      BY <1>2, <1>4, <3>1, <3>2
  <2> QED
    BY <1>1, <1>2, <1>3, <1>4, <2>1, <2>2, SilentBounded
<1>5. CASE cmd.op = "del"
  <2>1. entry' = NoEntry
    BY <1>2, <1>5 DEF Written
  <2>2. wr' = wr \/ (cmd.w \in Writers /\ wr' = [wr EXCEPT ![cmd.w] = [pc |-> "idle"]])
    BY <1>2, <1>5, CommandFields DEF RunWrite
  <2>3. \A v \in Writers : wr'[v] = wr[v] \/ (wr'[v].pc = "idle" /\ wr[v].pc = "deleting")
    <3>1. cmd.w \in Writers => wr[cmd.w].pc = "deleting"
      BY <1>1, <1>2, <1>5 DEF BInv, IInv, OneDel, Dels
    <3> PICK w : w = cmd.w
      OBVIOUS
    <3> QED
      BY <2>2, <3>1, BoundedTypes DEF TypeOK
  <2>4. CoverOfStays
    <3>1. \A at : UntoldOf(at) => UntoldOf(at)'
      BY <2>3 DEF UntoldOf
    <3> QED
      BY <1>2, <3>1 DEF CoverOfStays, CoveredOf, DueOf
  <2>5. \A j \in Instances : \A d \in timers'[j] : d <= now + Delay
    BY <1>2, BoundedTypes
  <2> QED
    BY <1>1, <1>2, <1>3, <2>1, <2>3, <2>4, <2>5, QuietBounded
<1> QED
  BY <1>2, <1>4, <1>5

(* A commit: what was read of the version it replaces has to be covered. *)

LEMMA CommitKeepsRead ==
    ASSUME BInv, NEW rw \in Row \cup {NoRow}, Commit(rw), UNCHANGED <<now, timers>>,
           \A at \in Nat : UntoldOf(at) => UntoldOf(at)',
           NEW t \in Nat, NEW id, NEW e, ReadOf(id, e, t),
           Active(row) /\ row.id = id /\ row.e = e => CoveredOf(t, now)'
    PROVE  ReadOf(id, e, t)'
<1>1. PICK k \in DOMAIN hist : Version(k, id, e) /\ (k # Len(hist) => CoveredOf(t, hist[k + 1].at))
  BY DEF ReadOf
<1>2. /\ Len(hist') = Len(hist) + 1 /\ hist'[Len(hist')].at = now
      /\ DOMAIN hist \subseteq DOMAIN hist' /\ \A j \in DOMAIN hist : hist'[j] = hist[j]
  BY BoundedTypes, CommitDoes
<1>3. k \in 1..Len(hist) /\ Len(hist) \in Nat /\ k # Len(hist') /\ Version(k, id, e)'
  BY <1>1, <1>2, BoundedTypes DEF Version, Active
<1> PICK at : at = hist'[k + 1].at
  OBVIOUS
<1>4. CoveredOf(t, at)'
  <2>1. CASE k = Len(hist)
    <3>1. Active(row) /\ row.id = id /\ row.e = e /\ at = now
      BY <1>1, <1>2, <2>1, BoundedTypes DEF Version
    <3> QED
      BY <3>1 DEF CoveredOf, UntoldOf
  <2>2. CASE k # Len(hist)
    <3>1. k + 1 \in DOMAIN hist /\ at = hist[k + 1].at /\ at \in Nat
      BY <1>2, <1>3, <2>2, BoundedTypes
    <3>2. CoveredOf(t, at)
      BY <1>1, <2>2, <3>1
    <3> QED
      BY <3>1, <3>2 DEF CoveredOf, DueOf
  <2> QED
    BY <2>1, <2>2
<1>5. CoveredOf(t, hist[k + 1].at)'
  BY <1>4 DEF CoveredOf, UntoldOf
<1> QED
  BY <1>2, <1>3, <1>5 DEF ReadOf

LEMMA CommitKeepsHeld ==
    ASSUME BInv, NEW rw \in Row \cup {NoRow}, Commit(rw), UNCHANGED <<now, timers, pipe>>,
           \A at \in Nat : UntoldOf(at) => UntoldOf(at)', NEW id, NEW e, HeldOf(id, e),
           Active(row) /\ row.id = id /\ row.e = e => DoomedOf(now)'
    PROVE  HeldOf(id, e)'
<1>1. PICK k \in DOMAIN hist : Version(k, id, e) /\ (k # Len(hist) => DoomedOf(hist[k + 1].at))
  BY DEF HeldOf
<1>2. /\ Len(hist') = Len(hist) + 1 /\ hist'[Len(hist')].at = now
      /\ DOMAIN hist \subseteq DOMAIN hist' /\ \A j \in DOMAIN hist : hist'[j] = hist[j]
  BY BoundedTypes, CommitDoes
<1>3. k \in 1..Len(hist) /\ Len(hist) \in Nat /\ k # Len(hist') /\ Version(k, id, e)'
  BY <1>1, <1>2, BoundedTypes DEF Version, Active
<1> PICK at : at = hist'[k + 1].at
  OBVIOUS
<1>4. DoomedOf(at)'
  <2>1. CASE k = Len(hist)
    <3>1. Active(row) /\ row.id = id /\ row.e = e /\ at = now
      BY <1>1, <1>2, <2>1, BoundedTypes DEF Version
    <3> QED
      BY <3>1 DEF DoomedOf, UntoldOf
  <2>2. CASE k # Len(hist)
    <3>1. k + 1 \in DOMAIN hist /\ at = hist[k + 1].at /\ at \in Nat
      BY <1>2, <1>3, <2>2, BoundedTypes
    <3>2. DoomedOf(at)
      BY <1>1, <2>2, <3>1
    <3> QED
      BY <3>1, <3>2, SamePipe DEF DoomedOf, DueOf
  <2> QED
    BY <2>1, <2>2
<1>5. DoomedOf(hist[k + 1].at)'
  BY <1>4 DEF DoomedOf, UntoldOf
<1> QED
  BY <1>2, <1>3, <1>5 DEF HeldOf

(* What is under way when a row is replaced, or gone. *)
LEMMA CommitBounded ==
    ASSUME BInv, NEW rw \in Row \cup {NoRow}, Commit(rw),
           UNCHANGED <<now, entry, pipe, flight, timers, req>>,
           \A at \in Nat : UntoldOf(at) => UntoldOf(at)',
           \A w \in Writers : wr'[w].pc = "created" =>
              wr'[w] = wr[w] \/ ReadOf(wr[w].row.id, wr[w].row.e, wr[w].born)',
           \A cmd \in OnTheWay : cmd.op = "set" /\ Reflects(cmd, row) => CoveredOf(cmd.born, now)',
           \A i \in Instances : Loaded(i) /\ Active(flight[i].row) /\ Reflects(flight[i].row, row) =>
              CoveredOf(flight[i].born, now)' \/ Expired(flight[i].row.e, now),
           \A w \in Writers : wr[w].pc = "created" /\ Reflects(wr[w].row, row) => CoveredOf(wr[w].born, now)',
           entry # NoEntry /\ entry.kind = "url" /\ Reflects(entry, row) => DoomedOf(now)'
    PROVE  Bounded'
<1>1. \A i \in Instances : \A due \in timers'[i] : due <= now' + Delay
  BY BoundedTypes
<1>2. ASSUME NEW cmd \in OnTheWay', cmd.op = "set" PROVE ReadOf(cmd.id, cmd.e, cmd.born)'
  <2>1. cmd \in OnTheWay /\ cmd.born \in Nat
    BY SamePipe, BoundedTypes
  <2>2. ReadOf(cmd.id, cmd.e, cmd.born)
    BY <1>2, <2>1 DEF BInv, Bounded
  <2>3. Active(row) /\ row.id = cmd.id /\ row.e = cmd.e => CoveredOf(cmd.born, now)'
    BY <1>2, <2>1 DEF Reflects, Active
  <2> QED
    BY <2>1, <2>2, <2>3, CommitKeepsRead
<1>3. ASSUME NEW i \in Instances, Loaded(i)', Active(flight[i].row)'
      PROVE  (ReadOf(flight[i].row.id, flight[i].row.e, flight[i].born) \/ Expired(flight[i].row.e, now))'
  <2> PICK load : load = flight[i]
    OBVIOUS
  <2> PICK x, t : x = load.row /\ t = load.born
    OBVIOUS
  <2>1. Loaded(i) /\ Active(x) /\ t \in Nat
    BY <1>3, BoundedTypes DEF Loaded, Active
  <2>2. ReadOf(x.id, x.e, t) \/ Expired(x.e, now)
    BY <2>1 DEF BInv, Bounded
  <2>3. Active(row) /\ row.id = x.id /\ row.e = x.e => CoveredOf(flight[i].born, now)' \/ Expired(x.e, now)
    BY <2>1 DEF Reflects, Active
  <2>4. CoveredOf(flight[i].born, now)' <=> CoveredOf(t, now)'
    BY DEF CoveredOf
  <2>5. ReadOf(x.id, x.e, t)' \/ Expired(x.e, now)
    BY <2>1, <2>2, <2>3, <2>4, CommitKeepsRead
  <2>6. ReadOf(x.id, x.e, t)' <=> ReadOf(flight[i].row.id, flight[i].row.e, flight[i].born)'
    BY DEF ReadOf, CoveredOf, UntoldOf, Version
  <2> QED
    BY <2>5, <2>6 DEF Expired
<1>4. ASSUME NEW w \in Writers, wr'[w].pc = "created"
      PROVE  ReadOf(wr[w].row.id, wr[w].row.e, wr[w].born)'
  <2> SUFFICES ASSUME wr'[w] = wr[w] PROVE ReadOf(wr[w].row.id, wr[w].row.e, wr[w].born)'
    BY <1>4
  <2> PICK x : x = wr[w]
    OBVIOUS
  <2> PICK y, t : y = x.row /\ t = x.born
    OBVIOUS
  <2>1. x.pc = "created" /\ t \in Nat /\ ReadOf(y.id, y.e, t)
    BY <1>4, BoundedTypes DEF BInv, Bounded
  <2>2. Active(row) /\ row.id = y.id /\ row.e = y.e => CoveredOf(wr[w].born, now)'
    BY <2>1 DEF Reflects, Active
  <2>3. CoveredOf(wr[w].born, now)' <=> CoveredOf(t, now)'
    BY DEF CoveredOf, UntoldOf
  <2>4. ReadOf(y.id, y.e, t)'
    BY <2>1, <2>2, <2>3, CommitKeepsRead
  <2>5. ReadOf(y.id, y.e, t)' <=> ReadOf(wr[w].row.id, wr[w].row.e, wr[w].born)'
    BY DEF ReadOf, CoveredOf, UntoldOf, Version
  <2> QED
    BY <2>4, <2>5
<1>5. ASSUME entry' # NoEntry, entry'.kind = "url" PROVE HeldOf(entry.id, entry.e)'
  <2> PICK en : en = entry
    OBVIOUS
  <2> PICK id, e : id = en.id /\ e = en.e
    OBVIOUS
  <2>1. HeldOf(id, e)
    BY <1>5 DEF BInv, Bounded
  <2>2. Active(row) /\ row.id = id /\ row.e = e => DoomedOf(now)'
    BY <1>5 DEF Reflects, Active
  <2>3. HeldOf(id, e)'
    BY <2>1, <2>2, CommitKeepsHeld
  <2>4. HeldOf(id, e)' <=> HeldOf(entry.id, entry.e)'
    BY DEF HeldOf, DoomedOf, UntoldOf, Version
  <2> QED
    BY <2>3, <2>4
<1> QED
  BY <1>1, <1>2, <1>3, <1>4, <1>5 DEF Bounded

LEMMA ChangesBounded ==
    ASSUME BInv, NEW w \in Writers, NEW i \in Instances,
           \/ \E s \in {"active", "disabled"} : UpdateStatus(w, i, s)
           \/ \E e \in Expiries : UpdateExpiry(w, i, e)
           \/ Delete(w, i),
           TypeOK'
    PROVE  Bounded'
<1>1. \E rw : Writes(w, i, "written", rw)
  BY DEF UpdateStatus, UpdateExpiry, Delete
<1>2. PICK rw : Writes(w, i, "written", rw)
  BY <1>1
<1>3. Commit(rw) /\ row' = rw /\ UNCHANGED <<now, entry, pipe, flight, timers, req>> /\ wr[w].pc = "idle"
  BY <1>2 DEF Writes, Commit
<1>4. rw \in Row \cup {NoRow}
  BY <1>3 DEF TypeOK
<1> PICK x : x = [pc |-> "written", at |-> i, row |-> rw, born |-> now]
  OBVIOUS
<1>5. x.pc = "written" /\ x.born = now /\ wr' = [wr EXCEPT ![w] = x]
  BY <1>2 DEF Writes
<1>6. wr'[w] = x /\ \A v \in Writers : v # w => wr'[v] = wr[v]
  BY <1>5, BoundedTypes DEF TypeOK
<1>7. \A at : UntoldOf(at) => UntoldOf(at)'
  <2> SUFFICES ASSUME NEW at, UntoldOf(at) PROVE UntoldOf(at)'
    OBVIOUS
  <2>1. PICK v \in Writers : wr[v].pc = "written" /\ wr[v].born <= at
    BY DEF UntoldOf
  <2>2. wr'[v] = wr[v]
    BY <1>3, <1>6, <2>1
  <2> QED
    BY <2>1, <2>2 DEF UntoldOf
<1>8. UntoldOf(now)'
  <2>1. now <= now
    BY BoundedTypes
  <2> QED
    BY <1>3, <1>5, <1>6, <2>1 DEF UntoldOf
<1>9. (\A t : CoveredOf(t, now)') /\ DoomedOf(now)'
  BY <1>8 DEF CoveredOf, DoomedOf, UntoldOf
<1>10. \A v \in Writers : wr'[v].pc = "created" => wr'[v] = wr[v]
  BY <1>5, <1>6
<1>11. (\A j \in Instances : CoveredOf(flight[j].born, now)') /\ \A v \in Writers : CoveredOf(wr[v].born, now)'
  BY <1>8 DEF CoveredOf, UntoldOf
<1> QED
  BY <1>3, <1>4, <1>7, <1>9, <1>10, <1>11, CommitBounded

LEMMA CreateBounded ==
    ASSUME BInv, TypeOK', NEW w \in Writers, NEW i \in Instances,
           NEW user \in Users, NEW e \in Expiries, Create(w, i, user, e)
    PROVE  Bounded'
<1>1. \E rw : Writes(w, i, "created", rw) /\ rw.status = "active"
  BY DEF Create
<1>2. PICK rw : Writes(w, i, "created", rw) /\ rw.status = "active"
  BY <1>1
<1>3. /\ Commit(rw) /\ row' = rw /\ UNCHANGED <<now, entry, pipe, flight, timers, req>> /\ wr[w].pc = "idle"
      /\ row = NoRow /\ rw \in Row \cup {NoRow}
  BY <1>2 DEF Writes, Commit, Create, TypeOK
<1> PICK x : x = [pc |-> "created", at |-> i, row |-> rw, born |-> now]
  OBVIOUS
<1>4. x.row = rw /\ wr' = [wr EXCEPT ![w] = x]
  BY <1>2 DEF Writes
<1>5. wr'[w] = x /\ \A v \in Writers : v # w => wr'[v] = wr[v]
  BY <1>4, BoundedTypes DEF TypeOK
<1>6. \A at : UntoldOf(at) => UntoldOf(at)'
  <2> SUFFICES ASSUME NEW at, UntoldOf(at) PROVE UntoldOf(at)'
    OBVIOUS
  <2>1. PICK v \in Writers : wr[v].pc = "written" /\ wr[v].born <= at
    BY DEF UntoldOf
  <2>2. wr'[v] = wr[v]
    BY <1>3, <1>5, <2>1
  <2> QED
    BY <2>1, <2>2 DEF UntoldOf
<1>7. rw # NoRow
  <2>1. wr'[w].pc = "created" /\ wr'[w] \in Writer
    BY <1>4, <1>5 DEF TypeOK, Writer
  <2>2. wr'[w].row \in Row
    BY <2>1 DEF Writer
  <2> QED
    BY <1>4, <1>5, <2>2, AbsentAssumption
<1>8. ReadOf(wr[w].row.id, wr[w].row.e, wr[w].born)'
  <2>1. Len(hist') \in DOMAIN hist' /\ hist'[Len(hist')].row = rw
    BY <1>3, BoundedTypes, CommitDoes
  <2>2. Version(Len(hist), rw.id, rw.e)'
    BY <1>2, <1>7, <2>1 DEF Version, Active
  <2> QED
    BY <1>4, <1>5, <2>1, <2>2 DEF ReadOf, Version
<1>9. \A v \in Writers : wr'[v].pc = "created" =>
              wr'[v] = wr[v] \/ ReadOf(wr[v].row.id, wr[v].row.e, wr[v].born)'
  BY <1>5, <1>8
<1>10. \A any : ~Reflects(any, row)
  BY <1>3 DEF Reflects
<1> QED
  BY <1>3, <1>6, <1>9, <1>10, CommitBounded

(* The purge sends no DEL: nothing is left of its row, or the DEL of the change *)
(* that renewed it is still to come.                                            *)
LEMMA PurgeDeleteBounded ==
    ASSUME BInv, Spaced, PurgeDelete
    PROVE  Bounded'
<1>0. UNCHANGED <<now, entry, pipe, flight, timers, req, wr>> /\ victim # Nobody
  BY DEF PurgeDelete
<1>1. CASE UNCHANGED <<row, hist>>
  <2>1. LoadsFollow
    BY <1>0 DEF LoadsFollow, Loaded
  <2> QED
    BY <1>0, <1>1, <2>1, SamePipe, SilentBounded
<1>2. CASE row # NoRow /\ row.id = victim.id /\ Commit(NoRow)
  <2>1. \A at : UntoldOf(at) => UntoldOf(at)'
    BY <1>0 DEF UntoldOf
  <2>2. /\ now \in Nat /\ Latency \in Nat \ {0} /\ Delay \in Nat \ {0} /\ Grace \in Nat \ {0}
        /\ victim.born \in Nat /\ UnderWay(victim.born)
        /\ row.e \in Nat \cup {Never} /\ row.purge = PurgeAt(row.e)
    BY <1>0, <1>2, TimesAssumption DEF BInv, IInv, Typed, TypeOK, Timely, RowFormed, Row
  <2>3. CASE row.purge # Never /\ row.purge < victim.born
    <3> PICK e : e = row.e
      OBVIOUS
    <3>1. e \in Nat /\ e # Never /\ e + Grace < now /\ e + Latency < now
      BY <2>2, <2>3, ExpiriesAssumption DEF PurgeAt, UnderWay, Spaced
    <3>2. ASSUME NEW cmd \in OnTheWay, cmd.op = "set" PROVE cmd.e # e
      <4>1. cmd.born \in Nat /\ UnderWay(cmd.born) /\ SetInTime(cmd) /\ cmd.ttl \in Nat \ {0}
        BY <3>2, BoundedTypes, CommandFields DEF BInv, IInv, ReadInTime
      <4> QED
        BY <2>2, <3>1, <3>2, <4>1 DEF SetInTime, UnderWay
    <3>3. ASSUME NEW i \in Instances, flight[i].row.e = e PROVE Expired(flight[i].row.e, now)
      BY <2>2, <3>1, <3>3 DEF Expired
    <3>4. ASSUME NEW w \in Writers, wr[w].pc = "created" PROVE wr[w].row.e # e
      <4>1. wr[w].born \in Nat /\ UnderWay(wr[w].born)
        BY <3>4, BoundedTypes
      <4>2. wr[w].row.e # Never => wr[w].born < wr[w].row.e
        BY <3>4 DEF BInv, IInv, ReadInTime
      <4> QED
        BY <2>2, <3>1, <4>1, <4>2 DEF UnderWay
    <3>5. ASSUME entry # NoEntry, entry.kind = "url" PROVE entry.e # e
      <4>1. entry.dies \in Nat
        BY <3>5, BoundedTypes DEF TypeOK, Entry
      <4> QED
        BY <2>2, <3>1, <3>5, <4>1 DEF BInv, IInv, ReadInTime, EntryInTime
    <3> QED
      BY <1>0, <1>2, <2>1, <3>2, <3>3, <3>4, <3>5, CommitBounded DEF Reflects
  <2>4. CASE Renewed(victim.born)
    <3> PICK b : b = victim.born
      OBVIOUS
    <3>1. ASSUME NEW t \in Nat, UnderWay(t) PROVE CoveredOf(t, now) /\ DoomedOf(now)
      <4>1. CASE Untold
        <5>1. UntoldOf(now)
          BY <4>1, BoundedTypes DEF Untold, UntoldOf, UnderWay
        <5> QED
          BY <5>1 DEF CoveredOf, DoomedOf
      <4>2. CASE \E i \in Instances : \E due \in timers[i] : b + Delay <= due
        <5>1. PICK i \in Instances : \E due \in timers[i] : b + Delay <= due
          BY <4>2
        <5>2. PICK due \in timers[i] : b + Delay <= due
          BY <5>1
        <5>3. due \in Nat /\ due <= now + Delay
          BY BoundedTypes
        <5>4. t + Latency < due /\ DueOf(now, due)
          BY <2>2, <3>1, <5>2, <5>3 DEF UnderWay, Spaced, DueOf
        <5> QED
          BY <5>4 DEF CoveredOf, DoomedOf
      <4> QED
        BY <2>4, <4>1, <4>2 DEF Renewed
    <3>2. \A t : CoveredOf(t, now)' <=> CoveredOf(t, now)
      BY <1>0 DEF CoveredOf, UntoldOf, DueOf
    <3>3. DoomedOf(now)' <=> DoomedOf(now)
      BY <1>0, SamePipe DEF DoomedOf, UntoldOf, DueOf
    <3>4. /\ \A i \in Instances : CoveredOf(flight[i].born, now)' <=> CoveredOf(flight[i].born, now)
          /\ \A w \in Writers : CoveredOf(wr[w].born, now)' <=> CoveredOf(wr[w].born, now)
      BY <1>0 DEF CoveredOf, UntoldOf, DueOf
    <3>5. /\ \A cmd \in OnTheWay : CoveredOf(cmd.born, now)'
          /\ \A i \in Instances : Loaded(i) => CoveredOf(flight[i].born, now)'
          /\ \A w \in Writers : wr[w].pc = "created" => CoveredOf(wr[w].born, now)'
          /\ DoomedOf(now)'
      BY <2>2, <3>1, <3>2, <3>3, <3>4, BoundedTypes
    <3> QED
      BY <1>0, <1>2, <2>1, <3>5, CommitBounded
  <2> QED
    BY <1>0, <1>2, <2>3, <2>4 DEF BInv, IInv, Selected
<1> QED
  BY <1>1, <1>2 DEF PurgeDelete

LEMMA TickBounded ==
    ASSUME BInv, Tick
    PROVE  Bounded'
<1>0. now' = now + 1 /\ now \in Nat /\ UNCHANGED <<row, pipe, flight, timers, req, wr, victim, hist>>
  BY BoundedTypes DEF Tick
<1>1. \A i \in Instances : \A due \in timers'[i] : due <= now' + Delay
  <2> SUFFICES ASSUME NEW i \in Instances, NEW due \in timers[i] PROVE due <= now' + Delay
    BY <1>0
  <2>1. due \in Nat /\ due <= now + Delay /\ Delay \in Nat
    BY BoundedTypes
  <2> QED
    BY <1>0, <2>1
<1>2. \A id, e, t : ReadOf(id, e, t)' <=> ReadOf(id, e, t)
  BY <1>0 DEF ReadOf, Version, Active, CoveredOf, UntoldOf, DueOf
<1>3. \A id, e : HeldOf(id, e)' <=> HeldOf(id, e)
  BY <1>0, SamePipe DEF HeldOf, Version, Active, DoomedOf, UntoldOf, DueOf
<1>4. \A cmd \in OnTheWay' : cmd.op = "set" => ReadOf(cmd.id, cmd.e, cmd.born)'
  BY <1>0, <1>2, SamePipe DEF BInv, Bounded
<1>5. ASSUME NEW i \in Instances, Loaded(i)', Active(flight[i].row)'
      PROVE  (ReadOf(flight[i].row.id, flight[i].row.e, flight[i].born) \/ Expired(flight[i].row.e, now))'
  <2> PICK load : load = flight[i]
    OBVIOUS
  <2> PICK x, t : x = load.row /\ t = load.born
    OBVIOUS
  <2>1. Loaded(i) /\ Active(x) /\ flight'[i] = load
    BY <1>0, <1>5 DEF Loaded, Active
  <2>2. ReadOf(x.id, x.e, t) \/ Expired(x.e, now)
    BY <2>1 DEF BInv, Bounded
  <2>3. Expired(x.e, now) => Expired(x.e, now')
    <3>1. x.e \in Nat \cup {Never}
      BY <2>1, BoundedTypes, LoadFields DEF Active, Row
    <3> QED
      BY <1>0, <3>1 DEF Expired
  <2>4. ReadOf(x.id, x.e, t)' <=> ReadOf(flight[i].row.id, flight[i].row.e, flight[i].born)'
    BY <2>1 DEF ReadOf, CoveredOf, UntoldOf, Version
  <2> QED
    BY <1>2, <2>1, <2>2, <2>3, <2>4 DEF Expired
<1>6. ASSUME NEW w \in Writers, wr'[w].pc = "created"
      PROVE  ReadOf(wr[w].row.id, wr[w].row.e, wr[w].born)'
  <2> PICK x : x = wr[w]
    OBVIOUS
  <2>1. wr'[w] = x /\ ReadOf(x.row.id, x.row.e, x.born)
    BY <1>0, <1>6 DEF BInv, Bounded
  <2>2. ReadOf(x.row.id, x.row.e, x.born)'
    BY <1>2, <2>1
  <2>3. ReadOf(x.row.id, x.row.e, x.born)' <=> ReadOf(wr[w].row.id, wr[w].row.e, wr[w].born)'
    BY <2>1 DEF ReadOf, CoveredOf, UntoldOf, Version
  <2> QED
    BY <2>2, <2>3
<1>7. ASSUME entry' # NoEntry, entry'.kind = "url" PROVE HeldOf(entry.id, entry.e)'
  <2> PICK en : en = entry
    OBVIOUS
  <2>1. entry' = en /\ HeldOf(en.id, en.e)
    BY <1>7 DEF Tick, BInv, Bounded
  <2>2. HeldOf(en.id, en.e)'
    BY <1>3, <2>1
  <2>3. HeldOf(en.id, en.e)' <=> HeldOf(entry.id, entry.e)'
    BY <2>1 DEF HeldOf, DoomedOf, UntoldOf, Version
  <2> QED
    BY <2>2, <2>3
<1> QED
  BY <1>1, <1>4, <1>5, <1>6, <1>7 DEF Bounded

LEMMA BInvInit == Init => BInv
<1> SUFFICES ASSUME Init PROVE Bounded
  BY IInvInit, FInvInit DEF BInv
<1>1. OnTheWay = {} /\ (\A i \in Instances : ~Loaded(i)) /\ entry = NoEntry /\ \A i \in Instances : timers[i] = {}
  BY DEF Init, OnTheWay, Loaded
<1>2. \A w \in Writers : wr[w].pc = "idle"
  BY DEF Init
<1> QED
  BY <1>1, <1>2 DEF Bounded

LEMMA BInvNext ==
    ASSUME BInv, Spaced, NoneLost, [Next]_vars
    PROVE  BInv'
<1>0. IInv' /\ FInv' /\ TypeOK'
  BY IInvNext, FInvNext DEF BInv, FInv, Typed
<1> SUFFICES Bounded'
  BY <1>0 DEF BInv
<1>1. CASE Redirecting
  BY <1>1, ArriveBounded, RunGetBounded, LoadBounded DEF Redirecting
<1>2. CASE Writing
  BY <1>0, <1>2, CreateBounded, ChangesBounded, WriteThroughBounded, InvalidateBounded, DelTimesOutBounded,
     RunWriteBounded, SecondDelBounded, EvictBounded, PurgeDeleteBounded DEF Writing
<1>3. CASE Environment
  BY <1>3, TickBounded, EvictBounded, GetTimesOutBounded, NothingSkipped DEF Environment
<1>4. CASE UNCHANGED vars
  <2>1. LoadsFollow
    BY <1>4 DEF vars, LoadsFollow, Loaded
  <2> QED
    BY <1>4, <2>1, SamePipe, SilentBounded DEF vars
<1> QED
  BY <1>1, <1>2, <1>3, <1>4 DEF Next

(* A change whose second DEL is to come, or on its way, is not old. *)
LEMMA DoomedIsRecent ==
    ASSUME BInv, NEW at \in Nat, DoomedOf(at)
    PROVE  now <= at + Delay + 2 * Latency
<1>1. now \in Nat /\ {Latency, Delay} \subseteq Nat \ {0}
  BY BoundedTypes
<1>2. CASE UntoldOf(at)
  <2>1. PICK w \in Writers : wr[w].pc = "written" /\ wr[w].born <= at
    BY <1>2 DEF UntoldOf
  <2>2. wr[w].born \in Nat /\ now <= wr[w].born + Latency
    BY <2>1, BoundedTypes DEF UnderWay
  <2> QED
    BY <1>1, <2>1, <2>2
<1>3. CASE \E i \in Instances : \E due \in timers[i] : DueOf(at, due)
  <2>1. PICK i \in Instances : \E due \in timers[i] : DueOf(at, due)
    BY <1>3
  <2>2. PICK due \in timers[i] : DueOf(at, due)
    BY <2>1
  <2>3. due \in Nat /\ now <= due
    BY BoundedTypes
  <2> QED
    BY <1>1, <2>2, <2>3 DEF DueOf
<1>4. CASE \E cmd \in OnTheWay : cmd.op = "del" /\ DueOf(at, cmd.born)
  <2>1. PICK cmd \in OnTheWay : DueOf(at, cmd.born)
    BY <1>4
  <2>2. cmd.born \in Nat /\ now <= cmd.born + Latency
    BY BoundedTypes DEF UnderWay
  <2> QED
    BY <1>1, <2>1, <2>2 DEF DueOf
<1> QED
  BY <1>2, <1>3, <1>4 DEF DoomedOf

(* The age that BoundedStaleness allows an answer. *)
Age(a) == IF a = NotFound THEN NegTtl ELSE Delay
Timed == EveryAnswer(LAMBDA r, a :
            a \in RightSince(req[r].since - (IF a = NotFound THEN NegTtl ELSE Delay) - 2 * Latency))

LEMMA RecentHit ==
    ASSUME BInv, entry # NoEntry, NEW since \in Nat, since <= now
    PROVE  ResolveEntry \in RightSince(since - Age(ResolveEntry) - 2 * Latency)
<1>1. /\ TypeOK /\ {Latency, Delay, NegTtl, now} \subseteq Nat
      /\ entry \in Entry /\ entry.kind \in {"url", "none"}
  BY BoundedTypes, TimesAssumption DEF TypeOK, Entry
<1>2. CASE entry.kind = "none"
  <2> PICK d : d = entry.dies
    OBVIOUS
  <2> PICK u, t : u = d - Latency - NegTtl /\ t = since - NegTtl - 2 * Latency
    OBVIOUS
  <2>1. d \in Nat /\ now < d /\ GoneSince(u)
    BY <1>1, <1>2 DEF BInv, FInv, AllFine, EntryFine, Entry
  <2>2. u \in Int /\ t \in Int /\ t <= u
    BY <1>1, <2>1
  <2>3. NotFound \in RightSince(t)
    BY <1>1, <2>1, <2>2, RightIfSince
  <2>4. ResolveEntry = NotFound /\ Age(ResolveEntry) = NegTtl
    BY <1>2 DEF ResolveEntry, Age
  <2> QED
    BY <2>3, <2>4
<1>3. CASE entry.kind = "url"
  <2> PICK id, e : id = entry.id /\ e = entry.e
    OBVIOUS
  <2>1. PICK k \in DOMAIN hist : Version(k, id, e) /\ (k # Len(hist) => DoomedOf(hist[k + 1].at))
    BY <1>3 DEF BInv, Bounded, HeldOf
  <2> PICK t : t = since - Delay - 2 * Latency
    OBVIOUS
  <2>2. k = Len(hist) \/ hist[k + 1].at >= t
    <3> SUFFICES ASSUME k # Len(hist) PROVE hist[k + 1].at >= t
      OBVIOUS
    <3> PICK at : at = hist[k + 1].at
      OBVIOUS
    <3>1. at \in Nat /\ DoomedOf(at)
      BY <2>1, BoundedTypes
    <3>2. now <= at + Delay + 2 * Latency
      BY <3>1, DoomedIsRecent
    <3> QED
      BY <1>1, <3>1, <3>2
  <2>3. Resolve(hist[k].row) = Evaluate(id, e)
    BY <2>1 DEF Version, Active, Resolve
  <2>4. Evaluate(id, e) \in RightSince(t)
    BY <2>2, <2>3 DEF RightSince
  <2>5. ResolveEntry = Evaluate(id, e) /\ ResolveEntry # NotFound
    BY <1>3 DEF ResolveEntry, Evaluate, NotFound
  <2>6. Age(ResolveEntry) = Delay
    BY <2>5 DEF Age
  <2> QED
    BY <2>4, <2>5, <2>6
<1> QED
  BY <1>1, <1>2, <1>3

LEMMA RecentLoad ==
    ASSUME BInv, NEW i \in Instances, Loaded(i), NEW since \in Nat, since <= now
    PROVE  LET a == Resolve(flight[i].row) IN a \in RightSince(since - Age(a) - 2 * Latency)
<1> PICK u, rw, a : u = flight[i].born /\ rw = flight[i].row /\ a = Resolve(flight[i].row)
  OBVIOUS
<1> PICK t : t = since - Age(a) - 2 * Latency
  OBVIOUS
<1>1. /\ TypeOK /\ {Latency, now} \subseteq Nat /\ u \in Nat /\ now <= u + Latency /\ RowSince(rw, u)
      /\ Age(a) \in Nat
  BY BoundedTypes, TimesAssumption DEF BInv, FInv, AllFine, LoadFine, UnderWay, Age
<1>2. t \in Int /\ t <= u
  BY <1>1
<1>3. Resolve(rw) \in RightSince(t)
  BY <1>1, <1>2, RightIfSince
<1> QED
  BY <1>3

LEMMA AnswersTimed ==
    ASSUME BInv
    PROVE  Timed
<1>1. ASSUME NEW i \in Instances, RunGet(i), entry # NoEntry
      PROVE  ResolveEntry \in RightSince(req[Head(pipe[i]).r].since - Age(ResolveEntry) - 2 * Latency)
  <2> PICK r : r = Head(pipe[i]).r
    OBVIOUS
  <2>1. Head(pipe[i]) = pipe[i][1] /\ 1 \in DOMAIN pipe[i]
    BY <1>1, BoundedTypes, PopDoes DEF RunGet, Leaves
  <2>2. r \in Requests /\ req[r].pc = "get"
    BY <1>1, <2>1, Asker DEF RunGet, BInv
  <2>3. req[r].since \in Nat /\ req[r].since <= now
    BY <2>2 DEF BInv, FInv, AllFine, Typed, TypeOK
  <2> QED
    BY <1>1, <2>3, RecentHit
<1>2. ASSUME NEW i \in Instances, LoadDone(i), NEW r \in Joined(i)
      PROVE  LET a == Resolve(flight[i].row) IN a \in RightSince(req[r].since - Age(a) - 2 * Latency)
  <2>1. Loaded(i)
    BY <1>2 DEF LoadDone, Loaded
  <2>2. req[r].since \in Nat /\ req[r].since <= now
    BY DEF Joined, BInv, FInv, AllFine, Typed, TypeOK
  <2> QED
    BY <2>1, <2>2, RecentLoad
<1> QED
  BY <1>1, <1>2 DEF Timed, EveryAnswer, Age

(* While no command is lost, what a visitor is told was right at most a Delay   *)
(* and two latencies before the visitor came, or at some moment since then: the *)
(* double delete bounds what a change takes to be seen, however the loads, the  *)
(* SETs and the changes of all instances interleave.                            *)
THEOREM AnswersAreRecent ==
    ASSUME Spaced, NoneLost
    PROVE  Spec => BoundedStaleness
<1>1. BInv /\ [Next]_vars => BInv'
  BY BInvNext
<1>2. BInv => Timed
  BY AnswersTimed
<1> QED
  BY <1>1, <1>2, BInvInit, PTL DEF Spec, BoundedStaleness, Timed
================================================================================
