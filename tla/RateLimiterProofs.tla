--------------------------- MODULE RateLimiterProofs ---------------------------
(***************************************************************************)
(* NoDoubleBurst, MissesBlock and NoLockout, for any number of processes   *)
(* and requests and any window, limit and block.                           *)
(*                                                                         *)
(* What a store has let through is what its counters say, or less: in      *)
(* memory it is the same, in Redis a request may have been counted whose   *)
(* answer is yet to come, or never came (Counted), and no counter goes     *)
(* while its window still matters (Kept).  So NoDoubleBurst is about the   *)
(* counters alone (Weighed): a hit that passes leaves at most the limit,   *)
(* at the place in the window where it was sent; that is never later than  *)
(* where the window is now (Placed), and the weight only shrinks.          *)
(***************************************************************************)
EXTENDS RateLimiter, FiniteSetTheorems, TLAPS

Waits(r) == req[r].pc \in {"sent", "allowed", "denied"}
Request  == [pc : {"idle", "sent", "allowed", "denied", "resolving", "spent"},
             inst : Instances, age : 0..Latency, position : Position]

Typed ==
    /\ TypeOK
    /\ req \in [Requests -> Request]
    /\ passed \in [Instances \cup {"redis"} -> [0..1 -> Nat]]

(* How old a command is. *)
Placed ==
    /\ \A r \in Requests : Waits(r) =>
          IF req[r].position.back = 0 THEN phase = req[r].position.elapsed + req[r].age
                                      ELSE Window + phase = req[r].position.elapsed + req[r].age
    /\ \A p \in straggling : p.back = 0 => p.elapsed <= phase

(* A counter of this window or the last one is there for as long as it counts. *)
Kept ==
    /\ redis.n[0] > 0 => ttl[0] + phase >= 2 * Window
    /\ redis.n[1] > 0 => ttl[1] + phase >= Window

(* Requests that Redis let through and that do not know it yet. *)
Allowed(b) == {r \in Requests : req[r].pc = "allowed" /\ req[r].position.back = b}
Counted ==
    /\ \A i \in Instances, b \in 0..1 : passed[i][b] = memory[i].n[b]
    /\ \A b \in 0..1 : passed["redis"][b] + Cardinality(Allowed(b)) <= redis.n[b]

Light(n1, n0) == n1 * (Window - phase) + (n0 - 1) * Window < Limit * Window
Weighed ==
    /\ \A i \in Instances : Light(memory[i].n[1], memory[i].n[0])
    /\ late \/ Light(redis.n[1], redis.n[0])

(* The misses of a process: counted, or its client is blocked for longer than *)
(* this window; who has spent the budget is about to place the block.         *)
Blocked(i) == memory[i].block + phase >= 2 * Window
Scanned ==
    limiter.miss => \A i \in Instances :
        /\ memory[i].block > 0 => Blocked(i) \/ misses[i] = 0
        /\ misses[i] <= memory[i].n[0] \/ Blocked(i)
        /\ misses[i] >= Limit => Blocked(i) \/ \E r \in Requests : req[r].pc = "spent" /\ req[r].inst = i

IInv == Typed /\ Placed /\ Kept /\ Counted /\ Weighed /\ Scanned

--------------------------------------------------------------------------------
(* Arithmetic. *)

LEMMA TimesGrows ==
    ASSUME NEW a \in Nat, NEW b \in Nat, NEW c \in Nat, a <= b
    PROVE  /\ a * c \in Nat /\ b * c \in Nat
           /\ a * c <= b * c
           /\ c * a <= c * b
  <1>1. PICK d \in Nat : b = a + d
    <2>1. b - a \in Nat /\ b = a + (b - a)
      OBVIOUS
    <2> QED BY <2>1
  <1>2. d * c \in Nat /\ a * c \in Nat
    OBVIOUS
  <1>3. (a + d) * c = a * c + d * c
    OBVIOUS
  <1>4. a * c = c * a /\ b * c = c * b
    OBVIOUS
  <1> QED BY <1>1, <1>2, <1>3, <1>4

(* Less than a limit's weight is less than the limit. *)
LEMMA LessWeight ==
    ASSUME NEW a \in Nat, NEW b \in Nat, NEW c \in Nat, a * c < b * c
    PROVE  a < b
  <1>1. CASE b <= a
    <2>1. b * c <= a * c /\ a * c \in Nat /\ b * c \in Nat
      BY <1>1, TimesGrows
    <2> QED BY <2>1
  <1> QED BY <1>1

(* As the window moves on, the last one weighs less. *)
LEMMA LightLater ==
    ASSUME NEW n1 \in Nat, NEW n0 \in Nat, NEW m1 \in Nat, NEW m0 \in Nat,
           NEW W \in Nat \ {0}, NEW L \in Nat, NEW e \in 0..W - 1, NEW f \in 0..W - 1,
           m1 <= n1, m0 <= n0, e <= f,
           n1 * (W - e) + (n0 - 1) * W < L * W
    PROVE  m1 * (W - f) + (m0 - 1) * W < L * W
  <1>1. W - f \in Nat /\ W - e \in Nat /\ W - f <= W - e /\ W \in Nat
    OBVIOUS
  <1> DEFINE F == W - f  E == W - e
  <1> HIDE DEF F, E
  <1>2. F \in Nat /\ E \in Nat /\ F <= E
    BY <1>1 DEF F, E
  <1>3. m1 * F <= n1 * F /\ m1 * F \in Nat /\ n1 * F \in Nat
    BY <1>2, TimesGrows
  <1>4. n1 * F <= n1 * E /\ n1 * E \in Nat
    BY <1>2, TimesGrows
  <1>5. m0 * W <= n0 * W /\ m0 * W \in Nat /\ n0 * W \in Nat
    BY <1>1, TimesGrows
  <1>6. (m0 - 1) * W = m0 * W - W /\ (n0 - 1) * W = n0 * W - W
    OBVIOUS
  <1>7. n1 * E + (n0 - 1) * W < L * W /\ L * W \in Nat
    BY <1>1 DEF E
  <1> DEFINE a == m1 * F  b == n1 * F  c == n1 * E  x == m0 * W  y == n0 * W  z == L * W
  <1>8. a + (x - W) < z
    <2>1. /\ a \in Nat /\ b \in Nat /\ c \in Nat /\ x \in Nat /\ y \in Nat /\ z \in Nat
          /\ a <= b /\ b <= c /\ x <= y /\ c + (y - W) < z
      BY <1>3, <1>4, <1>5, <1>6, <1>7
    <2> HIDE DEF a, b, c, x, y, z
    <2> QED BY <2>1
  <1>9. m1 * F + (m0 - 1) * W < L * W
    BY <1>6, <1>8 DEF a, x, z
  <1> QED BY <1>9 DEF F

LEMMA Remainder ==
    ASSUME NEW W \in Nat \ {0}, NEW x \in 0..W - 1
    PROVE  /\ x % W = x
           /\ x = W - 1 => (x + 1) % W = 0
           /\ x # W - 1 => (x + 1) % W = x + 1
  <1>1. \A y \in 0..W - 1 : y % W = y
    OBVIOUS
  <1>2. W % W = 0
    OBVIOUS
  <1>3. CASE x = W - 1
    <2>1. x + 1 = W
      BY <1>3
    <2> QED BY <1>1, <1>2, <1>3, <2>1
  <1>4. CASE x # W - 1
    <2>1. x + 1 \in 0..W - 1
      BY <1>4
    <2> QED BY <1>1, <1>4, <2>1
  <1> QED BY <1>3, <1>4

(* The last window alone is light when it is within the limit. *)
LEMMA LightAlone ==
    ASSUME NEW n1 \in Nat, NEW W \in Nat \ {0}, NEW L \in Nat, NEW f \in 0..W - 1, n1 <= L
    PROVE  n1 * (W - f) + (0 - 1) * W < L * W
  <1>1. W - f \in Nat /\ W - f <= W /\ W \in Nat
    OBVIOUS
  <1> DEFINE F == W - f
  <1> HIDE DEF F
  <1>2. n1 * F <= n1 * W /\ n1 * F \in Nat /\ n1 * W \in Nat
    BY <1>1, TimesGrows DEF F
  <1>3. n1 * W <= L * W /\ L * W \in Nat
    BY <1>1, TimesGrows
  <1>4. (0 - 1) * W = 0 - W
    OBVIOUS
  <1>5. n1 * F + (0 - 1) * W < L * W
    <2> DEFINE a == n1 * F  b == n1 * W  c == L * W
    <2> HIDE DEF a, b, c
    <2>1. a + (0 - W) < c
      BY <1>2, <1>3 DEF a, b, c
    <2> QED BY <1>4, <2>1 DEF a, c
  <1> QED BY <1>5 DEF F

(* A request that passes leaves room in its window. *)
LEMMA RoomLeft ==
    ASSUME NEW n1 \in Nat, NEW n0 \in Nat, NEW W \in Nat \ {0}, NEW L \in Nat, NEW e \in 0..W - 1,
           ~(n1 * (W - e) + n0 * W >= L * W)
    PROVE  /\ n0 < L
           /\ n1 * (W - e) + ((n0 + 1) - 1) * W < L * W
  <1>1. W - e \in Nat /\ W \in Nat
    OBVIOUS
  <1> DEFINE E == W - e
  <1> HIDE DEF E
  <1>2. n1 * E \in Nat /\ n0 * W \in Nat /\ L * W \in Nat
    BY <1>1, TimesGrows DEF E
  <1>3. n1 * E + n0 * W < L * W
    <2>1. ~(n1 * E + n0 * W >= L * W)
      BY DEF E
    <2> DEFINE a == n1 * E  b == n0 * W  c == L * W
    <2> HIDE DEF a, b, c
    <2>2. a + b < c
      BY <1>2, <2>1 DEF a, b, c
    <2> QED BY <2>2 DEF a, b, c
  <1>4. n0 * W < L * W
    <2> DEFINE a == n1 * E  b == n0 * W  c == L * W
    <2> HIDE DEF a, b, c
    <2>1. b < c
      BY <1>2, <1>3 DEF a, b, c
    <2> QED BY <2>1 DEF b, c
  <1>5. n0 < L
    BY <1>4, <1>1, LessWeight
  <1>6. (n0 + 1) - 1 = n0
    OBVIOUS
  <1> QED BY <1>3, <1>5, <1>6 DEF E

(* A full window lets nothing through. *)
LEMMA FullIsOver ==
    ASSUME NEW n1 \in Nat, NEW n0 \in Nat, NEW W \in Nat \ {0}, NEW L \in Nat, NEW e \in 0..W - 1,
           n0 >= L
    PROVE  n1 * (W - e) + n0 * W >= L * W
  <1>1. W - e \in Nat /\ W \in Nat
    OBVIOUS
  <1> DEFINE E == W - e
  <1> HIDE DEF E
  <1>2. n1 * E \in Nat
    BY <1>1 DEF E
  <1>3. L * W <= n0 * W /\ L * W \in Nat /\ n0 * W \in Nat
    BY <1>1, TimesGrows
  <1>4. n1 * E + n0 * W >= L * W
    <2> DEFINE a == n1 * E  b == n0 * W  c == L * W
    <2> HIDE DEF a, b, c
    <2>1. a + b >= c
      BY <1>2, <1>3 DEF a, b, c
    <2> QED BY <2>1 DEF a, b, c
  <1> QED BY <1>4 DEF E

--------------------------------------------------------------------------------
(* The operators. *)

LEMMA Constants ==
    /\ Window \in Nat \ {0} /\ Limit \in Nat \ {0} /\ Latency \in Nat \ {0} /\ Latency <= Window
    /\ Idle \in Request /\ Idle.pc = "idle"
  <1>1. (CHOOSE i \in Instances : TRUE) \in Instances
    BY InstancesAssumption
  <1>2. Window \in Nat \ {0} /\ Limit \in Nat \ {0} /\ Latency \in Nat \ {0} /\ Latency <= Window
    BY WindowAssumption
  <1>3. [back |-> 0, elapsed |-> 0] \in Position
    BY <1>2 DEF Position
  <1> QED BY <1>1, <1>2, <1>3 DEF Idle, Request

LEMMA LimiterFacts ==
    ASSUME limiter \in Limiters
    PROVE  /\ limiter.block \in Nat
           /\ limiter.miss => limiter.block >= 2 * Window
           /\ Lockout \in Nat
  <1>1. limiter.block \in Nat /\ (limiter.miss => limiter.block >= 2 * Window)
    BY LimitersAssumption, Constants
  <1>2. Window \in Nat
    BY Constants
  <1>3. Lockout \in Nat
    BY <1>1, <1>2 DEF Lockout
  <1> QED BY <1>1, <1>3

(* A hit counts one more in its window, or starts a block, or changes nothing. *)
LEMMA HitLeaves ==
    ASSUME limiter \in Limiters, NEW backs \in SUBSET Nat, NEW s \in Store(backs), NEW p \in Position,
           p.back \in backs, p.back + 1 \in backs
    PROVE  /\ After(s, p) \in Store(backs)
           /\ Passes(s, p) => /\ s.n[p.back] < Limit
                              /\ After(s, p).n[p.back] = s.n[p.back] + 1
                              /\ \A b \in backs \ {p.back} : After(s, p).n[b] = s.n[b]
                              /\ s.n[p.back + 1] * (Window - p.elapsed) + ((s.n[p.back] + 1) - 1) * Window
                                    < Limit * Window
                              /\ s.block = 0 /\ After(s, p).block = 0
           /\ ~Passes(s, p) => /\ After(s, p).n = s.n
                               /\ After(s, p).block = IF s.block = 0 THEN limiter.block ELSE s.block
  <1>1. s.n \in [backs -> 0..Limit] /\ s.block \in Nat /\ p.elapsed \in 0..Window - 1
    BY DEF Store, Position
  <1>2. limiter.block \in Nat
    BY LimiterFacts
  <1>3. CASE Passes(s, p)
    <2>1. s.block = 0 /\ ~Over(s.n[p.back + 1], s.n[p.back], p.elapsed)
      BY <1>3 DEF Passes, OverAt
    <2>2. s.n[p.back + 1] \in Nat /\ s.n[p.back] \in Nat
      <3>1. s.n[p.back + 1] \in 0..Limit /\ s.n[p.back] \in 0..Limit
        BY <1>1
      <3> QED BY <3>1, Constants
    <2>3. /\ s.n[p.back] < Limit
          /\ s.n[p.back + 1] * (Window - p.elapsed) + ((s.n[p.back] + 1) - 1) * Window < Limit * Window
      <3>1. ~(s.n[p.back + 1] * (Window - p.elapsed) + s.n[p.back] * Window >= Limit * Window)
        BY <2>1 DEF Over
      <3>2. Limit \in Nat
        BY Constants
      <3> QED BY <1>1, <2>2, <3>1, <3>2, RoomLeft, Constants
    <2>4. After(s, p) = [s EXCEPT !.n[p.back] = @ + 1]
      BY <1>3 DEF After
    <2>5. s.n[p.back] + 1 \in 0..Limit
      BY <2>2, <2>3, Constants
    <2>6. After(s, p) \in Store(backs)
      BY <2>4, <2>5 DEF Store
    <2>7. /\ After(s, p).n[p.back] = s.n[p.back] + 1
          /\ \A b \in backs \ {p.back} : After(s, p).n[b] = s.n[b]
          /\ After(s, p).block = 0
      BY <2>4, <1>1, <2>1 DEF Store
    <2> QED BY <1>3, <2>1, <2>3, <2>6, <2>7
  <1>4. CASE ~Passes(s, p) /\ s.block = 0
    <2>1. After(s, p) = [s EXCEPT !.block = limiter.block]
      BY <1>4 DEF After
    <2> QED BY <2>1, <1>2, <1>4 DEF Store
  <1>5. CASE ~Passes(s, p) /\ s.block # 0
    <2>1. After(s, p) = s
      BY <1>5 DEF After
    <2> QED BY <2>1, <1>5
  <1> QED BY <1>3, <1>4, <1>5

LEMMA HereIs ==
    ASSUME Typed
    PROVE  Here \in Position /\ Here.back = 0 /\ Here.elapsed = phase
  BY Constants DEF Typed, TypeOK, Here, Position

(* The memory of a process after a hit. *)
LEMMA MemoryHit ==
    ASSUME Typed, NEW i \in Instances, HitMemory(i)
    PROVE  /\ memory' \in [Instances -> Store(0..1)]
           /\ \A j \in Instances \ {i} : memory'[j] = memory[j]
           /\ Passes(memory[i], Here) =>
                 /\ memory[i].n[0] < Limit
                 /\ memory'[i].n[0] = memory[i].n[0] + 1
                 /\ memory'[i].n[1] = memory[i].n[1]
                 /\ memory[i].n[1] * (Window - phase) + ((memory[i].n[0] + 1) - 1) * Window < Limit * Window
                 /\ memory[i].block = 0 /\ memory'[i].block = 0
           /\ ~Passes(memory[i], Here) =>
                 /\ memory'[i].n = memory[i].n
                 /\ memory'[i].block = IF memory[i].block = 0 THEN limiter.block ELSE memory[i].block
           /\ redis' = redis /\ ttl' = ttl /\ late' = late
  <1>1. memory' = [memory EXCEPT ![i] = After(memory[i], Here)] /\ redis' = redis /\ ttl' = ttl /\ late' = late
    BY DEF HitMemory
  <1>2. limiter \in Limiters /\ memory[i] \in Store(0..1) /\ memory \in [Instances -> Store(0..1)]
    BY DEF Typed, TypeOK
  <1>3. Here \in Position /\ Here.back = 0 /\ Here.elapsed = phase
    BY HereIs
  <1>4. PICK s \in Store(0..1) : s = memory[i]
    BY <1>2
  <1>5. PICK p \in Position : p = Here
    BY <1>3
  <1>6. PICK a : a = After(s, p)
    OBVIOUS
  <1>7. p.back = 0 /\ p.back + 1 = 1 /\ p.elapsed = phase /\ 0..1 \in SUBSET Nat
    BY <1>3, <1>5
  <1>8. /\ a \in Store(0..1)
        /\ Passes(s, p) => /\ s.n[0] < Limit
                           /\ a.n[0] = s.n[0] + 1
                           /\ \A b \in (0..1) \ {0} : a.n[b] = s.n[b]
                           /\ s.n[1] * (Window - phase) + ((s.n[0] + 1) - 1) * Window < Limit * Window
                           /\ s.block = 0 /\ a.block = 0
        /\ ~Passes(s, p) => /\ a.n = s.n
                            /\ a.block = IF s.block = 0 THEN limiter.block ELSE s.block
    <2>1. p.back \in 0..1 /\ p.back + 1 \in 0..1
      BY <1>7
    <2> QED BY <1>2, <1>6, <1>7, <2>1, HitLeaves
  <1>9. memory' = [memory EXCEPT ![i] = a]
    BY <1>1, <1>4, <1>5, <1>6
  <1>10. memory'[i] = a /\ memory' \in [Instances -> Store(0..1)] /\ \A j \in Instances \ {i} : memory'[j] = memory[j]
    BY <1>2, <1>8, <1>9
  <1>11. 1 \in (0..1) \ {0}
    OBVIOUS
  <1> QED BY <1>1, <1>4, <1>5, <1>8, <1>10, <1>11

LEMMA HitPasses ==
    ASSUME Typed, NEW i \in Instances, HitMemory(i)
    PROVE  /\ passed' \in [Instances \cup {"redis"} -> [0..1 -> Nat]]
           /\ quiet' \in 0..Lockout + 1
           /\ \A s \in (Instances \cup {"redis"}) \ {i} : passed'[s] = passed[s]
           /\ passed'[i][1] = passed[i][1]
           /\ passed'[i][0] = IF Passes(memory[i], Here) THEN passed[i][0] + 1 ELSE passed[i][0]
  <1>1. passed \in [Instances \cup {"redis"} -> [0..1 -> Nat]] /\ quiet \in 0..Lockout + 1 /\ limiter \in Limiters
    BY DEF Typed, TypeOK
  <1>2. Lockout \in Nat
    BY <1>1, LimiterFacts
  <1>3. CASE Passes(memory[i], Here)
    <2>1. passed' = [passed EXCEPT ![i][0] = @ + 1] /\ quiet' = 0
      BY <1>3 DEF HitMemory, LetThrough
    <2>2. passed[i] \in [0..1 -> Nat] /\ passed[i][0] \in Nat /\ 0 \in 0..1 /\ 1 \in 0..1
      BY <1>1
    <2>3. [passed[i] EXCEPT ![0] = @ + 1] \in [0..1 -> Nat]
      BY <2>2
    <2>4. passed' = [passed EXCEPT ![i] = [passed[i] EXCEPT ![0] = @ + 1]]
      BY <1>1, <2>1
    <2>5. passed' \in [Instances \cup {"redis"} -> [0..1 -> Nat]]
      BY <1>1, <2>3, <2>4
    <2>6. \A s \in (Instances \cup {"redis"}) \ {i} : passed'[s] = passed[s]
      BY <1>1, <2>4
    <2>7. passed'[i] = [passed[i] EXCEPT ![0] = @ + 1]
      BY <1>1, <2>4
    <2>8. passed'[i][1] = passed[i][1] /\ passed'[i][0] = passed[i][0] + 1
      BY <2>2, <2>7
    <2> QED BY <1>2, <1>3, <2>1, <2>5, <2>6, <2>8
  <1>4. CASE ~Passes(memory[i], Here)
    <2>1. passed' = passed /\ quiet' = quiet
      BY <1>4 DEF HitMemory, Refused
    <2> QED BY <1>1, <1>4, <2>1
  <1> QED BY <1>3, <1>4

(* The counters of Redis after the script. *)
LEMMA ScriptLeaves ==
    ASSUME Typed, NEW p \in Position, Script(p)
    PROVE  /\ redis' \in Store(Back) /\ ttl' \in [Back -> 0..2 * Window]
           /\ late' = (late \/ (p.back = 1 /\ redis.n[0] > 0))
           /\ memory' = memory
           /\ Passes(redis, p) =>
                 /\ redis.n[p.back] < Limit
                 /\ redis'.n[p.back] = redis.n[p.back] + 1
                 /\ \A b \in Back \ {p.back} : redis'.n[b] = redis.n[b] /\ ttl'[b] = ttl[b]
                 /\ redis.n[p.back] = 0 => ttl'[p.back] = 2 * Window
                 /\ redis.n[p.back] # 0 => ttl' = ttl
                 /\ redis.n[p.back + 1] * (Window - p.elapsed) + ((redis.n[p.back] + 1) - 1) * Window
                       < Limit * Window
           /\ ~Passes(redis, p) => redis'.n = redis.n /\ ttl' = ttl
  <1>1. redis' = After(redis, p) /\ late' = (late \/ (p.back = 1 /\ redis.n[0] > 0)) /\ memory' = memory
    BY DEF Script
  <1>2. limiter \in Limiters /\ redis \in Store(Back) /\ ttl \in [Back -> 0..2 * Window]
    BY DEF Typed, TypeOK
  <1>3. p.back \in Back /\ p.back + 1 \in Back /\ Back \in SUBSET Nat
    BY DEF Position, Back
  <1>4. PICK s \in Store(Back) : s = redis
    BY <1>2
  <1>5. PICK a : a = After(s, p)
    OBVIOUS
  <1>6. /\ a \in Store(Back)
        /\ Passes(s, p) => /\ s.n[p.back] < Limit
                           /\ a.n[p.back] = s.n[p.back] + 1
                           /\ \A b \in Back \ {p.back} : a.n[b] = s.n[b]
                           /\ s.n[p.back + 1] * (Window - p.elapsed) + ((s.n[p.back] + 1) - 1) * Window
                                 < Limit * Window
        /\ ~Passes(s, p) => a.n = s.n
    BY <1>2, <1>3, <1>5, HitLeaves
  <1>7. redis' = a
    BY <1>1, <1>4, <1>5
  <1>8. ttl' = IF Passes(redis, p) /\ redis.n[p.back] = 0 THEN [ttl EXCEPT ![p.back] = 2 * Window] ELSE ttl
    BY DEF Script, CounterTtl
  <1>9. 2 * Window \in 0..2 * Window
    BY Constants
  <1>10. /\ ttl' \in [Back -> 0..2 * Window]
         /\ \A b \in Back \ {p.back} : ttl'[b] = ttl[b]
         /\ Passes(redis, p) /\ redis.n[p.back] = 0 => ttl'[p.back] = 2 * Window
         /\ ~(Passes(redis, p) /\ redis.n[p.back] = 0) => ttl' = ttl
    BY <1>2, <1>3, <1>8, <1>9
  <1> QED BY <1>1, <1>4, <1>6, <1>7, <1>10

(* What a tick does to the counters. *)
LEMMA LessIs ==
    ASSUME NEW n \in Nat
    PROVE  Less(n) \in Nat /\ (n > 0 => Less(n) = n - 1) /\ (n = 0 => Less(n) = 0) /\ Less(n) <= n
  BY DEF Less

LEMMA TickMemory ==
    ASSUME Typed, Tick, NEW i \in Instances
    PROVE  /\ memory'[i] \in Store(0..1)
           /\ memory'[i].block = Less(memory[i].block)
           /\ phase = Window - 1 => memory'[i].n[0] = 0 /\ memory'[i].n[1] = memory[i].n[0]
           /\ phase # Window - 1 => memory'[i].n = memory[i].n
  <1>1. memory'[i] = Older(memory[i])
    BY DEF Tick
  <1>2. memory[i] \in Store(0..1)
    BY DEF Typed, TypeOK
  <1>3. PICK s \in Store(0..1) : s = memory[i]
    BY <1>2
  <1>4. s.n \in [0..1 -> 0..Limit] /\ s.block \in Nat /\ DOMAIN s.n = 0..1
    BY DEF Store
  <1>5. Less(s.block) \in Nat
    BY <1>4, LessIs
  <1>6. CASE phase = Window - 1
    <2>1. Older(s) = [n |-> [b \in 0..1 |-> IF b = 0 THEN 0 ELSE s.n[b - 1]], block |-> Less(s.block)]
      BY <1>4, <1>6 DEF Older, Shift
    <2>2. \A b \in 0..1 : (IF b = 0 THEN 0 ELSE s.n[b - 1]) \in 0..Limit
      <3>1. 0 \in 0..Limit /\ s.n[0] \in 0..Limit
        BY <1>4, Constants
      <3>2. \A b \in 0..1 : b # 0 => b - 1 = 0
        OBVIOUS
      <3> QED BY <3>1, <3>2
    <2>3. [b \in 0..1 |-> IF b = 0 THEN 0 ELSE s.n[b - 1]] \in [0..1 -> 0..Limit]
      BY <2>2
    <2>4. Older(s) \in Store(0..1) /\ Older(s).block = Less(s.block) /\ Older(s).n[0] = 0 /\ Older(s).n[1] = s.n[0]
      BY <1>5, <2>1, <2>3 DEF Store
    <2> QED BY <1>1, <1>3, <1>6, <2>4
  <1>7. CASE phase # Window - 1
    <2>1. Older(s) = [n |-> s.n, block |-> Less(s.block)]
      BY <1>7 DEF Older
    <2>2. Older(s) \in Store(0..1) /\ Older(s).block = Less(s.block) /\ Older(s).n = s.n
      BY <1>4, <1>5, <2>1 DEF Store
    <2> QED BY <1>1, <1>3, <1>7, <2>2
  <1> QED BY <1>6, <1>7

LEMMA TickRedis ==
    ASSUME Typed, Kept, Tick
    PROVE  /\ redis' \in Store(Back) /\ ttl' \in [Back -> 0..2 * Window]
           /\ phase = Window - 1 => /\ redis'.n[0] = 0 /\ redis'.n[1] = redis.n[0]
                                    /\ ttl'[0] = 0 /\ ttl'[1] = Less(ttl[0])
           /\ phase # Window - 1 => /\ redis'.n[0] = redis.n[0] /\ redis'.n[1] = redis.n[1]
                                    /\ ttl'[0] = Less(ttl[0]) /\ ttl'[1] = Less(ttl[1])
  <1>1. PICK left : left = [b \in Back |-> Less(ttl[b])]
    OBVIOUS
  <1>2. redis' = Older(Expired(redis, left)) /\ ttl' = IF phase = Window - 1 THEN Shift(left, 0) ELSE left
    BY <1>1 DEF Tick
  <1>3. redis \in Store(Back) /\ ttl \in [Back -> 0..2 * Window] /\ phase \in 0..Window - 1 /\ Window \in Nat
    BY Constants DEF Typed, TypeOK
  <1>4. \A b \in Back : ttl[b] \in 0..2 * Window /\ Less(ttl[b]) \in 0..2 * Window
    <2>1. SUFFICES ASSUME NEW b \in Back PROVE ttl[b] \in 0..2 * Window /\ Less(ttl[b]) \in 0..2 * Window
      OBVIOUS
    <2>2. ttl[b] \in 0..2 * Window
      BY <1>3
    <2> QED BY <1>3, <2>2, LessIs
  <1>5. left \in [Back -> 0..2 * Window]
    BY <1>1, <1>4
  <1>6. PICK s : s = Expired(redis, left)
    OBVIOUS
  <1>7. redis.n \in [Back -> 0..Limit] /\ redis.block \in Nat
    BY <1>3 DEF Store
  <1>8. \A b \in Back : (IF left[b] = 0 THEN 0 ELSE redis.n[b]) \in 0..Limit
    BY <1>7, Constants
  <1>9. s.n = [b \in Back |-> IF left[b] = 0 THEN 0 ELSE redis.n[b]] /\ s.block = redis.block
    BY <1>3, <1>6 DEF Expired, Store
  <1>10. s.n \in [Back -> 0..Limit] /\ s.block \in Nat /\ DOMAIN s.n = Back
    BY <1>7, <1>8, <1>9
  <1>11. 0 \in Back /\ 1 \in Back /\ 2 \in Back /\ \A b \in Back : b # 0 => b - 1 \in Back
    BY DEF Back
  <1>12. s.n[0] = redis.n[0]
    <2>1. CASE redis.n[0] > 0
      <3>1. ttl[0] \in Nat /\ ttl[0] > 1
        BY <1>3, <1>4, <1>11, <2>1, Constants DEF Kept
      <3>2. left[0] # 0
        BY <1>1, <1>11, <3>1, LessIs
      <3> QED BY <1>9, <1>11, <3>2
    <2>2. CASE ~(redis.n[0] > 0)
      <3>1. redis.n[0] \in 0..Limit
        BY <1>7, <1>11
      <3>2. redis.n[0] = 0
        BY <2>2, <3>1, Constants
      <3> QED BY <1>9, <1>11, <3>2
    <2> QED BY <2>1, <2>2
  <1>13. phase # Window - 1 => s.n[1] = redis.n[1]
    <2>1. CASE redis.n[1] > 0 /\ phase # Window - 1
      <3>1. ttl[1] \in Nat /\ ttl[1] > 1
        BY <1>3, <1>4, <1>11, <2>1, Constants DEF Kept
      <3>2. left[1] # 0
        BY <1>1, <1>11, <3>1, LessIs
      <3> QED BY <1>9, <1>11, <3>2
    <2>2. CASE ~(redis.n[1] > 0)
      <3>1. redis.n[1] \in 0..Limit
        BY <1>7, <1>11
      <3>2. redis.n[1] = 0
        BY <2>2, <3>1, Constants
      <3> QED BY <1>9, <1>11, <3>2
    <2> QED BY <2>1, <2>2
  <1>14. Less(s.block) \in Nat
    BY <1>10, LessIs
  <1>15. CASE phase = Window - 1
    <2>1. redis' = [n |-> [b \in Back |-> IF b = 0 THEN 0 ELSE s.n[b - 1]], block |-> Less(s.block)]
      BY <1>2, <1>6, <1>10, <1>15 DEF Older, Shift
    <2>2. ttl' = [b \in Back |-> IF b = 0 THEN 0 ELSE left[b - 1]]
      BY <1>2, <1>5, <1>15 DEF Shift
    <2>3. \A b \in Back : (IF b = 0 THEN 0 ELSE s.n[b - 1]) \in 0..Limit
      <3>1. 0 \in 0..Limit
        BY Constants
      <3> QED BY <1>10, <1>11, <3>1
    <2>4. \A b \in Back : (IF b = 0 THEN 0 ELSE left[b - 1]) \in 0..2 * Window
      <3>1. 0 \in 0..2 * Window
        BY Constants
      <3> QED BY <1>5, <1>11, <3>1
    <2>5. [b \in Back |-> IF b = 0 THEN 0 ELSE s.n[b - 1]] \in [Back -> 0..Limit]
      BY <2>3
    <2>6. redis' \in Store(Back)
      BY <1>14, <2>1, <2>5 DEF Store
    <2>7. ttl' \in [Back -> 0..2 * Window]
      BY <2>2, <2>4
    <2>8. redis'.n[0] = 0 /\ redis'.n[1] = s.n[0] /\ ttl'[0] = 0 /\ ttl'[1] = left[0]
      BY <1>11, <2>1, <2>2
    <2> QED BY <1>1, <1>11, <1>12, <1>15, <2>6, <2>7, <2>8
  <1>16. CASE phase # Window - 1
    <2>1. redis' = [n |-> s.n, block |-> Less(s.block)] /\ ttl' = left
      BY <1>2, <1>6, <1>16 DEF Older
    <2>2. redis' \in Store(Back)
      BY <1>10, <1>14, <2>1 DEF Store
    <2> QED BY <1>1, <1>5, <1>11, <1>12, <1>13, <1>16, <2>1, <2>2
  <1> QED BY <1>15, <1>16

--------------------------------------------------------------------------------
(* Types, and how old commands are. *)

(* The state is typed when its parts are. *)
LEMMA TypedParts ==
    ASSUME limiter' \in Limiters, phase' \in 0..Window - 1,
           redis' \in Store(Back), ttl' \in [Back -> 0..2 * Window],
           memory' \in [Instances -> Store(0..1)],
           req' \in [Requests -> Request],
           straggling' \subseteq Position, late' \in BOOLEAN,
           quiet' \in 0..Lockout' + 1, misses' \in [Instances -> 0..Limit],
           passed' \in [Instances \cup {"redis"} -> [0..1 -> Nat]]
    PROVE  Typed'
  <1>1. \A r \in Requests :
          /\ req'[r].pc \in {"idle", "sent", "allowed", "denied", "resolving", "spent"}
          /\ req'[r].inst \in Instances /\ req'[r].age \in 0..Latency
          /\ req'[r].position \in Position
    BY DEF Request
  <1> QED BY <1>1 DEF Typed, TypeOK

LEMMA SameLockout ==
    ASSUME limiter' = limiter
    PROVE  Lockout' = Lockout
  BY DEF Lockout

(* What may run late after a restart: what might before, and what that process sent. *)
LEMMA RestartLate ==
    ASSUME NEW i \in Instances, Restart(i), NEW p \in straggling'
    PROVE  p \in straggling \/ \E r \in Requests : /\ req[r].pc = "sent" /\ req[r].inst = i
                                                   /\ p = req[r].position
  <1>1. straggling' \subseteq straggling \cup Unrun(i)
    BY DEF Restart
  <1> QED BY <1>1 DEF Unrun

(* Every step keeps the requests well formed, and the commands as old as they are. *)
LEMMA PlacedStep ==
    ASSUME Typed, Placed, Next
    PROVE  /\ req' \in [Requests -> Request] /\ straggling' \subseteq Position
           /\ Placed'
  <1>0. /\ req \in [Requests -> Request] /\ straggling \subseteq Position
        /\ phase \in 0..Window - 1 /\ Idle \in Request /\ Idle.pc = "idle"
    BY Constants DEF Typed, TypeOK
  <1> DEFINE Right(q) == IF q.position.back = 0 THEN phase = q.position.elapsed + q.age
                         ELSE Window + phase = q.position.elapsed + q.age
             Waiting == {"sent", "allowed", "denied"}
  <1>a. ASSUME phase' = phase, req' \in [Requests -> Request], straggling' \subseteq Position,
               \A r \in Requests : req'[r].pc \in Waiting => Right(req'[r]),
               \A p \in straggling' : p.back = 0 => p.elapsed <= phase
        PROVE  req' \in [Requests -> Request] /\ straggling' \subseteq Position /\ Placed'
    BY <1>a DEF Placed, Waits
  <1>b. /\ \A r \in Requests : req[r].pc \in Waiting => Right(req[r])
        /\ \A p \in straggling : p.back = 0 => p.elapsed <= phase
    BY DEF Placed, Waits
  <1> HIDE DEF Right
  <1>c. ASSUME NEW r \in Requests, NEW q \in Request, req' = [req EXCEPT ![r] = q],
               q.pc \in Waiting => Right(q)
        PROVE  /\ req' \in [Requests -> Request]
               /\ \A o \in Requests : req'[o].pc \in Waiting => Right(req'[o])
    BY <1>0, <1>b, <1>c
  <1>1. ASSUME NEW r \in Requests, NEW i \in Instances, HitLocally(r, i) PROVE Placed' /\ req' = req /\ straggling' = straggling
    BY <1>1, <1>a, <1>b, <1>0 DEF HitLocally
  <1>2. ASSUME NEW r \in Requests, NEW i \in Instances, Send(r, i) \/ Guard(r, i)
        PROVE  Placed' /\ req' \in [Requests -> Request] /\ straggling' = straggling
    <2>1. CASE Send(r, i)
      <3>1. PICK q : q = [Idle EXCEPT !.pc = "sent", !.inst = i, !.position = Here]
        OBVIOUS
      <3>2. Here \in Position /\ Here.back = 0 /\ Here.elapsed = phase
        BY HereIs
      <3>3. Idle \in Request /\ Idle.age = 0
        BY <1>0 DEF Idle
      <3>4. q \in Request /\ q.age = 0 /\ q.position = Here
        BY <3>1, <3>2, <3>3 DEF Request
      <3>5. Right(q)
        BY <3>2, <3>4, <1>0 DEF Right
      <3>6. req' = [req EXCEPT ![r] = q] /\ phase' = phase /\ straggling' = straggling
        BY <2>1, <3>1 DEF Send
      <3> QED BY <1>0, <1>a, <1>b, <1>c, <3>4, <3>5, <3>6
    <2>2. CASE Guard(r, i)
      <3>1. PICK q : q = [Idle EXCEPT !.pc = "resolving", !.inst = i]
        OBVIOUS
      <3>4. q \in Request /\ q.pc = "resolving"
        BY <1>0, <3>1 DEF Request
      <3>6. req' = [req EXCEPT ![r] = q] /\ phase' = phase /\ straggling' = straggling
        BY <2>2, <3>1 DEF Guard
      <3> QED BY <1>0, <1>a, <1>b, <1>c, <3>4, <3>6
    <2> QED BY <1>2, <2>1, <2>2
  <1>3. ASSUME NEW r \in Requests, Run(r)
        PROVE  Placed' /\ req' \in [Requests -> Request] /\ straggling' = straggling
    <2>1. PICK c \in {"allowed", "denied"} :
              req' = [req EXCEPT ![r].pc = c] /\ phase' = phase /\ straggling' = straggling
      BY <1>3 DEF Run
    <2>2. req[r] \in Request /\ req[r].pc \in Waiting
      BY <1>0, <1>3 DEF Run
    <2>3. PICK q : q = [req[r] EXCEPT !.pc = c]
      OBVIOUS
    <2>4. q \in Request /\ q.age = req[r].age /\ q.position = req[r].position
      BY <2>2, <2>3 DEF Request
    <2>5. Right(q)
      BY <1>b, <2>2, <2>4 DEF Right
    <2>6. req' = [req EXCEPT ![r] = q]
      BY <1>0, <2>1, <2>3
    <2> QED BY <1>0, <1>a, <1>b, <1>c, <2>1, <2>4, <2>5, <2>6
  <1>4. ASSUME NEW r \in Requests, Answer(r) \/ Found(r) \/ PlaceBlock(r)
        PROVE  Placed' /\ req' \in [Requests -> Request] /\ straggling' = straggling
    <2>1. req' = [req EXCEPT ![r] = Idle] /\ phase' = phase /\ straggling' = straggling
      BY <1>4 DEF Answer, Found, PlaceBlock
    <2> QED BY <1>0, <1>a, <1>b, <1>c, <2>1
  <1>5. ASSUME NEW r \in Requests, TimeOut(r)
        PROVE  Placed' /\ req' \in [Requests -> Request] /\ straggling' \subseteq Position
    <2>1. /\ req[r].pc \in Waiting /\ req' = [req EXCEPT ![r] = Idle] /\ phase' = phase
          /\ straggling' \subseteq straggling \cup {req[r].position}
      BY <1>5 DEF TimeOut
    <2>2. req[r] \in Request
      BY <1>0
    <2>3. req[r].position \in Position /\ req[r].age \in Nat
      BY <2>2, Constants DEF Request
    <2>4. req[r].position.back = 0 => req[r].position.elapsed <= phase
      <3>1. Right(req[r])
        BY <1>b, <2>1
      <3>2. req[r].position.elapsed \in Nat
        BY <2>3, Constants DEF Position
      <3> QED BY <1>0, <2>3, <3>1, <3>2 DEF Right
    <2> QED BY <1>0, <1>a, <1>b, <1>c, <2>1, <2>3, <2>4
  <1>6. ASSUME NEW r \in Requests, Miss(r)
        PROVE  Placed' /\ req' \in [Requests -> Request] /\ straggling' = straggling
    <2>1. PICK q : q = IF Spent(req[r].inst) THEN [req[r] EXCEPT !.pc = "spent"] ELSE Idle
      OBVIOUS
    <2>2. req' = [req EXCEPT ![r] = q] /\ phase' = phase /\ straggling' = straggling
      BY <1>0, <1>6, <2>1 DEF Miss
    <2>3. req[r] \in Request
      BY <1>0
    <2>4. q \in Request /\ q.pc \notin Waiting
      BY <1>0, <2>1, <2>3 DEF Request
    <2> QED BY <1>0, <1>a, <1>b, <1>c, <2>2, <2>4
  <1>7. ASSUME NEW p \in straggling, RunLate(p)
        PROVE  Placed' /\ req' \in [Requests -> Request] /\ straggling' \subseteq Position
    <2>1. req' = req /\ phase' = phase /\ straggling' = straggling \ {p}
      BY <1>7 DEF RunLate
    <2> QED BY <1>0, <1>a, <1>b, <2>1
  <1>8. ASSUME NEW i \in Instances, Sweep(i)
        PROVE  Placed' /\ req' = req /\ straggling' = straggling
    <2>1. req' = req /\ phase' = phase /\ straggling' = straggling
      BY <1>8 DEF Sweep
    <2> QED BY <1>0, <1>a, <1>b, <2>1
  <1>9. ASSUME NEW i \in Instances, Restart(i)
        PROVE  Placed' /\ req' \in [Requests -> Request] /\ straggling' \subseteq Position
    <2>1. req' = [r \in Requests |-> IF req[r].inst = i THEN Idle ELSE req[r]] /\ phase' = phase
      BY <1>9 DEF Restart
    <2>2. \A r \in Requests : req'[r] \in Request /\ (req'[r] = Idle \/ req'[r] = req[r])
      BY <1>0, <2>1
    <2>3. req' \in [Requests -> Request]
      BY <1>0, <2>1
    <2>4. \A r \in Requests : req'[r].pc \in Waiting => Right(req'[r])
      <3>1. SUFFICES ASSUME NEW r \in Requests, req'[r].pc \in Waiting PROVE Right(req'[r])
        OBVIOUS
      <3>2. req'[r] = req[r]
        BY <1>0, <2>2, <3>1
      <3> QED BY <1>b, <3>1, <3>2
    <2>5. ASSUME NEW p \in straggling'
          PROVE  p \in Position /\ (p.back = 0 => p.elapsed <= phase)
      <3>1. p \in straggling \/ \E r \in Requests : req[r].pc = "sent" /\ p = req[r].position
        BY <1>9, RestartLate
      <3>2. CASE p \in straggling
        BY <1>0, <1>b, <3>2
      <3>3. ASSUME NEW r \in Requests, req[r].pc = "sent", p = req[r].position
            PROVE  p \in Position /\ (p.back = 0 => p.elapsed <= phase)
        <4>1. req[r] \in Request
          BY <1>0
        <4>2. p \in Position /\ req[r].age \in Nat
          BY <3>3, <4>1, Constants DEF Request
        <4>3. Right(req[r])
          BY <1>b, <3>3
        <4>4. p.elapsed \in Nat
          BY <4>2, Constants DEF Position
        <4> QED BY <1>0, <3>3, <4>2, <4>3, <4>4 DEF Right
      <3> QED BY <3>1, <3>2, <3>3
    <2> QED BY <1>0, <1>a, <2>1, <2>3, <2>4, <2>5
  <1>10. CASE Tick
    <2>1. /\ \A r \in Requests : Waits(r) => req[r].age < Latency
          /\ phase' = (phase + 1) % Window
          /\ req' = [r \in Requests |->
                       IF ~Waits(r) THEN req[r]
                       ELSE [req[r] EXCEPT !.age = @ + 1,
                                 !.position = IF phase = Window - 1 THEN Aged(@) ELSE @]]
          /\ straggling' = IF phase = Window - 1 THEN {Aged(p) : p \in {q \in straggling : q.back = 0}}
                           ELSE straggling
      BY <1>10 DEF Tick, Waits
    <2>2. \A p \in Position : p.back = 0 => /\ Aged(p) \in Position /\ Aged(p).back = 1
                                            /\ Aged(p).elapsed = p.elapsed
      BY DEF Aged, Position
    <2>3. Window \in Nat \ {0} /\ Latency \in Nat \ {0} /\ Latency <= Window
      BY Constants
    <2>4. /\ phase = Window - 1 => phase' = 0
          /\ phase # Window - 1 => phase' = phase + 1
      BY <1>0, <2>1, <2>3, Remainder
    <2>5. ASSUME NEW r \in Requests
          PROVE  /\ req'[r] \in Request
                 /\ Waits(r)' => IF req'[r].position.back = 0 THEN phase' = req'[r].position.elapsed + req'[r].age
                                 ELSE Window + phase' = req'[r].position.elapsed + req'[r].age
      <3>0. req[r] \in Request
        BY <1>0
      <3>1. CASE ~Waits(r)
        <4>1. req'[r] = req[r]
          BY <2>1, <3>1
        <4> QED BY <3>0, <3>1, <4>1 DEF Waits
      <3>2. CASE Waits(r)
        <4>1. Right(req[r]) /\ req[r].age < Latency
          BY <1>b, <2>1, <3>2 DEF Waits
        <4>2. req[r].position \in Position /\ req[r].age \in Nat /\ req[r].position.elapsed \in 0..Window - 1
              /\ req[r].position.back \in 0..1
          BY <3>0, <2>3 DEF Request, Position
        <4>3. CASE phase # Window - 1
          <5>1. req'[r] = [req[r] EXCEPT !.age = req[r].age + 1]
            BY <2>1, <3>0, <3>2, <4>3 DEF Request
          <5>2. req[r].age + 1 \in 0..Latency
            BY <2>3, <4>1, <4>2
          <5>3. /\ req'[r] \in Request /\ req'[r].age = req[r].age + 1
                /\ req'[r].position = req[r].position
            BY <3>0, <5>1, <5>2 DEF Request
          <5> QED BY <1>0, <2>3, <2>4, <4>1, <4>2, <4>3, <5>3 DEF Right
        <4>4. CASE phase = Window - 1
          <5>1. req[r].position.back = 0
            BY <1>0, <2>3, <4>1, <4>2, <4>4 DEF Right
          <5>2. PICK a \in Position : a = Aged(req[r].position) /\ a.back = 1 /\ a.elapsed = req[r].position.elapsed
            BY <2>2, <4>2, <5>1
          <5>3. req'[r] = [req[r] EXCEPT !.age = req[r].age + 1, !.position = a]
            BY <2>1, <3>0, <3>2, <4>4, <5>2 DEF Request
          <5>4. req[r].age + 1 \in 0..Latency
            BY <2>3, <4>1, <4>2
          <5>5. /\ req'[r] \in Request /\ req'[r].age = req[r].age + 1
                /\ req'[r].position = a
            BY <3>0, <5>2, <5>3, <5>4 DEF Request
          <5>6. Window + phase' = a.elapsed + (req[r].age + 1)
            BY <1>0, <2>3, <2>4, <4>1, <4>2, <4>4, <5>1, <5>2 DEF Right
          <5> QED BY <5>2, <5>5, <5>6
        <4> QED BY <4>3, <4>4
      <3> QED BY <3>1, <3>2
    <2>6. req' \in [Requests -> Request]
      <3>1. DOMAIN req' = Requests /\ req' = [r \in Requests |-> req'[r]]
        BY <2>1
      <3> QED BY <2>5, <3>1
    <2>7. straggling' \subseteq Position /\ \A p \in straggling' : p.back = 0 => p.elapsed <= phase'
      <3>1. CASE phase = Window - 1
        <4>1. \A p \in straggling' : p \in Position /\ p.back = 1
          BY <1>0, <2>1, <2>2, <3>1
        <4> QED BY <4>1
      <3>2. CASE phase # Window - 1
        <4>1. straggling' = straggling /\ phase' = phase + 1
          BY <2>1, <2>4, <3>2
        <4>2. \A p \in straggling : p.elapsed \in 0..Window - 1
          BY <1>0 DEF Position
        <4> QED BY <1>0, <1>b, <2>3, <4>1, <4>2
      <3> QED BY <3>1, <3>2
    <2> QED BY <2>5, <2>6, <2>7 DEF Placed
  <1> QED BY <1>0, <1>1, <1>2, <1>3, <1>4, <1>5, <1>6, <1>7, <1>8, <1>9, <1>10 DEF Next

LEMMA TypedStep ==
    ASSUME Typed, Placed, Kept, Next
    PROVE  Typed'
  <1>0. /\ limiter \in Limiters /\ phase \in 0..Window - 1
        /\ redis \in Store(Back) /\ ttl \in [Back -> 0..2 * Window]
        /\ memory \in [Instances -> Store(0..1)]
        /\ late \in BOOLEAN /\ quiet \in 0..Lockout + 1 /\ misses \in [Instances -> 0..Limit]
        /\ passed \in [Instances \cup {"redis"} -> [0..1 -> Nat]]
        /\ req \in [Requests -> Request]
    BY DEF Typed, TypeOK
  <1>a. req' \in [Requests -> Request] /\ straggling' \subseteq Position
    BY PlacedStep
  <1>b. limiter' = limiter
    BY DEF Next, HitLocally, Send, Guard, Run, Answer, TimeOut, Found, Miss, PlaceBlock, RunLate, Sweep,
           Restart, Tick
  <1>c. Lockout' = Lockout /\ Lockout \in Nat
    BY <1>0, <1>b, SameLockout, LimiterFacts
  <1>d. Window \in Nat \ {0} /\ Limit \in Nat \ {0}
    BY Constants
  <1>1. ASSUME NEW i \in Instances, HitMemory(i), phase' = phase, misses' \in [Instances -> 0..Limit]
        PROVE  Typed'
    <2>1. memory' \in [Instances -> Store(0..1)] /\ redis' = redis /\ ttl' = ttl /\ late' = late
      BY <1>1, MemoryHit
    <2>2. passed' \in [Instances \cup {"redis"} -> [0..1 -> Nat]] /\ quiet' \in 0..Lockout + 1
      BY <1>1, HitPasses
    <2> QED BY <1>0, <1>1, <1>a, <1>b, <1>c, <2>1, <2>2, TypedParts
  <1>2. ASSUME NEW p \in Position, Script(p), phase' = phase, passed' = passed, quiet' = quiet, misses' = misses
        PROVE  Typed'
    <2>1. redis' \in Store(Back) /\ ttl' \in [Back -> 0..2 * Window] /\ memory' = memory /\ late' \in BOOLEAN
      BY <1>0, <1>2, ScriptLeaves
    <2> QED BY <1>0, <1>2, <1>a, <1>b, <1>c, <2>1, TypedParts
  <1>3. ASSUME NEW r \in Requests, NEW i \in Instances, HitLocally(r, i)
        PROVE  Typed'
    BY <1>0, <1>1, <1>3 DEF HitLocally
  <1>4. ASSUME NEW r \in Requests, NEW i \in Instances, Send(r, i) \/ Guard(r, i) \/ Found(r)
        PROVE  Typed'
    <2>1. /\ phase' = phase /\ redis' = redis /\ ttl' = ttl /\ memory' = memory /\ passed' = passed
          /\ late' = late /\ quiet' = quiet /\ misses' = misses
      BY <1>4 DEF Send, Guard, Found, stores
    <2> QED BY <1>0, <1>a, <1>b, <1>c, <2>1, TypedParts
  <1>5. ASSUME NEW r \in Requests, Run(r)
        PROVE  Typed'
    <2>1. req[r].position \in Position
      BY <1>0 DEF Request
    <2>2. Script(req[r].position) /\ phase' = phase /\ passed' = passed /\ quiet' = quiet /\ misses' = misses
      BY <1>5 DEF Run
    <2> QED BY <1>2, <2>1, <2>2
  <1>6. ASSUME NEW r \in Requests, Answer(r)
        PROVE  Typed'
    <2>1. /\ phase' = phase /\ redis' = redis /\ ttl' = ttl /\ memory' = memory
          /\ late' = late /\ misses' = misses
      BY <1>6 DEF Answer, stores
    <2>2. /\ passed' \in [Instances \cup {"redis"} -> [0..1 -> Nat]] /\ quiet' \in 0..Lockout + 1
      <3>1. CASE req[r].pc = "allowed"
        <4>1. req[r].position.back \in 0..1
          BY <1>0 DEF Request, Position
        <4>2. PICK b \in 0..1 : b = req[r].position.back
          BY <4>1
        <4>3. passed' = [passed EXCEPT !["redis"][b] = @ + 1] /\ quiet' = 0
          BY <1>6, <3>1, <4>2 DEF Answer, LetThrough
        <4>4. passed["redis"] \in [0..1 -> Nat] /\ passed["redis"][b] \in Nat
          BY <1>0
        <4>5. [passed["redis"] EXCEPT ![b] = @ + 1] \in [0..1 -> Nat]
          BY <4>4
        <4> QED BY <1>0, <1>c, <4>3, <4>5
      <3>2. CASE req[r].pc # "allowed"
        BY <1>0, <1>6, <3>2 DEF Answer, Refused
      <3> QED BY <3>1, <3>2
    <2> QED BY <1>0, <1>a, <1>b, <1>c, <2>1, <2>2, TypedParts
  <1>7. ASSUME NEW r \in Requests, TimeOut(r)
        PROVE  Typed'
    <2>1. req[r].inst \in Instances
      BY <1>0 DEF Request
    <2>2. HitMemory(req[r].inst) /\ phase' = phase /\ misses' = misses
      BY <1>7 DEF TimeOut
    <2> QED BY <1>0, <1>1, <2>1, <2>2
  <1>8. ASSUME NEW r \in Requests, Miss(r)
        PROVE  Typed'
    <2>1. PICK i \in Instances : i = req[r].inst
      BY <1>0 DEF Request
    <2>2. HitMemory(i) /\ phase' = phase
          /\ misses' = [misses EXCEPT ![i] = IF @ < Limit /\ memory[i].block = 0 THEN @ + 1 ELSE @]
      BY <1>8, <2>1 DEF Miss
    <2>3. misses[i] \in 0..Limit
      BY <1>0
    <2>4. misses' \in [Instances -> 0..Limit]
      BY <1>0, <1>d, <2>2, <2>3
    <2> QED BY <1>1, <2>2, <2>4
  <1>9. ASSUME NEW r \in Requests, PlaceBlock(r)
        PROVE  Typed'
    <2>1. req[r].inst \in Instances
      BY <1>0 DEF Request
    <2>2. HitMemory(req[r].inst) /\ phase' = phase /\ misses' = misses
      BY <1>9 DEF PlaceBlock
    <2> QED BY <1>0, <1>1, <2>1, <2>2
  <1>10. ASSUME NEW p \in straggling, RunLate(p)
         PROVE  Typed'
    <2>1. p \in Position
      BY DEF Typed, TypeOK
    <2>2. Script(p) /\ phase' = phase /\ passed' = passed /\ quiet' = quiet /\ misses' = misses
      BY <1>10 DEF RunLate
    <2> QED BY <1>2, <2>1, <2>2
  <1>e. 0 \in 0..Limit /\ 0 \in Nat /\ [b \in 0..1 |-> 0] \in [0..1 -> 0..Limit] /\ [b \in 0..1 |-> 0] \in [0..1 -> Nat]
    BY <1>d
  <1>f. Empty(0..1) \in Store(0..1) /\ Empty(0..1).n \in [0..1 -> 0..Limit]
    BY <1>e DEF Empty, Store
  <1>11. ASSUME NEW i \in Instances, Sweep(i)
         PROVE  Typed'
    <2>1. /\ phase' = phase /\ redis' = redis /\ ttl' = ttl /\ late' = late /\ quiet' = quiet
          /\ memory' = [memory EXCEPT ![i].n = Empty(0..1).n]
          /\ passed' = [passed EXCEPT ![i] = [b \in 0..1 |-> 0]]
          /\ misses' = [misses EXCEPT ![i] = 0]
      BY <1>11 DEF Sweep
    <2>2. [memory[i] EXCEPT !.n = Empty(0..1).n] \in Store(0..1)
      <3>1. memory[i] \in Store(0..1)
        BY <1>0
      <3> QED BY <1>f, <3>1 DEF Store
    <2>3. memory' \in [Instances -> Store(0..1)]
      BY <1>0, <2>1, <2>2
    <2>4. passed' \in [Instances \cup {"redis"} -> [0..1 -> Nat]] /\ misses' \in [Instances -> 0..Limit]
      BY <1>0, <1>e, <2>1
    <2> QED BY <1>0, <1>a, <1>b, <1>c, <2>1, <2>3, <2>4, TypedParts
  <1>12. ASSUME NEW i \in Instances, Restart(i)
         PROVE  Typed'
    <2>1. /\ phase' = phase /\ redis' = redis /\ ttl' = ttl /\ late' = late /\ quiet' \in {0, quiet}
          /\ memory' = [memory EXCEPT ![i] = Empty(0..1)]
          /\ passed' = [passed EXCEPT ![i] = [b \in 0..1 |-> 0]]
          /\ misses' = [misses EXCEPT ![i] = 0]
      BY <1>12 DEF Restart
    <2>2. memory' \in [Instances -> Store(0..1)]
      BY <1>0, <1>f, <2>1
    <2>3. passed' \in [Instances \cup {"redis"} -> [0..1 -> Nat]] /\ misses' \in [Instances -> 0..Limit]
      BY <1>0, <1>e, <2>1
    <2>4. quiet' \in 0..Lockout + 1
      BY <1>0, <1>c, <2>1
    <2> QED BY <1>0, <1>a, <1>b, <1>c, <2>1, <2>2, <2>3, <2>4, TypedParts
  <1>13. CASE Tick
    <2>1. redis' \in Store(Back) /\ ttl' \in [Back -> 0..2 * Window]
      BY <1>13, TickRedis
    <2>2. memory' \in [Instances -> Store(0..1)]
      <3>1. memory' = [i \in Instances |-> Older(memory[i])]
        BY <1>13 DEF Tick
      <3>2. \A i \in Instances : memory'[i] \in Store(0..1)
        BY <1>13, TickMemory
      <3> QED BY <3>1, <3>2
    <2>3. phase' \in 0..Window - 1
      <3>1. phase' = (phase + 1) % Window
        BY <1>13 DEF Tick
      <3> QED BY <1>0, <1>d, <3>1, Remainder
    <2>4. late' \in BOOLEAN
      BY <1>0, <1>13 DEF Tick
    <2>5. misses' \in [Instances -> 0..Limit]
      BY <1>0, <1>13, <1>e DEF Tick
    <2>6. quiet' \in 0..Lockout + 1
      <3>1. quiet' = IF Open THEN 0 ELSE IF quiet > Lockout THEN quiet ELSE quiet + 1
        BY <1>13 DEF Tick
      <3> QED BY <1>0, <1>c, <3>1
    <2>7. passed' \in [Instances \cup {"redis"} -> [0..1 -> Nat]]
      <3>1. CASE phase = Window - 1
        <4>1. passed' = [s \in DOMAIN passed |-> Shift(passed[s], 0)]
          BY <1>13, <3>1 DEF Tick
        <4>2. DOMAIN passed = Instances \cup {"redis"}
          BY <1>0
        <4>3. \A s \in Instances \cup {"redis"} : Shift(passed[s], 0) \in [0..1 -> Nat]
          <5>1. SUFFICES ASSUME NEW s \in Instances \cup {"redis"} PROVE Shift(passed[s], 0) \in [0..1 -> Nat]
            OBVIOUS
          <5>2. passed[s] \in [0..1 -> Nat] /\ DOMAIN passed[s] = 0..1
            BY <1>0
          <5>3. Shift(passed[s], 0) = [b \in 0..1 |-> IF b = 0 THEN 0 ELSE passed[s][b - 1]]
            BY <5>2 DEF Shift
          <5>4. \A b \in 0..1 : (IF b = 0 THEN 0 ELSE passed[s][b - 1]) \in Nat
            <6>1. \A b \in 0..1 : b # 0 => b - 1 = 0
              OBVIOUS
            <6>2. passed[s][0] \in Nat
              BY <5>2
            <6> QED BY <6>1, <6>2
          <5> QED BY <5>3, <5>4
        <4> QED BY <4>1, <4>2, <4>3
      <3>2. CASE phase # Window - 1
        BY <1>0, <1>13, <3>2 DEF Tick
      <3> QED BY <3>1, <3>2
    <2> QED BY <1>0, <1>a, <1>b, <1>c, <2>1, <2>2, <2>3, <2>4, <2>5, <2>6, <2>7, TypedParts
  <1> QED BY <1>3, <1>4, <1>5, <1>6, <1>7, <1>8, <1>9, <1>10, <1>11, <1>12, <1>13, InstancesAssumption DEF Next

--------------------------------------------------------------------------------
(* The counters of Redis, for as long as they count. *)

(* What a step does to the counters: nothing, the script, or the clock. *)
LEMMA RedisSteps ==
    ASSUME Typed, Placed, Next
    PROVE  \/ redis' = redis /\ ttl' = ttl /\ late' = late /\ phase' = phase
           \/ /\ phase' = phase
              /\ \E p \in Position : Script(p) /\ (p.back = 0 => p.elapsed <= phase)
           \/ Tick
  <1>0. req \in [Requests -> Request] /\ straggling \subseteq Position /\ phase \in 0..Window - 1
    BY DEF Typed, TypeOK
  <1>1. ASSUME NEW r \in Requests, NEW i \in Instances,
               \/ HitLocally(r, i) \/ Send(r, i) \/ Guard(r, i) \/ Answer(r) \/ TimeOut(r)
               \/ Found(r) \/ Miss(r) \/ PlaceBlock(r) \/ Sweep(i) \/ Restart(i)
        PROVE  redis' = redis /\ ttl' = ttl /\ late' = late /\ phase' = phase
    BY <1>1 DEF HitLocally, Send, Guard, Answer, TimeOut, Found, Miss, PlaceBlock, Sweep, Restart, HitMemory,
                stores
  <1>2. ASSUME NEW r \in Requests, Run(r)
        PROVE  \E p \in Position : Script(p) /\ (p.back = 0 => p.elapsed <= phase) /\ phase' = phase
    <2>1. req[r] \in Request
      BY <1>0
    <2>2. PICK p \in Position : p = req[r].position
      BY <2>1 DEF Request
    <2>3. Script(p) /\ phase' = phase /\ Waits(r)
      BY <1>2, <2>2 DEF Run, Waits
    <2>4. p.back = 0 => phase = p.elapsed + req[r].age
      BY <2>2, <2>3 DEF Placed
    <2>5. p.elapsed \in Nat /\ req[r].age \in Nat
      BY <2>1, Constants DEF Request, Position
    <2> QED BY <1>0, <2>3, <2>4, <2>5
  <1>3. ASSUME NEW p \in straggling, RunLate(p)
        PROVE  \E q \in Position : Script(q) /\ (q.back = 0 => q.elapsed <= phase) /\ phase' = phase
    BY <1>0, <1>3 DEF RunLate, Placed
  <1>4. ASSUME NEW i \in Instances, Sweep(i) \/ Restart(i)
        PROVE  redis' = redis /\ ttl' = ttl /\ late' = late /\ phase' = phase
    BY <1>4 DEF Sweep, Restart
  <1> QED BY <1>1, <1>2, <1>3, <1>4, InstancesAssumption DEF Next

LEMMA KeptStep ==
    ASSUME Typed, Placed, Kept, Next
    PROVE  Kept'
  <1>0. /\ phase \in 0..Window - 1 /\ ttl \in [Back -> 0..2 * Window]
        /\ redis.n \in [Back -> 0..Limit] /\ Window \in Nat \ {0} /\ Limit \in Nat
        /\ 0 \in Back /\ 1 \in Back
    BY Constants DEF Typed, TypeOK, Store, Back
  <1>1. CASE redis' = redis /\ ttl' = ttl /\ phase' = phase
    BY <1>1 DEF Kept
  <1>2. ASSUME NEW p \in Position, Script(p), phase' = phase
        PROVE  Kept'
    <2>1. ASSUME NEW b \in 0..1
          PROVE  \/ redis'.n[b] = redis.n[b] /\ ttl'[b] = ttl[b]
                 \/ ttl'[b] = 2 * Window
                 \/ redis.n[b] # 0 /\ ttl'[b] = ttl[b]
      <3>2. b \in Back
        BY DEF Back
      <3>3. CASE Passes(redis, p)
        BY <1>2, <3>2, <3>3, ScriptLeaves
      <3>4. CASE ~Passes(redis, p)
        BY <1>2, <3>2, <3>4, ScriptLeaves
      <3> QED BY <3>3, <3>4
    <2>2. redis.n[0] \in 0..Limit /\ redis.n[1] \in 0..Limit /\ ttl[0] \in Nat /\ ttl[1] \in Nat
      BY <1>0
    <2>3. redis'.n[0] > 0 => ttl'[0] + phase >= 2 * Window
      <3>1. 0 \in 0..1
        OBVIOUS
      <3> QED BY <1>0, <2>1, <2>2, <3>1 DEF Kept
    <2>4. redis'.n[1] > 0 => ttl'[1] + phase >= Window
      <3>1. 1 \in 0..1
        OBVIOUS
      <3> QED BY <1>0, <2>1, <2>2, <3>1 DEF Kept
    <2> QED BY <1>2, <2>3, <2>4 DEF Kept
  <1>3. CASE Tick
    <2>1. phase' = (phase + 1) % Window
      BY <1>3 DEF Tick
    <2>2. ttl[0] \in Nat /\ ttl[1] \in Nat
      BY <1>0
    <2>3. CASE phase = Window - 1
      <3>1. redis'.n[0] = 0 /\ redis'.n[1] = redis.n[0] /\ ttl'[0] = 0 /\ ttl'[1] = Less(ttl[0]) /\ phase' = 0
        BY <1>0, <1>3, <2>1, <2>3, TickRedis, Remainder
      <3>2. redis.n[0] > 0 => ttl[0] + phase >= 2 * Window
        BY DEF Kept
      <3>3. redis'.n[1] > 0 => ttl'[1] + phase' >= Window
        BY <1>0, <2>2, <2>3, <3>1, <3>2, LessIs
      <3> QED BY <3>1, <3>3 DEF Kept
    <2>4. CASE phase # Window - 1
      <3>1. /\ redis'.n[0] = redis.n[0] /\ redis'.n[1] = redis.n[1]
            /\ ttl'[0] = Less(ttl[0]) /\ ttl'[1] = Less(ttl[1]) /\ phase' = phase + 1
        BY <1>0, <1>3, <2>1, <2>4, TickRedis, Remainder
      <3>2. redis'.n[0] > 0 => ttl'[0] + phase' >= 2 * Window
        BY <1>0, <2>2, <3>1, LessIs DEF Kept
      <3>3. redis'.n[1] > 0 => ttl'[1] + phase' >= Window
        BY <1>0, <2>2, <3>1, LessIs DEF Kept
      <3> QED BY <3>2, <3>3 DEF Kept
    <2> QED BY <2>3, <2>4
  <1> QED BY <1>1, <1>2, <1>3, RedisSteps

(* What the processes' memories do in a step: nothing, a hit, empty themselves, or the clock. *)
LEMMA MemorySteps ==
    ASSUME Typed, Next
    PROVE  \/ memory' = memory /\ phase' = phase
           \/ phase' = phase /\ \E i \in Instances : HitMemory(i)
           \/ phase' = phase /\ \E i \in Instances : Sweep(i) \/ Restart(i)
           \/ Tick
  <1>0. \A r \in Requests : req[r].inst \in Instances
    BY DEF Typed, TypeOK
  <1>1. ASSUME NEW r \in Requests, NEW i \in Instances, Send(r, i) \/ Guard(r, i) \/ Answer(r) \/ Found(r) \/ Run(r)
        PROVE  memory' = memory /\ phase' = phase
    BY <1>1 DEF Send, Guard, Answer, Found, Run, Script, stores
  <1>2. ASSUME NEW p \in straggling, RunLate(p)
        PROVE  memory' = memory /\ phase' = phase
    BY <1>2 DEF RunLate, Script
  <1>3. ASSUME NEW r \in Requests, NEW i \in Instances, HitLocally(r, i) \/ TimeOut(r) \/ Miss(r) \/ PlaceBlock(r)
        PROVE  phase' = phase /\ \E j \in Instances : HitMemory(j)
    BY <1>0, <1>3 DEF HitLocally, TimeOut, Miss, PlaceBlock
  <1>4. ASSUME NEW i \in Instances, Sweep(i) \/ Restart(i)
        PROVE  phase' = phase
    BY <1>4 DEF Sweep, Restart
  <1> QED BY <1>1, <1>2, <1>3, <1>4, InstancesAssumption DEF Next

(* A store that starts anew weighs nothing. *)
LEMMA EmptyIs ==
    /\ Empty(0..1).n = [b \in 0..1 |-> 0] /\ Empty(0..1).block = 0
    /\ Empty(0..1).n[0] = 0 /\ Empty(0..1).n[1] = 0
  BY DEF Empty

LEMMA Emptied ==
    ASSUME Typed, NEW i \in Instances, Sweep(i) \/ Restart(i)
    PROVE  /\ memory'[i].n[0] = 0 /\ memory'[i].n[1] = 0 /\ memory'[i].block \in {0, memory[i].block}
           /\ Sweep(i) => memory'[i].block = memory[i].block
           /\ Restart(i) => memory'[i].block = 0
           /\ \A j \in Instances \ {i} : memory'[j] = memory[j]
  <1>1. memory \in [Instances -> Store(0..1)] /\ memory[i] \in Store(0..1)
    BY DEF Typed, TypeOK
  <1>2. CASE Sweep(i)
    <2>1. memory' = [memory EXCEPT ![i].n = Empty(0..1).n]
      BY <1>2 DEF Sweep
    <2>2. PICK e : e = Empty(0..1).n
      OBVIOUS
    <2>3. memory'[i] = [memory[i] EXCEPT !.n = e] /\ \A j \in Instances \ {i} : memory'[j] = memory[j]
      BY <1>1, <2>1, <2>2
    <2>4. memory'[i].n = e /\ memory'[i].block = memory[i].block
      BY <1>1, <2>3 DEF Store
    <2>5. CASE Restart(i)
      <3>1. memory' = [memory EXCEPT ![i] = Empty(0..1)]
        BY <2>5 DEF Restart
      <3> QED BY <1>1, <3>1, <2>2, <2>3, <2>4, EmptyIs
    <2> QED BY <1>2, <2>2, <2>3, <2>4, <2>5, EmptyIs
  <1>3. CASE Restart(i) /\ ~Sweep(i)
    <2>1. memory' = [memory EXCEPT ![i] = Empty(0..1)]
      BY <1>3 DEF Restart
    <2> QED BY <1>1, <1>3, <2>1, EmptyIs
  <1> QED BY <1>2, <1>3

LEMMA WeighedStep ==
    ASSUME Typed, Placed, Kept, Weighed, Next
    PROVE  Weighed'
  <1>0. /\ phase \in 0..Window - 1 /\ Window \in Nat \ {0} /\ Limit \in Nat
        /\ \A i \in Instances : /\ memory[i].n[0] \in Nat /\ memory[i].n[1] \in Nat
                                /\ memory[i].n[0] <= Limit /\ memory[i].n[1] <= Limit
        /\ redis.n[0] \in Nat /\ redis.n[1] \in Nat /\ redis.n[0] <= Limit /\ redis.n[1] <= Limit
        /\ late \in BOOLEAN
    <2>1. Limit \in Nat /\ Window \in Nat \ {0} /\ 0 \in Back /\ 1 \in Back
      BY Constants DEF Back
    <2>2. redis.n \in [Back -> 0..Limit] /\ late \in BOOLEAN /\ phase \in 0..Window - 1
      BY DEF Typed, TypeOK, Store
    <2>3. redis.n[0] \in 0..Limit /\ redis.n[1] \in 0..Limit
      BY <2>1, <2>2
    <2>4. ASSUME NEW i \in Instances
          PROVE  memory[i].n[0] \in 0..Limit /\ memory[i].n[1] \in 0..Limit
      <3>1. memory[i].n \in [0..1 -> 0..Limit]
        BY DEF Typed, TypeOK, Store
      <3> QED BY <3>1
    <2> QED BY <2>1, <2>2, <2>3, <2>4
  <1>a. phase' = phase \/ Tick
    BY MemorySteps
  <1>b. ASSUME Tick
        PROVE  /\ phase = Window - 1 => phase' = 0
               /\ phase # Window - 1 => (phase' = phase + 1 /\ phase' \in 0..Window - 1)
    <2>1. phase' = (phase + 1) % Window
      BY <1>b DEF Tick
    <2>2. /\ phase = Window - 1 => (phase + 1) % Window = 0
          /\ phase # Window - 1 => (phase + 1) % Window = phase + 1
      BY <1>0, Remainder
    <2>3. phase # Window - 1 => phase + 1 \in 0..Window - 1
      BY <1>0
    <2> QED BY <2>1, <2>2, <2>3
  <1>1. ASSUME NEW i \in Instances
        PROVE  memory'[i].n[1] * (Window - phase') + (memory'[i].n[0] - 1) * Window < Limit * Window
    <2>0. memory[i].n[1] * (Window - phase) + (memory[i].n[0] - 1) * Window < Limit * Window
      BY DEF Weighed, Light
    <2>1. CASE memory' = memory /\ phase' = phase
      BY <2>0, <2>1
    <2>2. ASSUME NEW j \in Instances, HitMemory(j), phase' = phase
          PROVE  memory'[i].n[1] * (Window - phase') + (memory'[i].n[0] - 1) * Window < Limit * Window
      <3>1. CASE i # j
        <4>1. memory'[i] = memory[i]
          BY <2>2, <3>1, MemoryHit
        <4> QED BY <2>0, <2>2, <4>1
      <3>2. CASE i = j /\ Passes(memory[i], Here)
        <4>1. /\ memory'[i].n[0] = memory[i].n[0] + 1 /\ memory'[i].n[1] = memory[i].n[1]
              /\ memory[i].n[1] * (Window - phase) + ((memory[i].n[0] + 1) - 1) * Window < Limit * Window
          BY <2>2, <3>2, MemoryHit
        <4> QED BY <2>2, <4>1
      <3>3. CASE i = j /\ ~Passes(memory[i], Here)
        <4>1. memory'[i].n = memory[i].n
          BY <2>2, <3>3, MemoryHit
        <4> QED BY <2>0, <2>2, <4>1
      <3> QED BY <3>1, <3>2, <3>3
    <2>3. ASSUME NEW j \in Instances, Sweep(j) \/ Restart(j), phase' = phase
          PROVE  memory'[i].n[1] * (Window - phase') + (memory'[i].n[0] - 1) * Window < Limit * Window
      <3>1. CASE i # j
        <4>1. memory'[i] = memory[i]
          BY <2>3, <3>1, Emptied
        <4> QED BY <2>0, <2>3, <4>1
      <3>2. CASE i = j
        <4>1. memory'[i].n[0] = 0 /\ memory'[i].n[1] = 0
          BY <2>3, <3>2, Emptied
        <4>2. 0 * (Window - phase) + (0 - 1) * Window < Limit * Window
          BY <1>0, LightAlone
        <4> QED BY <2>3, <4>1, <4>2
      <3> QED BY <3>1, <3>2
    <2>4. CASE Tick
      <3>1. CASE phase = Window - 1
        <4>1. memory'[i].n[0] = 0 /\ memory'[i].n[1] = memory[i].n[0] /\ phase' = 0
          BY <1>b, <2>4, <3>1, TickMemory
        <4>2. 0 \in 0..Window - 1
          BY <1>0
        <4>3. memory[i].n[0] * (Window - 0) + (0 - 1) * Window < Limit * Window
          BY <1>0, <4>2, LightAlone
        <4> QED BY <4>1, <4>3
      <3>2. CASE phase # Window - 1
        <4>1. memory'[i].n = memory[i].n
          BY <2>4, <3>2, TickMemory
        <4>2. PICK f \in 0..Window - 1 : f = phase' /\ phase <= f
          BY <1>0, <1>b, <2>4, <3>2
        <4>3. memory[i].n[1] * (Window - f) + (memory[i].n[0] - 1) * Window < Limit * Window
          <5>1. memory[i].n[0] <= memory[i].n[0] /\ memory[i].n[1] <= memory[i].n[1]
            BY <1>0
          <5> QED BY <1>0, <2>0, <4>2, <5>1, LightLater
        <4> QED BY <4>1, <4>2, <4>3
      <3> QED BY <3>1, <3>2
    <2> QED BY <2>1, <2>2, <2>3, <2>4, MemorySteps
  <1>2. ASSUME ~late'
        PROVE  redis'.n[1] * (Window - phase') + (redis'.n[0] - 1) * Window < Limit * Window
    <2>1. CASE redis' = redis /\ late' = late /\ phase' = phase
      BY <1>2, <2>1 DEF Weighed, Light
    <2>2. ASSUME NEW p \in Position, Script(p), p.back = 0 => p.elapsed <= phase, phase' = phase
          PROVE  redis'.n[1] * (Window - phase') + (redis'.n[0] - 1) * Window < Limit * Window
      <3>1. ~late /\ ~(p.back = 1 /\ redis.n[0] > 0)
        BY <1>2, <2>2, ScriptLeaves
      <3>2. redis.n[1] * (Window - phase) + (redis.n[0] - 1) * Window < Limit * Window
        BY <3>1 DEF Weighed, Light
      <3>3. p.back \in 0..1 /\ p.elapsed \in 0..Window - 1 /\ 0 \in Back /\ 1 \in Back
        BY DEF Position, Back
      <3>4. CASE ~Passes(redis, p)
        <4>1. redis'.n = redis.n
          BY <2>2, <3>4, ScriptLeaves
        <4> QED BY <2>2, <3>2, <4>1
      <3>5. CASE Passes(redis, p) /\ p.back = 0
        <4>1. /\ redis'.n[0] = redis.n[0] + 1 /\ redis'.n[1] = redis.n[1]
              /\ redis.n[1] * (Window - p.elapsed) + ((redis.n[0] + 1) - 1) * Window < Limit * Window
          <5>1. /\ redis.n[p.back] < Limit
                /\ redis'.n[p.back] = redis.n[p.back] + 1
                /\ \A b \in Back \ {p.back} : redis'.n[b] = redis.n[b]
                /\ redis.n[p.back + 1] * (Window - p.elapsed) + ((redis.n[p.back] + 1) - 1) * Window
                      < Limit * Window
            BY <2>2, <3>5, ScriptLeaves
          <5>2. p.back + 1 = 1 /\ 1 \in Back \ {p.back}
            BY <3>3, <3>5
          <5> QED BY <3>5, <5>1, <5>2
        <4>2. PICK m \in Nat : m = redis.n[0] + 1
          BY <1>0
        <4>3. p.elapsed <= phase /\ redis.n[1] <= redis.n[1] /\ m <= m
          BY <1>0, <2>2, <3>5
        <4>4. redis.n[1] * (Window - p.elapsed) + (m - 1) * Window < Limit * Window
          BY <4>1, <4>2
        <4>5. redis.n[1] * (Window - phase) + (m - 1) * Window < Limit * Window
          BY <1>0, <3>3, <4>3, <4>4, LightLater
        <4> QED BY <2>2, <4>1, <4>2, <4>5
      <3>6. CASE Passes(redis, p) /\ p.back = 1
        <4>1. redis.n[0] = 0
          BY <1>0, <3>1, <3>6
        <4>2. redis'.n[0] = redis.n[0] /\ redis'.n[1] = redis.n[1] + 1 /\ redis.n[1] < Limit
          <5>1. 0 \in Back \ {p.back}
            BY <3>3, <3>6
          <5> QED BY <2>2, <3>6, <5>1, ScriptLeaves
        <4>3. PICK m \in Nat : m = redis.n[1] + 1 /\ m <= Limit
          BY <1>0, <4>2
        <4>4. m * (Window - phase) + (0 - 1) * Window < Limit * Window
          BY <1>0, <4>3, LightAlone
        <4> QED BY <2>2, <4>1, <4>2, <4>3, <4>4
      <3> QED BY <3>3, <3>4, <3>5, <3>6
    <2>3. CASE Tick
      <3>1. CASE phase = Window - 1
        <4>1. redis'.n[0] = 0 /\ redis'.n[1] = redis.n[0] /\ phase' = 0
          BY <1>b, <2>3, <3>1, TickRedis
        <4>2. 0 \in 0..Window - 1
          BY <1>0
        <4>3. redis.n[0] * (Window - 0) + (0 - 1) * Window < Limit * Window
          BY <1>0, <4>2, LightAlone
        <4> QED BY <4>1, <4>3
      <3>2. CASE phase # Window - 1
        <4>1. redis'.n[0] = redis.n[0] /\ redis'.n[1] = redis.n[1] /\ ~late
          <5>1. late' = (late /\ ~(phase = Window - 1))
            BY <2>3 DEF Tick
          <5> QED BY <1>0, <1>2, <2>3, <3>2, <5>1, TickRedis
        <4>2. PICK f \in 0..Window - 1 : f = phase' /\ phase <= f
          BY <1>0, <1>b, <2>3, <3>2
        <4>3. redis.n[1] * (Window - phase) + (redis.n[0] - 1) * Window < Limit * Window
          BY <4>1 DEF Weighed, Light
        <4>4. redis.n[1] * (Window - f) + (redis.n[0] - 1) * Window < Limit * Window
          <5>1. redis.n[0] <= redis.n[0] /\ redis.n[1] <= redis.n[1]
            BY <1>0
          <5> QED BY <1>0, <4>2, <4>3, <5>1, LightLater
        <4> QED BY <4>1, <4>2, <4>4
      <3> QED BY <3>1, <3>2
    <2> QED BY <2>1, <2>2, <2>3, RedisSteps
  <1> QED BY <1>1, <1>2 DEF Weighed, Light

--------------------------------------------------------------------------------
(* What has been let through, and what has been counted. *)

LEMMA AllowedIsFinite ==
    ASSUME NEW S \in SUBSET Requests
    PROVE  IsFiniteSet(S) /\ Cardinality(S) \in Nat
  <1>1. IsFiniteSet(S)
    BY InstancesAssumption, FS_Subset
  <1>2. Cardinality(S) \in Nat
    BY <1>1, FS_CardinalityType
  <1> QED BY <1>1, <1>2

LEMMA FewerAllowed ==
    ASSUME NEW S \in SUBSET Requests, NEW T \in SUBSET S, NEW m \in Nat, NEW n \in Nat,
           NEW k \in Nat, m + Cardinality(S) <= n, n <= k
    PROVE  m + Cardinality(T) <= k
  <1>1. Cardinality(S) \in Nat /\ IsFiniteSet(S)
    BY AllowedIsFinite
  <1>2. Cardinality(T) \in Nat
    BY AllowedIsFinite
  <1>3. Cardinality(T) <= Cardinality(S)
    BY <1>1, FS_Subset
  <1> QED BY <1>1, <1>2, <1>3

LEMMA CountedStep ==
    ASSUME Typed, Placed, Kept, Counted, Next
    PROVE  Counted'
  <1>0. /\ passed \in [Instances \cup {"redis"} -> [0..1 -> Nat]]
        /\ req \in [Requests -> Request]
        /\ \A b \in 0..1 : redis.n[b] \in Nat /\ passed["redis"][b] \in Nat
        /\ "redis" \notin Instances
    <2>1. /\ passed \in [Instances \cup {"redis"} -> [0..1 -> Nat]] /\ req \in [Requests -> Request]
          /\ redis.n \in [Back -> 0..Limit] /\ Limit \in Nat /\ \A b \in 0..1 : b \in Back
      BY Constants DEF Typed, TypeOK, Store, Back
    <2>2. ASSUME NEW b \in 0..1 PROVE redis.n[b] \in Nat /\ passed["redis"][b] \in Nat
      <3>1. redis.n[b] \in 0..Limit /\ passed["redis"] \in [0..1 -> Nat]
        BY <2>1
      <3> QED BY <2>1, <3>1
    <2> QED BY <2>1, <2>2, InstancesAssumption
  <1>1. /\ \A i \in Instances, b \in 0..1 : passed[i][b] = memory[i].n[b]
        /\ \A b \in 0..1 : passed["redis"][b] + Cardinality(Allowed(b)) <= redis.n[b]
    BY DEF Counted
  <1>b. \A b \in 0..1 : Allowed(b) \in SUBSET Requests /\ Allowed(b)' \in SUBSET Requests
    BY DEF Allowed
  (* Nothing is newly allowed. *)
  <1>2. ASSUME \A r \in Requests : req'[r].pc = "allowed" => req'[r] = req[r],
               passed'["redis"] = passed["redis"],
               \A b \in 0..1 : redis'.n[b] \in Nat /\ redis'.n[b] >= redis.n[b]
        PROVE  \A b \in 0..1 : passed'["redis"][b] + Cardinality(Allowed(b)') <= redis'.n[b]
    <2>1. SUFFICES ASSUME NEW b \in 0..1
                   PROVE  passed'["redis"][b] + Cardinality(Allowed(b)') <= redis'.n[b]
      OBVIOUS
    <2>2. Allowed(b)' \subseteq Allowed(b)
      BY <1>2 DEF Allowed
    <2>3. PICK S \in SUBSET Requests : S = Allowed(b)
      BY <1>b
    <2>4. PICK T \in SUBSET S : T = Allowed(b)'
      BY <2>2, <2>3
    <2>5. PICK m \in Nat, n \in Nat, k \in Nat :
              m = passed["redis"][b] /\ n = redis.n[b] /\ k = redis'.n[b] /\ n <= k
      BY <1>0, <1>2
    <2>6. m + Cardinality(S) <= n
      BY <1>1, <2>3, <2>5
    <2>7. m + Cardinality(T) <= k
      BY <2>5, <2>6, FewerAllowed
    <2> QED BY <1>2, <2>4, <2>5, <2>7
  <1>3. ASSUME NEW i \in Instances, HitMemory(i),
               \A r \in Requests : req'[r].pc = "allowed" => req'[r] = req[r]
        PROVE  Counted'
    <2>1. redis' = redis /\ \A j \in Instances \ {i} : memory'[j] = memory[j]
      BY <1>3, MemoryHit
    <2>2. /\ \A s \in (Instances \cup {"redis"}) \ {i} : passed'[s] = passed[s]
          /\ passed'[i][1] = passed[i][1]
          /\ passed'[i][0] = IF Passes(memory[i], Here) THEN passed[i][0] + 1 ELSE passed[i][0]
      BY <1>3, HitPasses
    <2>3. ASSUME NEW j \in Instances, NEW b \in 0..1 PROVE passed'[j][b] = memory'[j].n[b]
      <3>1. CASE j # i
        BY <1>1, <2>1, <2>2, <3>1
      <3>2. CASE j = i /\ Passes(memory[i], Here)
        <4>1. memory'[i].n[0] = memory[i].n[0] + 1 /\ memory'[i].n[1] = memory[i].n[1]
          BY <1>3, <3>2, MemoryHit
        <4>2. passed'[i][0] = passed[i][0] + 1
          BY <2>2, <3>2
        <4>3. passed[i][0] = memory[i].n[0] /\ passed[i][1] = memory[i].n[1]
          BY <1>1
        <4>4. b = 0 \/ b = 1
          OBVIOUS
        <4> QED BY <2>2, <3>2, <4>1, <4>2, <4>3, <4>4
      <3>3. CASE j = i /\ ~Passes(memory[i], Here)
        <4>1. memory'[i].n = memory[i].n
          BY <1>3, <3>3, MemoryHit
        <4>2. passed'[i][0] = passed[i][0]
          BY <2>2, <3>3
        <4>3. passed[i][0] = memory[i].n[0] /\ passed[i][1] = memory[i].n[1]
          BY <1>1
        <4>4. b = 0 \/ b = 1
          OBVIOUS
        <4> QED BY <2>2, <3>3, <4>1, <4>2, <4>3, <4>4
      <3> QED BY <3>1, <3>2, <3>3
    <2>4. passed'["redis"] = passed["redis"]
      BY <1>0, <2>2
    <2>5. \A b \in 0..1 : redis'.n[b] \in Nat /\ redis'.n[b] >= redis.n[b]
      BY <1>0, <2>1
    <2>6. \A b \in 0..1 : passed'["redis"][b] + Cardinality(Allowed(b)') <= redis'.n[b]
      BY <1>2, <1>3, <2>4, <2>5
    <2> QED BY <2>3, <2>6 DEF Counted
  <1>4. ASSUME NEW r \in Requests, NEW i \in Instances,
               HitLocally(r, i) \/ TimeOut(r) \/ Miss(r) \/ PlaceBlock(r)
        PROVE  Counted'
    <2>1. req[r].inst \in Instances
      BY <1>0 DEF Request
    <2>2. PICK j \in Instances : HitMemory(j)
      BY <1>4, <2>1 DEF HitLocally, TimeOut, Miss, PlaceBlock
    <2>3. req' = req \/ \E q : req' = [req EXCEPT ![r] = q] /\ q.pc # "allowed"
      <3>1. CASE HitLocally(r, i)
        BY <3>1 DEF HitLocally
      <3>2. CASE TimeOut(r) \/ PlaceBlock(r)
        BY <3>2, Constants DEF TimeOut, PlaceBlock
      <3>3. CASE Miss(r)
        <4>1. PICK q : q = IF Spent(req[r].inst) THEN [req[r] EXCEPT !.pc = "spent"] ELSE Idle
          OBVIOUS
        <4>2. req' = [req EXCEPT ![r] = q]
          BY <1>0, <3>3, <4>1 DEF Miss
        <4>3. req[r] \in Request
          BY <1>0
        <4>4. q.pc # "allowed"
          BY <4>1, <4>3, Constants DEF Request
        <4> QED BY <4>2, <4>4
      <3> QED BY <1>4, <3>1, <3>2, <3>3
    <2>4. \A o \in Requests : req'[o].pc = "allowed" => req'[o] = req[o]
      BY <1>0, <2>3
    <2> QED BY <1>3, <2>2, <2>4
  <1>5. ASSUME NEW r \in Requests, NEW i \in Instances, Send(r, i) \/ Guard(r, i) \/ Found(r)
        PROVE  Counted'
    <2>1. redis' = redis /\ memory' = memory /\ passed' = passed
      BY <1>5 DEF Send, Guard, Found, stores
    <2>2. \E q : req' = [req EXCEPT ![r] = q] /\ q.pc # "allowed"
      <3>1. Idle \in Request
        BY Constants
      <3>2. CASE Send(r, i)
        <4>1. PICK q : q = [Idle EXCEPT !.pc = "sent", !.inst = i, !.position = Here]
          OBVIOUS
        <4>2. q.pc = "sent"
          BY <3>1, <4>1 DEF Request
        <4>3. req' = [req EXCEPT ![r] = q]
          BY <3>2, <4>1 DEF Send
        <4> QED BY <4>2, <4>3
      <3>3. CASE Guard(r, i)
        <4>1. PICK q : q = [Idle EXCEPT !.pc = "resolving", !.inst = i]
          OBVIOUS
        <4>2. q.pc = "resolving"
          BY <3>1, <4>1 DEF Request
        <4>3. req' = [req EXCEPT ![r] = q]
          BY <3>3, <4>1 DEF Guard
        <4> QED BY <4>2, <4>3
      <3>4. CASE Found(r)
        BY <3>4, Constants DEF Found
      <3> QED BY <1>5, <3>2, <3>3, <3>4
    <2>3. \A o \in Requests : req'[o].pc = "allowed" => req'[o] = req[o]
      BY <1>0, <2>2
    <2>4. \A b \in 0..1 : redis'.n[b] \in Nat /\ redis'.n[b] >= redis.n[b]
      BY <1>0, <2>1
    <2>5. \A b \in 0..1 : passed'["redis"][b] + Cardinality(Allowed(b)') <= redis'.n[b]
      BY <1>2, <2>1, <2>3, <2>4
    <2> QED BY <1>1, <2>1, <2>5 DEF Counted
  <1>s. ASSUME NEW p \in Position, Script(p), NEW b \in 0..1
        PROVE  /\ redis'.n[b] \in Nat /\ redis'.n[b] >= redis.n[b]
               /\ Passes(redis, p) /\ b = p.back => redis'.n[b] = redis.n[b] + 1
               /\ memory' = memory
    <2>1. b \in Back /\ redis.n[b] \in Nat
      BY <1>0 DEF Back
    <2>2. CASE Passes(redis, p)
      <3>1. redis'.n[p.back] = redis.n[p.back] + 1 /\ \A c \in Back \ {p.back} : redis'.n[c] = redis.n[c]
        BY <1>s, <2>2, ScriptLeaves
      <3>2. memory' = memory
        BY <1>s, ScriptLeaves
      <3> QED BY <2>1, <3>1, <3>2
    <2>3. CASE ~Passes(redis, p)
      BY <1>s, <2>1, <2>3, ScriptLeaves
    <2> QED BY <2>2, <2>3
  <1>6. ASSUME NEW p \in straggling, RunLate(p)
        PROVE  Counted'
    <2>1. p \in Position /\ Script(p) /\ req' = req /\ passed' = passed
      BY <1>6 DEF RunLate, Typed, TypeOK
    <2>2. memory' = memory
      BY <2>1 DEF Script
    <2>3. \A b \in 0..1 : redis'.n[b] \in Nat /\ redis'.n[b] >= redis.n[b]
      BY <1>s, <2>1
    <2>4. \A b \in 0..1 : passed'["redis"][b] + Cardinality(Allowed(b)') <= redis'.n[b]
      BY <1>2, <2>1, <2>3
    <2> QED BY <1>1, <2>1, <2>2, <2>4 DEF Counted
  <1>7. ASSUME NEW r \in Requests, Run(r)
        PROVE  Counted'
    <2>0. req[r] \in Request /\ req[r].pc = "sent"
      BY <1>0, <1>7 DEF Run
    <2>1. PICK p \in Position : p = req[r].position
      BY <2>0 DEF Request
    <2>2. Script(p) /\ passed' = passed /\ memory' = memory
          /\ req' = [req EXCEPT ![r].pc = IF Passes(redis, p) THEN "allowed" ELSE "denied"]
      BY <1>7, <2>1 DEF Run, Script
    <2>3. \A b \in 0..1 : redis'.n[b] \in Nat /\ redis'.n[b] >= redis.n[b]
      BY <1>s, <2>2
    <2>4. /\ \A o \in Requests \ {r} : req'[o] = req[o]
          /\ req'[r].position = p
          /\ req'[r].pc = IF Passes(redis, p) THEN "allowed" ELSE "denied"
      <3>1. PICK q : q = [req[r] EXCEPT !.pc = IF Passes(redis, p) THEN "allowed" ELSE "denied"]
        OBVIOUS
      <3>2. req' = [req EXCEPT ![r] = q]
        BY <1>0, <2>2, <3>1
      <3>3. q.position = p /\ q.pc = IF Passes(redis, p) THEN "allowed" ELSE "denied"
        BY <2>0, <2>1, <3>1 DEF Request
      <3> QED BY <1>0, <3>2, <3>3
    <2>5. CASE ~Passes(redis, p)
      <3>1. \A o \in Requests : req'[o].pc = "allowed" => req'[o] = req[o]
        BY <2>4, <2>5
      <3>2. \A b \in 0..1 : passed'["redis"][b] + Cardinality(Allowed(b)') <= redis'.n[b]
        BY <1>2, <2>2, <2>3, <3>1
      <3> QED BY <1>1, <2>2, <3>2 DEF Counted
    <2>6. CASE Passes(redis, p)
      <3>1. ASSUME NEW b \in 0..1
            PROVE  passed'["redis"][b] + Cardinality(Allowed(b)') <= redis'.n[b]
        <4>1. PICK S \in SUBSET Requests : S = Allowed(b)
          BY <1>b
        <4>2. IsFiniteSet(S) /\ Cardinality(S) \in Nat
          BY AllowedIsFinite
        <4>3. passed'["redis"][b] = passed["redis"][b] /\ passed["redis"][b] + Cardinality(S) <= redis.n[b]
          BY <1>1, <2>2, <4>1
        <4>4. CASE b = p.back
          <5>1. Allowed(b)' = S \cup {r} /\ r \notin S
            BY <2>0, <2>4, <2>6, <4>1, <4>4 DEF Allowed
          <5>2. Cardinality(S \cup {r}) = Cardinality(S) + 1
            BY <4>2, <5>1, FS_AddElement
          <5>3. redis'.n[b] = redis.n[b] + 1
            BY <1>s, <2>2, <2>6, <4>4
          <5> QED BY <1>0, <4>2, <4>3, <5>1, <5>2, <5>3
        <4>5. CASE b # p.back
          <5>1. Allowed(b)' = S
            BY <2>0, <2>4, <4>1, <4>5 DEF Allowed
          <5> QED BY <1>0, <2>3, <4>2, <4>3, <5>1
        <4> QED BY <4>4, <4>5
      <3> QED BY <1>1, <2>2, <3>1 DEF Counted
    <2> QED BY <2>5, <2>6
  <1>8. ASSUME NEW r \in Requests, Answer(r)
        PROVE  Counted'
    <2>0. req[r] \in Request
      BY <1>0
    <2>1. redis' = redis /\ memory' = memory /\ req' = [req EXCEPT ![r] = Idle] /\ Idle.pc = "idle"
      BY <1>8, Constants DEF Answer, stores
    <2>2. CASE req[r].pc # "allowed"
      <3>1. passed' = passed
        BY <1>8, <2>2 DEF Answer, Refused
      <3>2. \A o \in Requests : req'[o].pc = "allowed" => req'[o] = req[o]
        BY <1>0, <2>1
      <3>3. \A b \in 0..1 : redis'.n[b] \in Nat /\ redis'.n[b] >= redis.n[b]
        BY <1>0, <2>1
      <3>4. \A b \in 0..1 : passed'["redis"][b] + Cardinality(Allowed(b)') <= redis'.n[b]
        BY <1>2, <3>1, <3>2, <3>3
      <3> QED BY <1>1, <2>1, <3>1, <3>4 DEF Counted
    <2>3. CASE req[r].pc = "allowed"
      <3>1. PICK c \in 0..1 : c = req[r].position.back
        BY <2>0 DEF Request, Position
      <3>2. passed' = [passed EXCEPT !["redis"][c] = @ + 1]
        BY <1>8, <2>3, <3>1 DEF Answer, LetThrough
      <3>3. /\ \A i \in Instances : passed'[i] = passed[i]
            /\ \A b \in 0..1 : passed'["redis"][b] = IF b = c THEN passed["redis"][b] + 1 ELSE passed["redis"][b]
        <4>1. PICK f : f = [passed["redis"] EXCEPT ![c] = @ + 1]
          OBVIOUS
        <4>2. passed' = [passed EXCEPT !["redis"] = f]
          BY <1>0, <3>2, <4>1
        <4>3. passed["redis"] \in [0..1 -> Nat]
          BY <1>0
        <4>4. \A b \in 0..1 : f[b] = IF b = c THEN passed["redis"][b] + 1 ELSE passed["redis"][b]
          BY <4>1, <4>3
        <4>5. passed'["redis"] = f /\ \A i \in Instances : passed'[i] = passed[i]
          BY <1>0, <4>2
        <4> QED BY <4>4, <4>5
      <3>4. ASSUME NEW b \in 0..1
            PROVE  passed'["redis"][b] + Cardinality(Allowed(b)') <= redis'.n[b]
        <4>1. PICK S \in SUBSET Requests : S = Allowed(b)
          BY <1>b
        <4>2. IsFiniteSet(S) /\ Cardinality(S) \in Nat
          BY AllowedIsFinite
        <4>3. passed["redis"][b] + Cardinality(S) <= redis.n[b] /\ redis'.n[b] = redis.n[b]
          BY <1>1, <2>1, <4>1
        <4>4. CASE b = c
          <5>1. Allowed(b)' = S \ {r} /\ r \in S
            BY <1>0, <2>1, <2>3, <3>1, <4>1, <4>4 DEF Allowed
          <5>2. Cardinality(S \ {r}) = Cardinality(S) - 1
            BY <4>2, <5>1, FS_RemoveElement
          <5>3. passed'["redis"][b] = passed["redis"][b] + 1
            BY <3>3, <4>4
          <5> QED BY <1>0, <4>2, <4>3, <5>1, <5>2, <5>3
        <4>5. CASE b # c
          <5>1. Allowed(b)' = S
            BY <1>0, <2>1, <2>3, <3>1, <4>1, <4>5 DEF Allowed
          <5>2. passed'["redis"][b] = passed["redis"][b]
            BY <3>3, <4>5
          <5> QED BY <1>0, <4>2, <4>3, <5>1, <5>2
        <4> QED BY <4>4, <4>5
      <3> QED BY <1>1, <2>1, <3>3, <3>4 DEF Counted
    <2> QED BY <2>2, <2>3
  <1>9. ASSUME NEW i \in Instances, Sweep(i) \/ Restart(i)
        PROVE  Counted'
    <2>1. redis' = redis /\ passed' = [passed EXCEPT ![i] = [b \in 0..1 |-> 0]]
      BY <1>9 DEF Sweep, Restart
    <2>2. /\ memory'[i].n[0] = 0 /\ memory'[i].n[1] = 0
          /\ \A j \in Instances \ {i} : memory'[j] = memory[j]
      BY <1>9, Emptied
    <2>3. ASSUME NEW j \in Instances, NEW b \in 0..1 PROVE passed'[j][b] = memory'[j].n[b]
      <3>1. b = 0 \/ b = 1
        OBVIOUS
      <3>2. CASE j = i
        BY <1>0, <2>1, <2>2, <3>1, <3>2
      <3>3. CASE j # i
        BY <1>0, <1>1, <2>1, <2>2, <3>3
      <3> QED BY <3>2, <3>3
    <2>4. passed'["redis"] = passed["redis"]
      BY <1>0, <2>1
    <2>5. \A r \in Requests : req'[r].pc = "allowed" => req'[r] = req[r]
      <3>1. CASE req' = req
        BY <3>1
      <3>2. CASE req' = [r \in Requests |-> IF req[r].inst = i THEN Idle ELSE req[r]]
        BY <3>2, Constants
      <3> QED BY <1>9, <3>1, <3>2 DEF Sweep, Restart
    <2>6. \A b \in 0..1 : redis'.n[b] \in Nat /\ redis'.n[b] >= redis.n[b]
      BY <1>0, <2>1
    <2>7. \A b \in 0..1 : passed'["redis"][b] + Cardinality(Allowed(b)') <= redis'.n[b]
      BY <1>2, <2>4, <2>5, <2>6
    <2> QED BY <2>3, <2>7 DEF Counted
  <1>10. CASE Tick
    <2>0. phase \in 0..Window - 1 /\ Window \in Nat \ {0} /\ Latency <= Window /\ Latency \in Nat
      BY Constants DEF Typed, TypeOK
    <2>1. /\ \A r \in Requests : Waits(r) => req[r].age < Latency
          /\ req' = [r \in Requests |->
                       IF ~Waits(r) THEN req[r]
                       ELSE [req[r] EXCEPT !.age = @ + 1,
                                 !.position = IF phase = Window - 1 THEN Aged(@) ELSE @]]
          /\ passed' = IF phase = Window - 1 THEN [s \in DOMAIN passed |-> Shift(passed[s], 0)] ELSE passed
      BY <1>10 DEF Tick, Waits
    <2>2. CASE phase # Window - 1
      <3>1. passed' = passed
        BY <2>1, <2>2
      <3>2. \A i \in Instances : memory'[i].n = memory[i].n
        BY <1>10, <2>2, TickMemory
      <3>3. redis'.n[0] = redis.n[0] /\ redis'.n[1] = redis.n[1]
        BY <1>10, <2>2, TickRedis
      <3>4. \A r \in Requests : req'[r].pc = req[r].pc /\ req'[r].position = req[r].position
        <4>1. SUFFICES ASSUME NEW r \in Requests
                       PROVE  req'[r].pc = req[r].pc /\ req'[r].position = req[r].position
          OBVIOUS
        <4>2. req[r] \in Request
          BY <1>0
        <4>3. req'[r] = req[r] \/ req'[r] = [req[r] EXCEPT !.age = req[r].age + 1]
          BY <2>1, <2>2, <4>2 DEF Request
        <4> QED BY <4>2, <4>3 DEF Request
      <3>5. \A b \in 0..1 : Allowed(b)' = Allowed(b) /\ redis'.n[b] = redis.n[b]
        <4>1. SUFFICES ASSUME NEW b \in 0..1 PROVE Allowed(b)' = Allowed(b) /\ redis'.n[b] = redis.n[b]
          OBVIOUS
        <4>2. b = 0 \/ b = 1
          OBVIOUS
        <4> QED BY <3>3, <3>4, <4>2 DEF Allowed
      <3> QED BY <1>1, <3>1, <3>2, <3>5 DEF Counted
    <2>3. CASE phase = Window - 1
      <3>1. \A s \in Instances \cup {"redis"} : passed'[s][0] = 0 /\ passed'[s][1] = passed[s][0]
        <4>1. SUFFICES ASSUME NEW s \in Instances \cup {"redis"}
                       PROVE  passed'[s][0] = 0 /\ passed'[s][1] = passed[s][0]
          OBVIOUS
        <4>2. passed[s] \in [0..1 -> Nat] /\ DOMAIN passed[s] = 0..1
          BY <1>0
        <4>3. passed'[s] = Shift(passed[s], 0)
          BY <1>0, <2>1, <2>3
        <4>4. Shift(passed[s], 0) = [b \in 0..1 |-> IF b = 0 THEN 0 ELSE passed[s][b - 1]]
          BY <4>2 DEF Shift
        <4> QED BY <4>3, <4>4
      <3>2. \A i \in Instances : memory'[i].n[0] = 0 /\ memory'[i].n[1] = memory[i].n[0]
        BY <1>10, <2>3, TickMemory
      <3>3. redis'.n[0] = 0 /\ redis'.n[1] = redis.n[0]
        BY <1>10, <2>3, TickRedis
      <3>4. ASSUME NEW r \in Requests, req'[r].pc = "allowed"
            PROVE  /\ req[r].pc = "allowed" /\ req[r].position.back = 0
                   /\ req'[r].position.back = 1
        <4>1. req[r] \in Request
          BY <1>0
        <4>2. Waits(r)
          <5>1. CASE ~Waits(r)
            BY <2>1, <3>4, <5>1 DEF Waits
          <5> QED BY <5>1
        <4>3. req[r].position \in Position /\ req[r].age \in Nat /\ req[r].position.elapsed \in 0..Window - 1
              /\ req[r].position.back \in 0..1
          BY <4>1, <2>0 DEF Request, Position
        <4>4. req[r].position.back = 0
          <5>1. req[r].position.back # 0 => Window + phase = req[r].position.elapsed + req[r].age
            BY <4>2 DEF Placed
          <5>2. req[r].age < Latency
            BY <2>1, <4>2
          <5> QED BY <2>0, <2>3, <4>3, <5>1, <5>2
        <4>5. req'[r] = [req[r] EXCEPT !.age = req[r].age + 1, !.position = Aged(req[r].position)]
          BY <2>1, <2>3, <4>1, <4>2 DEF Request
        <4>6. Aged(req[r].position).back = 1
          BY <4>3, <4>4 DEF Aged, Position
        <4>7. req'[r].position = Aged(req[r].position) /\ req'[r].pc = req[r].pc
          BY <4>1, <4>5 DEF Request
        <4> QED BY <3>4, <4>4, <4>6, <4>7
      <3>5. Allowed(0)' = {} /\ Allowed(1)' \subseteq Allowed(0)
        BY <3>4 DEF Allowed
      <3>6. passed'["redis"][0] + Cardinality(Allowed(0)') <= redis'.n[0]
        <4>1. Cardinality({}) = 0
          BY FS_EmptySet
        <4>2. passed'["redis"][0] = 0 /\ Cardinality(Allowed(0)') = Cardinality({})
          BY <3>1, <3>5
        <4> QED BY <3>3, <1>0, <4>1, <4>2
      <3>7. passed'["redis"][1] + Cardinality(Allowed(1)') <= redis'.n[1]
        <4>0. 0 \in 0..1
          OBVIOUS
        <4>1. PICK S \in SUBSET Requests : S = Allowed(0)
          BY <1>b, <4>0
        <4>2. PICK T \in SUBSET S : T = Allowed(1)'
          BY <3>5, <4>1
        <4>3. PICK m \in Nat, n \in Nat : m = passed["redis"][0] /\ n = redis.n[0]
          BY <1>0, <4>0
        <4>4. m + Cardinality(S) <= n /\ n <= n
          BY <1>1, <4>0, <4>1, <4>3
        <4>5. m + Cardinality(T) <= n
          BY <4>4, FewerAllowed
        <4> QED BY <3>1, <3>3, <4>2, <4>3, <4>5
      <3>8. \A b \in 0..1 : b = 0 \/ b = 1
        OBVIOUS
      <3>9. \A i \in Instances, b \in 0..1 : passed'[i][b] = memory'[i].n[b]
        <4>1. SUFFICES ASSUME NEW i \in Instances, NEW b \in 0..1 PROVE passed'[i][b] = memory'[i].n[b]
          OBVIOUS
        <4>2. passed[i][0] = memory[i].n[0]
          BY <1>1
        <4> QED BY <3>1, <3>2, <3>8, <4>2
      <3>10. \A b \in 0..1 : passed'["redis"][b] + Cardinality(Allowed(b)') <= redis'.n[b]
        <4>1. SUFFICES ASSUME NEW b \in 0..1 PROVE passed'["redis"][b] + Cardinality(Allowed(b)') <= redis'.n[b]
          OBVIOUS
        <4>2. CASE b = 0
          BY <3>6, <4>2
        <4>3. CASE b = 1
          BY <3>7, <4>3
        <4> QED BY <3>8, <4>2, <4>3
      <3> QED BY <3>9, <3>10 DEF Counted
    <2> QED BY <2>2, <2>3
  <1> QED BY <1>4, <1>5, <1>6, <1>7, <1>8, <1>9, <1>10, InstancesAssumption DEF Next

--------------------------------------------------------------------------------
(* The misses of a process. *)

SpentAt(i) == \E r \in Requests : req[r].pc = "spent" /\ req[r].inst = i

LEMMA ScannedAt ==
    ASSUME Typed, Scanned, limiter.miss, NEW i \in Instances
    PROVE  /\ memory[i].block > 0 => Blocked(i) \/ misses[i] = 0
           /\ misses[i] <= memory[i].n[0] \/ Blocked(i)
           /\ misses[i] >= Limit => Blocked(i) \/ SpentAt(i)
           /\ misses[i] \in 0..Limit /\ memory[i].n[0] \in 0..Limit /\ memory[i].n[1] \in 0..Limit
           /\ memory[i].block \in Nat
           /\ Blocked(i) => memory[i].block > 0
  <1>1. memory[i].n \in [0..1 -> 0..Limit] /\ memory[i].block \in Nat /\ misses[i] \in 0..Limit
        /\ phase \in 0..Window - 1
    BY DEF Typed, TypeOK, Store
  <1>2. Blocked(i) => memory[i].block > 0
    BY <1>1, Constants DEF Blocked
  <1> QED BY <1>1, <1>2 DEF Scanned, SpentAt

LEMMA ScannedAgain ==
    ASSUME limiter' = limiter,
           limiter.miss => \A i \in Instances :
                              /\ memory'[i].block > 0 => Blocked(i)' \/ misses'[i] = 0
                              /\ misses'[i] <= memory'[i].n[0] \/ Blocked(i)'
                              /\ misses'[i] >= Limit => Blocked(i)' \/ SpentAt(i)'
    PROVE  Scanned'
  BY DEF Scanned, SpentAt

(* A hit that is not counted as a miss keeps all of it, but for who has spent the budget. *)
LEMMA ScannedHit ==
    ASSUME Typed, Scanned, limiter.miss, NEW j \in Instances, HitMemory(j), phase' = phase,
           NEW i \in Instances, misses' = misses
    PROVE  /\ memory'[i].block > 0 => Blocked(i)' \/ misses'[i] = 0
           /\ misses'[i] <= memory'[i].n[0] \/ Blocked(i)'
           /\ misses'[i] >= Limit => Blocked(i)' \/ (SpentAt(i) /\ i # j)
  <1>0. /\ memory[i].block > 0 => Blocked(i) \/ misses[i] = 0
        /\ misses[i] <= memory[i].n[0] \/ Blocked(i)
        /\ misses[i] >= Limit => Blocked(i) \/ SpentAt(i)
        /\ misses[i] \in 0..Limit /\ memory[i].n[0] \in 0..Limit /\ memory[i].n[1] \in 0..Limit
        /\ memory[i].block \in Nat
        /\ Blocked(i) => memory[i].block > 0
    BY ScannedAt
  <1>1. limiter.block >= 2 * Window /\ limiter.block \in Nat /\ phase \in 0..Window - 1
        /\ Window \in Nat /\ Limit \in Nat \ {0}
    BY LimiterFacts, Constants DEF Typed, TypeOK
  <1>2. CASE i # j
    <2>1. memory'[i] = memory[i]
      BY <1>2, MemoryHit
    <2>2. Blocked(i)' = Blocked(i)
      BY <2>1 DEF Blocked
    <2> QED BY <1>0, <1>2, <2>1, <2>2
  <1>3. CASE i = j /\ Passes(memory[i], Here)
    <2>1. /\ memory[i].n[0] < Limit /\ memory'[i].n[0] = memory[i].n[0] + 1
          /\ memory[i].block = 0 /\ memory'[i].block = 0
      BY <1>3, MemoryHit
    <2> QED BY <1>0, <1>1, <2>1
  <1>4. CASE i = j /\ ~Passes(memory[i], Here)
    <2>1. /\ memory'[i].n = memory[i].n
          /\ memory'[i].block = IF memory[i].block = 0 THEN limiter.block ELSE memory[i].block
      BY <1>4, MemoryHit
    <2>2. CASE memory[i].block = 0
      <3>1. Blocked(i)'
        BY <1>1, <2>1, <2>2 DEF Blocked
      <3> QED BY <3>1
    <2>3. CASE memory[i].block # 0
      <3>1. Blocked(i)' = Blocked(i)
        BY <2>1, <2>3 DEF Blocked
      <3> QED BY <1>0, <1>1, <2>1, <2>3, <3>1
    <2> QED BY <2>2, <2>3
  <1> QED BY <1>2, <1>3, <1>4

LEMMA ScannedStep ==
    ASSUME Typed, Scanned, Next
    PROVE  Scanned'
  <1>a. limiter' = limiter
    BY DEF Next, HitLocally, Send, Guard, Run, Answer, TimeOut, Found, Miss, PlaceBlock, RunLate, Sweep,
           Restart, Tick
  <1> DEFINE Ok(i) == /\ memory[i].block > 0 => Blocked(i) \/ misses[i] = 0
                      /\ misses[i] <= memory[i].n[0] \/ Blocked(i)
                      /\ misses[i] >= Limit => Blocked(i) \/ SpentAt(i)
  <1> SUFFICES ASSUME limiter.miss PROVE \A i \in Instances : Ok(i)'
    BY <1>a, ScannedAgain
  <1>b. \A i \in Instances :
          /\ Ok(i)
          /\ misses[i] \in 0..Limit /\ memory[i].n[0] \in 0..Limit /\ memory[i].n[1] \in 0..Limit
          /\ memory[i].block \in Nat
          /\ Blocked(i) => memory[i].block > 0
    BY ScannedAt
  <1>c. /\ limiter.block >= 2 * Window /\ limiter.block \in Nat /\ phase \in 0..Window - 1
        /\ Window \in Nat \ {0} /\ Limit \in Nat \ {0}
        /\ req \in [Requests -> Request] /\ misses \in [Instances -> 0..Limit]
    BY LimiterFacts, Constants DEF Typed, TypeOK
  <1>d. ASSUME NEW r \in Requests, NEW q, req' = [req EXCEPT ![r] = q], NEW i \in Instances,
               SpentAt(i), req[r].pc # "spent" \/ req[r].inst # i
        PROVE  SpentAt(i)'
    BY <1>c, <1>d DEF SpentAt
  <1>e. ASSUME memory' = memory, misses' = misses, phase' = phase, NEW i \in Instances, SpentAt(i) => SpentAt(i)'
        PROVE  Ok(i)'
    <2>1. Blocked(i)' = Blocked(i)
      BY <1>e DEF Blocked
    <2>2. Ok(i)
      BY <1>b
    <2> HIDE DEF Blocked, SpentAt
    <2> QED BY <1>e, <2>1, <2>2
  <1>1. ASSUME NEW r \in Requests, NEW k \in Instances, NEW i \in Instances,
               Send(r, k) \/ Guard(r, k) \/ Run(r) \/ Answer(r) \/ Found(r)
        PROVE  Ok(i)'
    <2>1. memory' = memory /\ misses' = misses /\ phase' = phase /\ req[r].pc # "spent"
      BY <1>1 DEF Send, Guard, Run, Answer, Found, Script, stores
    <2>2. \E q : req' = [req EXCEPT ![r] = q]
      <3>1. CASE Run(r)
        <4>1. PICK c : req' = [req EXCEPT ![r].pc = c]
          BY <3>1 DEF Run
        <4>2. req' = [req EXCEPT ![r] = [req[r] EXCEPT !.pc = c]]
          BY <1>c, <4>1
        <4> QED BY <4>2
      <3> QED BY <1>1, <3>1 DEF Send, Guard, Answer, Found
    <2> QED BY <1>d, <1>e, <2>1, <2>2
  <1>2. ASSUME NEW p \in straggling, RunLate(p), NEW i \in Instances
        PROVE  Ok(i)'
    <2>1. memory' = memory /\ misses' = misses /\ phase' = phase /\ req' = req
      BY <1>2 DEF RunLate, Script
    <2>2. SpentAt(i) => SpentAt(i)'
      BY <2>1 DEF SpentAt
    <2> QED BY <1>e, <2>1, <2>2
  <1>3. ASSUME NEW r \in Requests, NEW k \in Instances, HitLocally(r, k)
        PROVE  FALSE
    BY <1>3 DEF HitLocally
  <1>4. ASSUME NEW r \in Requests, TimeOut(r) \/ PlaceBlock(r), NEW i \in Instances
        PROVE  Ok(i)'
    <2>1. req[r].inst \in Instances
      BY <1>c DEF Request
    <2>2. /\ HitMemory(req[r].inst) /\ phase' = phase /\ misses' = misses
          /\ req' = [req EXCEPT ![r] = Idle]
      BY <1>4 DEF TimeOut, PlaceBlock
    <2>3. /\ memory'[i].block > 0 => Blocked(i)' \/ misses'[i] = 0
          /\ misses'[i] <= memory'[i].n[0] \/ Blocked(i)'
          /\ misses'[i] >= Limit => Blocked(i)' \/ (SpentAt(i) /\ i # req[r].inst)
      BY <2>1, <2>2, ScannedHit
    <2>4. SpentAt(i) /\ i # req[r].inst => SpentAt(i)'
      BY <1>d, <2>2
    <2> QED BY <2>3, <2>4
  <1>5. ASSUME NEW r \in Requests, Miss(r), NEW i \in Instances
        PROVE  Ok(i)'
    <2>1. PICK j \in Instances : j = req[r].inst
      BY <1>c DEF Request
    <2>2. PICK q : q = IF Spent(j) THEN [req[r] EXCEPT !.pc = "spent"] ELSE Idle
      OBVIOUS
    <2>3. /\ HitMemory(j) /\ phase' = phase /\ req[r].pc = "resolving"
          /\ req' = [req EXCEPT ![r] = q]
          /\ misses' = [misses EXCEPT ![j] = IF @ < Limit /\ memory[j].block = 0 THEN @ + 1 ELSE @]
      BY <1>5, <1>c, <2>1, <2>2 DEF Miss
    <2>4. SpentAt(i) => SpentAt(i)'
      BY <1>d, <2>3
    <2>5. CASE i # j
      <3>1. memory'[i] = memory[i] /\ misses'[i] = misses[i]
        BY <1>c, <2>3, <2>5, MemoryHit
      <3>2. Blocked(i)' = Blocked(i)
        BY <2>3, <3>1 DEF Blocked
      <3> QED BY <1>b, <2>4, <3>1, <3>2
    <2>6. CASE i = j /\ Passes(memory[i], Here)
      <3>1. /\ memory[i].n[0] < Limit /\ memory'[i].n[0] = memory[i].n[0] + 1
            /\ memory'[i].n[1] = memory[i].n[1]
            /\ memory[i].block = 0 /\ memory'[i].block = 0
        BY <2>3, <2>6, MemoryHit
      <3>2. ~Blocked(i) /\ misses[i] <= memory[i].n[0] /\ misses[i] \in 0..Limit
            /\ memory[i].n[0] \in 0..Limit /\ memory[i].n[1] \in 0..Limit
        BY <1>b, <1>c, <3>1
      <3>3. misses'[i] = misses[i] + 1
        BY <1>c, <2>3, <2>6, <3>1, <3>2
      <3>4. ASSUME misses'[i] >= Limit PROVE SpentAt(i)'
        <4>1. memory'[i].n[0] >= Limit /\ memory'[i].n[0] \in Nat /\ memory'[i].n[1] \in Nat
          BY <1>c, <3>1, <3>2, <3>3, <3>4
        <4>2. memory'[i].n[1] * (Window - phase) + memory'[i].n[0] * Window >= Limit * Window
          <5>1. PICK a \in Nat, b \in Nat : a = memory'[i].n[1] /\ b = memory'[i].n[0] /\ b >= Limit
            BY <4>1
          <5>2. a * (Window - phase) + b * Window >= Limit * Window
            BY <1>c, <5>1, FullIsOver
          <5> QED BY <5>1, <5>2
        <4>3. memory'[i] = After(memory[i], Here)
          <5>1. memory' = [memory EXCEPT ![i] = After(memory[i], Here)]
            BY <2>3, <2>6 DEF HitMemory
          <5>2. memory \in [Instances -> Store(0..1)]
            BY DEF Typed, TypeOK
          <5> QED BY <5>1, <5>2
        <4>4. Here.back = 0 /\ Here.elapsed = phase
          BY DEF Here
        <4>5. OverAt(After(memory[i], Here), Here)
          <5>1. PICK a : a = After(memory[i], Here)
            OBVIOUS
          <5>2. a.n[1] * (Window - phase) + a.n[0] * Window >= Limit * Window
            BY <4>2, <4>3, <5>1
          <5>3. OverAt(a, Here)
            <6>1. 0 + 1 = 1
              OBVIOUS
            <6> QED BY <4>4, <5>2, <6>1 DEF OverAt, Over
          <5> QED BY <5>1, <5>3
        <4>6. Spent(j)
          BY <2>6, <4>5 DEF Spent
        <4>7. req[r] \in Request
          BY <1>c
        <4>8. q.pc = "spent" /\ q.inst = i
          BY <2>1, <2>2, <2>6, <4>6, <4>7 DEF Request
        <4>9. req'[r] = q
          BY <1>c, <2>3
        <4> QED BY <4>8, <4>9 DEF SpentAt
      <3>5. misses'[i] <= memory'[i].n[0] /\ ~(memory'[i].block > 0)
        BY <1>c, <3>1, <3>2, <3>3
      <3> QED BY <3>4, <3>5
    <2>7. CASE i = j /\ ~Passes(memory[i], Here) /\ memory[i].block = 0
      <3>1. memory'[i].block = limiter.block
        BY <2>3, <2>7, MemoryHit
      <3>2. Blocked(i)'
        BY <1>c, <2>3, <3>1 DEF Blocked
      <3> QED BY <3>2
    <2>8. CASE i = j /\ ~Passes(memory[i], Here) /\ memory[i].block # 0
      <3>1. memory'[i].n = memory[i].n /\ memory'[i].block = memory[i].block
        BY <2>3, <2>8, MemoryHit
      <3>2. misses'[i] = misses[i]
        BY <1>c, <2>3, <2>8
      <3>3. Blocked(i)' = Blocked(i)
        BY <2>3, <3>1 DEF Blocked
      <3> QED BY <1>b, <2>4, <3>1, <3>2, <3>3
    <2> QED BY <2>5, <2>6, <2>7, <2>8
  <1>6. ASSUME NEW k \in Instances, Sweep(k) \/ Restart(k), NEW i \in Instances
        PROVE  Ok(i)'
    <2>1. phase' = phase /\ misses' = [misses EXCEPT ![k] = 0]
      BY <1>6 DEF Sweep, Restart
    <2>2. /\ memory'[k].n[0] = 0
          /\ \A j \in Instances \ {k} : memory'[j] = memory[j]
      BY <1>6, Emptied
    <2>3. CASE i = k
      <3>1. misses'[i] = 0
        BY <1>c, <2>1, <2>3
      <3> QED BY <1>c, <2>2, <2>3, <3>1
    <2>4. CASE i # k
      <3>1. memory'[i] = memory[i] /\ misses'[i] = misses[i]
        BY <1>c, <2>1, <2>2, <2>4
      <3>2. Blocked(i)' = Blocked(i)
        BY <2>1, <3>1 DEF Blocked
      <3>3. \A r \in Requests : req[r].inst = i => req'[r] = req[r]
        <4>1. CASE Sweep(k)
          BY <4>1 DEF Sweep
        <4>2. CASE Restart(k)
          <5>1. req' = [r \in Requests |-> IF req[r].inst = k THEN Idle ELSE req[r]]
            BY <4>2 DEF Restart
          <5> QED BY <2>4, <5>1
        <4> QED BY <1>6, <4>1, <4>2
      <3>4. SpentAt(i) => SpentAt(i)'
        BY <3>3 DEF SpentAt
      <3> QED BY <1>b, <3>1, <3>2, <3>4
    <2> QED BY <2>3, <2>4
  <1>7. ASSUME Tick, NEW i \in Instances
        PROVE  Ok(i)'
    <2>1. /\ \A r \in Requests : req[r].pc # "spent"
          /\ phase' = (phase + 1) % Window
          /\ misses' = IF phase = Window - 1 THEN [k \in Instances |-> 0] ELSE misses
      BY <1>7 DEF Tick
    <2>2. ~SpentAt(i)
      BY <2>1 DEF SpentAt
    <2>3. CASE phase = Window - 1
      <3>1. misses'[i] = 0 /\ memory'[i].n[0] = 0
        BY <1>7, <2>1, <2>3, TickMemory
      <3> QED BY <1>c, <3>1
    <2>4. CASE phase # Window - 1
      <3>1. misses'[i] = misses[i] /\ memory'[i].n = memory[i].n /\ memory'[i].block = Less(memory[i].block)
        BY <1>7, <2>1, <2>4, TickMemory
      <3>2. phase' = phase + 1
        BY <1>c, <2>1, <2>4, Remainder
      <3>3. memory[i].block > 0 => (memory'[i].block = memory[i].block - 1)
        BY <1>b, <3>1, LessIs
      <3>4. Blocked(i) => Blocked(i)'
        <4>1. PICK x \in Nat : x = memory[i].block
          BY <1>b
        <4>2. Blocked(i) => (x > 0 /\ x + phase >= 2 * Window)
          BY <1>b, <4>1 DEF Blocked
        <4>3. x > 0 => (memory'[i].block = x - 1)
          BY <3>3, <4>1
        <4> QED BY <1>c, <3>2, <4>2, <4>3 DEF Blocked
      <3>5. memory'[i].block > 0 => memory[i].block > 0
        <4>1. Less(memory[i].block) <= memory[i].block /\ Less(memory[i].block) \in Nat /\ memory[i].block \in Nat
          BY <1>b, LessIs
        <4> QED BY <3>1, <4>1
      <3> QED BY <1>b, <2>2, <3>1, <3>4, <3>5
    <2> QED BY <2>3, <2>4
  <1> QED BY <1>1, <1>2, <1>3, <1>4, <1>5, <1>6, <1>7, InstancesAssumption DEF Next

--------------------------------------------------------------------------------
(* Every state. *)

LEMMA InitIInv == Init => IInv
  <1> SUFFICES ASSUME Init PROVE IInv
    OBVIOUS
  <1>0. Window \in Nat \ {0} /\ Limit \in Nat \ {0} /\ Latency \in Nat /\ Idle \in Request /\ Idle.pc = "idle"
    BY Constants
  <1>1. /\ limiter \in Limiters /\ phase \in 0..Window - 1 /\ redis = Empty(Back)
        /\ ttl = [b \in Back |-> 0] /\ memory = [i \in Instances |-> Empty(0..1)]
        /\ req = [r \in Requests |-> Idle] /\ straggling = {}
        /\ passed = [s \in Instances \cup {"redis"} |-> [b \in 0..1 |-> 0]]
        /\ late = FALSE /\ quiet = 0 /\ misses = [i \in Instances |-> 0]
    BY DEF Init
  <1>2. /\ 0 \in 0..Limit /\ 0 \in 0..2 * Window /\ 0 \in Back /\ 1 \in Back
    BY <1>0 DEF Back
  <1>3. Empty(0..1) \in Store(0..1) /\ redis \in Store(Back) /\ redis.n[0] = 0 /\ redis.n[1] = 0
    <2>1. [b \in 0..1 |-> 0] \in [0..1 -> 0..Limit] /\ [b \in Back |-> 0] \in [Back -> 0..Limit]
      BY <1>2
    <2> QED BY <1>1, <1>2, <2>1 DEF Empty, Store
  <1>4. Lockout \in Nat
    BY <1>1, LimiterFacts
  <1>5. req \in [Requests -> Request]
    BY <1>0, <1>1
  <1>6. /\ memory \in [Instances -> Store(0..1)] /\ ttl \in [Back -> 0..2 * Window]
        /\ misses \in [Instances -> 0..Limit]
        /\ passed \in [Instances \cup {"redis"} -> [0..1 -> Nat]]
    BY <1>1, <1>2, <1>3
  <1>7. \A r \in Requests : /\ req[r].pc \in {"idle", "sent", "allowed", "denied", "resolving", "spent"}
                            /\ req[r].inst \in Instances /\ req[r].age \in 0..Latency
                            /\ req[r].position \in Position
    BY <1>5 DEF Request
  <1>8. Typed
    <2>1. quiet \in 0..Lockout + 1 /\ straggling \subseteq Position /\ late \in BOOLEAN
      <3>1. quiet = 0 /\ straggling = {} /\ late = FALSE
        BY <1>1
      <3>2. PICK m \in Nat : m = Lockout
        BY <1>4
      <3>3. quiet \in 0..m + 1
        BY <3>1
      <3> QED BY <3>1, <3>2, <3>3
    <2>2. redis \in Store(Back) /\ limiter \in Limiters /\ phase \in 0..Window - 1
      BY <1>1, <1>3
    <2> HIDE DEF Lockout
    <2>3. TypeOK
      BY <1>6, <1>7, <2>1, <2>2 DEF TypeOK
    <2> QED BY <1>5, <1>6, <2>3 DEF Typed
  <1>9. Placed
    BY <1>0, <1>1 DEF Placed, Waits
  <1>10. Kept
    BY <1>3 DEF Kept
  <1>11. Counted
    <2>1. \A i \in Instances, b \in 0..1 : passed[i][b] = memory[i].n[b]
      BY <1>1, EmptyIs
    <2>2. \A b \in 0..1 : passed["redis"][b] + Cardinality(Allowed(b)) <= redis.n[b]
      <3>1. SUFFICES ASSUME NEW b \in 0..1 PROVE passed["redis"][b] + Cardinality(Allowed(b)) <= redis.n[b]
        OBVIOUS
      <3>2. Allowed(b) = {}
        BY <1>0, <1>1 DEF Allowed
      <3>3. Cardinality({}) = 0
        BY FS_EmptySet
      <3>4. passed["redis"][b] = 0 /\ redis.n[b] = 0
        BY <1>1 DEF Empty, Back
      <3> QED BY <3>2, <3>3, <3>4
    <2> QED BY <2>1, <2>2 DEF Counted
  <1>12. Weighed
    <2>1. 0 * (Window - phase) + (0 - 1) * Window < Limit * Window
      BY <1>0, <1>1, LightAlone
    <2>2. \A i \in Instances : memory[i].n[0] = 0 /\ memory[i].n[1] = 0
      BY <1>1, EmptyIs
    <2> QED BY <1>3, <2>1, <2>2 DEF Weighed, Light
  <1>13. Scanned
    <2>1. \A i \in Instances : memory[i].n[0] = 0 /\ memory[i].block = 0 /\ misses[i] = 0
      BY <1>1, EmptyIs
    <2> QED BY <1>0, <2>1 DEF Scanned
  <1> QED BY <1>8, <1>9, <1>10, <1>11, <1>12, <1>13 DEF IInv

LEMMA NextIInv == IInv /\ [Next]_vars => IInv'
  <1> SUFFICES ASSUME IInv, [Next]_vars PROVE IInv'
    OBVIOUS
  <1>0. Typed /\ Placed /\ Kept /\ Counted /\ Weighed /\ Scanned
    BY DEF IInv
  <1>1. CASE Next
    BY <1>0, <1>1, TypedStep, PlacedStep, KeptStep, CountedStep, WeighedStep, ScannedStep DEF IInv
  <1>2. CASE UNCHANGED vars
    <2>1. /\ limiter' = limiter /\ phase' = phase /\ redis' = redis /\ ttl' = ttl /\ memory' = memory
          /\ req' = req /\ straggling' = straggling /\ passed' = passed /\ late' = late
          /\ quiet' = quiet /\ misses' = misses
      BY <1>2 DEF vars, stores
    <2>2. Typed'
      BY <1>0, <2>1 DEF Typed, TypeOK, Lockout
    <2>3. Placed' /\ Kept'
      BY <1>0, <2>1 DEF Placed, Waits, Kept
    <2>4. Counted'
      BY <1>0, <2>1 DEF Counted, Allowed
    <2>5. Weighed'
      BY <1>0, <2>1 DEF Weighed, Light
    <2>6. Scanned'
      BY <1>0, <2>1 DEF Scanned, Blocked
    <2> QED BY <2>2, <2>3, <2>4, <2>5, <2>6 DEF IInv
  <1> QED BY <1>1, <1>2

LEMMA Always == Spec => []IInv
  BY InitIInv, NextIInv, PTL DEF Spec

(* Positions, counters, time-to-lives and the length of a lockout stay within *)
(* what the Lua script and the maps of the memory store can hold.             *)
THEOREM TypeCorrect == Spec => []TypeOK
  <1>1. IInv => TypeOK
    BY DEF IInv, Typed
  <1> QED BY <1>1, Always, PTL

(* "No double burst at the window boundary": for every window and limit, with *)
(* any number of processes and of requests under way, with answers lost and   *)
(* commands that run late or twice.                                           *)
THEOREM BoundaryBurst == Spec => []NoDoubleBurst
  <1>1. ASSUME IInv PROVE NoDoubleBurst
    <2>0. Typed /\ Counted /\ Weighed
      BY <1>1 DEF IInv
    <2>1. /\ passed \in [Instances \cup {"redis"} -> [0..1 -> Nat]] /\ phase \in 0..Window - 1
          /\ Window \in Nat \ {0} /\ Limit \in Nat /\ "redis" \notin Instances
      BY <2>0, Constants, InstancesAssumption DEF Typed, TypeOK
    <2>2. ASSUME NEW s \in Instances \cup {"redis"}
          PROVE  /\ \A b \in 0..1 : passed[s][b] <= Limit
                 /\ \/ s = "redis" /\ late
                    \/ passed[s][1] * (Window - phase) + (passed[s][0] - 1) * Window < Limit * Window
      <3>0. /\ passed[s][0] \in Nat /\ passed[s][1] \in Nat
            /\ \A b \in 0..1 : b = 0 \/ b = 1
        <4>1. passed[s] \in [0..1 -> Nat]
          BY <2>1
        <4> QED BY <4>1
      <3>1. PICK n1 \in 0..Limit, n0 \in 0..Limit :
                /\ passed[s][1] <= n1 /\ passed[s][0] <= n0
                /\ \/ s = "redis" /\ late
                   \/ n1 * (Window - phase) + (n0 - 1) * Window < Limit * Window
        <4>1. CASE s \in Instances
          <5>1. memory[s].n \in [0..1 -> 0..Limit]
            BY <2>0, <4>1 DEF Typed, TypeOK, Store
          <5>2. PICK n1 \in 0..Limit, n0 \in 0..Limit : n1 = memory[s].n[1] /\ n0 = memory[s].n[0]
            BY <5>1
          <5>3. passed[s][1] = n1 /\ passed[s][0] = n0
            BY <2>0, <4>1, <5>2 DEF Counted
          <5>4. n1 * (Window - phase) + (n0 - 1) * Window < Limit * Window
            BY <2>0, <4>1, <5>2 DEF Weighed, Light
          <5>5. n1 <= n1 /\ n0 <= n0
            BY <2>1
          <5> QED BY <5>3, <5>4, <5>5
        <4>2. CASE s = "redis"
          <5>1. redis.n \in [Back -> 0..Limit] /\ 0 \in Back /\ 1 \in Back
            BY <2>0 DEF Typed, TypeOK, Store, Back
          <5>2. PICK n1 \in 0..Limit, n0 \in 0..Limit : n1 = redis.n[1] /\ n0 = redis.n[0]
            BY <5>1
          <5>3. ASSUME NEW b \in 0..1
                PROVE  passed["redis"][b] <= redis.n[b]
            <6>1. passed["redis"][b] + Cardinality(Allowed(b)) <= redis.n[b]
              BY <2>0 DEF Counted
            <6>2. PICK S \in SUBSET Requests : S = Allowed(b)
              BY DEF Allowed
            <6>3. PICK c \in Nat : c = Cardinality(S)
              BY AllowedIsFinite
            <6>4. redis.n[b] \in Nat /\ passed["redis"][b] \in Nat
              <7>1. b \in Back /\ passed["redis"] \in [0..1 -> Nat]
                BY <2>1 DEF Back
              <7>2. redis.n[b] \in 0..Limit
                BY <5>1, <7>1
              <7> QED BY <2>1, <7>1, <7>2
            <6> QED BY <6>1, <6>2, <6>3, <6>4
          <5>4. passed[s][1] <= n1 /\ passed[s][0] <= n0
            BY <4>2, <5>2, <5>3
          <5>5. late \/ n1 * (Window - phase) + (n0 - 1) * Window < Limit * Window
            BY <2>0, <5>2 DEF Weighed, Light
          <5> QED BY <4>2, <5>4, <5>5
        <4> QED BY <4>1, <4>2
      <3>2. \A b \in 0..1 : passed[s][b] <= Limit
        <4>1. passed[s][0] <= Limit /\ passed[s][1] <= Limit
          BY <2>1, <3>0, <3>1
        <4> QED BY <3>0, <4>1
      <3>3. ASSUME ~(s = "redis" /\ late)
            PROVE  passed[s][1] * (Window - phase) + (passed[s][0] - 1) * Window < Limit * Window
        <4>1. PICK m1 \in Nat, m0 \in Nat : m1 = passed[s][1] /\ m0 = passed[s][0]
          BY <3>0
        <4>2. n1 \in Nat /\ n0 \in Nat /\ m1 <= n1 /\ m0 <= n0 /\ phase <= phase
          BY <2>1, <3>1, <4>1
        <4>3. n1 * (Window - phase) + (n0 - 1) * Window < Limit * Window
          BY <3>1, <3>3
        <4>4. m1 * (Window - phase) + (m0 - 1) * Window < Limit * Window
          BY <2>1, <4>2, <4>3, LightLater
        <4> QED BY <4>1, <4>4
      <3> QED BY <3>2, <3>3
    <2>3. DOMAIN passed = Instances \cup {"redis"}
      BY <2>1
    <2> QED BY <2>2, <2>3 DEF NoDoubleBurst
  <1> QED BY <1>1, Always, PTL

(* "60 not-found redirects a minute from one IP -> blocked": the miss that     *)
(* spends the budget places the block, for any number of requests that are     *)
(* being resolved meanwhile, and through sweeps, restarts and earlier blocks.  *)
THEOREM ScannersAreBlocked == Spec => []MissesBlock
  <1>1. ASSUME IInv PROVE MissesBlock
    <2>1. Typed /\ Scanned
      BY <1>1 DEF IInv
    <2>2. SUFFICES ASSUME NEW i \in Instances, misses[i] >= Limit, limiter.miss,
                          \A r \in Requests : req[r].pc # "spent"
                   PROVE  memory[i].block > 0
      BY DEF MissesBlock
    <2>3. misses[i] >= Limit => (Blocked(i) \/ SpentAt(i))
      BY <2>1, <2>2, ScannedAt
    <2>4. ~SpentAt(i)
      BY <2>2 DEF SpentAt
    <2>5. Blocked(i) => memory[i].block > 0
      BY <2>1, <2>2, ScannedAt
    <2> QED BY <2>2, <2>3, <2>4, <2>5
  <1> QED BY <1>1, Always, PTL

--------------------------------------------------------------------------------
(***************************************************************************)
(* Refusals end.  A process's memory refuses on account of requests that   *)
(* it let through itself, at most two windows ago, or of a block that      *)
(* began then (MemoryCalm): after a Pause it lets requests through.  Redis *)
(* may also refuse on account of requests that it counted and a process    *)
(* then refused, as their answers were lost: that ends with the Pause, for *)
(* the process would let them through (CommandsCalm).  From then on Redis  *)
(* counts only requests that learn that they are allowed, unless another   *)
(* lost answer ends the refusals (RedisCalm): one more Pause, and Redis    *)
(* too lets requests through.                                              *)
(***************************************************************************)
Pause == 2 * Window + limiter.block

(* How long ago the window began that lies b back. *)
Since(b) == phase + Window * b

SomeAllowed == \E r \in Requests : req[r].pc = "allowed"

MemoryCalm ==
    \A i \in Instances :
        /\ \A b \in 0..1 : memory[i].n[b] > 0 => quiet <= Since(b)
        /\ memory[i].block <= limiter.block
        /\ memory[i].block > 0 => quiet + memory[i].block < Pause

CommandsCalm ==
    \A p \in straggling : p.elapsed <= Since(p.back) /\ quiet + p.elapsed <= Pause + Since(p.back)

RedisCalm ==
    /\ redis.block <= limiter.block
    /\ \/ SomeAllowed
       \/ /\ \A b \in Back : redis.n[b] > 0 => quiet <= Pause + Since(b)
          /\ redis.block > 0 => quiet + redis.block <= 2 * Pause

Calm == MemoryCalm /\ CommandsCalm /\ RedisCalm

LEMMA CalmFacts ==
    ASSUME Typed
    PROVE  /\ Window \in Nat \ {0} /\ phase \in 0..Window - 1 /\ quiet \in Nat
           /\ limiter.block \in Nat /\ Pause \in Nat
           /\ Pause = 2 * Window + limiter.block /\ Lockout = 2 * Pause
           /\ Since(0) = phase /\ Since(1) = phase + Window /\ Since(2) = phase + 2 * Window
  <1>1. limiter \in Limiters /\ phase \in 0..Window - 1 /\ quiet \in 0..Lockout + 1
    BY DEF Typed, TypeOK
  <1>2. limiter.block \in Nat /\ Lockout \in Nat /\ Window \in Nat \ {0}
    BY <1>1, LimiterFacts, Constants
  <1>3. quiet \in Nat
    BY <1>1, <1>2
  <1>4. Pause \in Nat /\ Pause = 2 * Window + limiter.block /\ Lockout = 2 * Pause
    BY <1>2 DEF Pause, Lockout
  <1>5. Window * 0 = 0 /\ Window * 1 = Window /\ Window * 2 = 2 * Window
    BY <1>2
  <1>6. Since(0) = phase /\ Since(1) = phase + Window /\ Since(2) = phase + 2 * Window
    BY <1>1, <1>2, <1>5 DEF Since
  <1> QED BY <1>1, <1>2, <1>3, <1>4, <1>6

(* A store refuses on account of what it has counted in this window; of the *)
(* window before alone, only on the boundary.                               *)
LEMMA OverCounts ==
    ASSUME NEW n1 \in 0..Limit, NEW n0 \in 0..Limit, NEW e \in 0..Window - 1, Over(n1, n0, e)
    PROVE  n0 > 0 \/ (n1 > 0 /\ e = 0)
  <1>1. Window \in Nat \ {0} /\ Limit \in Nat \ {0} /\ n0 \in Nat /\ n1 \in Nat
    BY Constants
  <1>2. SUFFICES ASSUME n0 = 0 PROVE n1 > 0 /\ e = 0
    BY <1>1
  <1>3. n1 * (Window - e) >= Limit * Window
    <2>1. n1 * (Window - e) + 0 * Window >= Limit * Window
      BY <1>2 DEF Over
    <2>2. 0 * Window = 0 /\ Window - e \in Nat
      BY <1>1
    <2>3. n1 * (Window - e) \in Nat /\ Limit * Window \in Nat
      BY <1>1, <2>2
    <2> QED BY <2>1, <2>2, <2>3
  <1>4. Limit * Window \in Nat /\ Limit * Window > 0
    <2>1. 1 * Window <= Limit * Window /\ Limit * Window \in Nat
      BY <1>1, TimesGrows
    <2> QED BY <1>1, <2>1
  <1>5. n1 > 0
    <2>1. CASE n1 = 0
      <3>1. 0 * (Window - e) = 0
        BY <1>1
      <3> QED BY <1>3, <1>4, <2>1, <3>1
    <2> QED BY <1>1, <2>1
  <1>6. e = 0
    <2>1. CASE e > 0
      <3>1. PICK d \in Nat : d = Window - e
        BY <1>1
      <3>2. d <= Window - 1 /\ Window - 1 \in Nat
        BY <1>1, <2>1, <3>1
      <3>3. n1 * d <= Limit * d /\ Limit * d <= Limit * (Window - 1)
        BY <1>1, <3>1, <3>2, TimesGrows
      <3>4. Limit * (Window - 1) = Limit * Window - Limit
        BY <1>1
      <3>5. n1 * d \in Nat /\ Limit * d \in Nat /\ n1 * d >= Limit * Window
        BY <1>1, <1>3, <3>1
      <3> QED BY <1>1, <1>4, <3>3, <3>4, <3>5
    <2> QED BY <1>1, <2>1
  <1> QED BY <1>5, <1>6

(* A process that refuses has let something through lately. *)
LEMMA RefusesLately ==
    ASSUME Typed, MemoryCalm, NEW i \in Instances, ~Passes(memory[i], Here)
    PROVE  quiet < Pause /\ (memory[i].block = 0 => quiet < 2 * Window)
  <1>0. /\ Window \in Nat \ {0} /\ phase \in 0..Window - 1 /\ quiet \in Nat /\ limiter.block \in Nat
        /\ Pause = 2 * Window + limiter.block /\ Since(0) = phase /\ Since(1) = phase + Window
    BY CalmFacts
  <1>1. memory[i] \in Store(0..1) /\ Here \in Position /\ Here.back = 0 /\ Here.elapsed = phase
    BY HereIs DEF Typed, TypeOK
  <1>2. PICK n1 \in 0..Limit, n0 \in 0..Limit, k \in Nat :
            n1 = memory[i].n[1] /\ n0 = memory[i].n[0] /\ k = memory[i].block
    BY <1>1 DEF Store
  <1>3. /\ n0 > 0 => quiet <= phase
        /\ n1 > 0 => quiet <= phase + Window
        /\ k > 0 => quiet + k < Pause
    BY <1>0, <1>2 DEF MemoryCalm
  <1>4. CASE k > 0
    BY <1>0, <1>2, <1>3, <1>4
  <1>5. CASE k = 0
    <2>1. OverAt(memory[i], Here)
      BY <1>2, <1>5 DEF Passes
    <2>2. Over(n1, n0, phase)
      <3>1. Here.back + 1 = 1
        BY <1>1
      <3> QED BY <1>1, <1>2, <2>1, <3>1 DEF OverAt
    <2>3. n0 > 0 \/ (n1 > 0 /\ phase = 0)
      BY <1>0, <2>2, OverCounts
    <2> QED BY <1>0, <1>3, <2>3
  <1> QED BY <1>4, <1>5

(* A hit in memory is let through, or has been preceded by one. *)
LEMMA HitCalm ==
    ASSUME Typed, MemoryCalm, NEW i \in Instances, HitMemory(i), limiter' = limiter, phase' = phase
    PROVE  /\ MemoryCalm'
           /\ quiet' \in Nat /\ quiet' <= Pause
           /\ redis' = redis
  <1>0. /\ Window \in Nat \ {0} /\ phase \in 0..Window - 1 /\ quiet \in Nat
        /\ limiter.block \in Nat /\ Pause \in Nat
        /\ Pause = 2 * Window + limiter.block /\ Since(0) = phase /\ Since(1) = phase + Window
    BY CalmFacts
  <1>1. Pause' = Pause /\ \A b \in 0..1 : Since(b)' = Since(b)
    BY DEF Pause, Since
  <1>a. \A j \in Instances : memory[j].n \in [0..1 -> 0..Limit] /\ memory[j].block \in Nat
    BY DEF Typed, TypeOK, Store
  <1>b. \A b \in 0..1 : Since(b) \in Nat
    <2>1. \A b \in 0..1 : b = 0 \/ b = 1
      OBVIOUS
    <2> QED BY <1>0, <2>1
  <1>2. redis' = redis
    BY DEF HitMemory
  <1>3. CASE Passes(memory[i], Here)
    <2>1. quiet' = 0
      BY <1>3 DEF HitMemory, LetThrough
    <2>2. /\ \A j \in Instances \ {i} : memory'[j] = memory[j]
          /\ memory[i].block = 0 /\ memory'[i].block = 0
      BY <1>3, MemoryHit
    <2>3. ASSUME NEW j \in Instances
          PROVE  /\ \A b \in 0..1 : memory'[j].n[b] > 0 => quiet' <= Since(b)'
                 /\ memory'[j].block <= limiter'.block
                 /\ memory'[j].block > 0 => quiet' + memory'[j].block < Pause'
      <3>1. \A b \in 0..1 : memory'[j].n[b] > 0 => quiet' <= Since(b)'
        BY <1>b, <1>1, <2>1
      <3>2. PICK k \in Nat : k = memory'[j].block /\ k = memory[j].block
        BY <1>a, <2>2
      <3>3. k <= limiter.block
        BY <3>2 DEF MemoryCalm
      <3>4. 0 + k < Pause
        BY <1>0, <3>3
      <3> QED BY <1>1, <2>1, <3>1, <3>2, <3>3, <3>4
    <2> QED BY <1>0, <1>2, <2>1, <2>3 DEF MemoryCalm
  <1>4. CASE ~Passes(memory[i], Here)
    <2>1. quiet' = quiet
      BY <1>4 DEF HitMemory, Refused
    <2>2. quiet < Pause /\ (memory[i].block = 0 => quiet < 2 * Window)
      BY <1>4, RefusesLately
    <2>3. /\ \A j \in Instances \ {i} : memory'[j] = memory[j]
          /\ memory'[i].n = memory[i].n
          /\ memory'[i].block = IF memory[i].block = 0 THEN limiter.block ELSE memory[i].block
      BY <1>4, MemoryHit
    <2>4. ASSUME NEW j \in Instances
          PROVE  /\ \A b \in 0..1 : memory'[j].n[b] > 0 => quiet' <= Since(b)'
                 /\ memory'[j].block <= limiter'.block
                 /\ memory'[j].block > 0 => quiet' + memory'[j].block < Pause'
      <3>1. memory'[j].n = memory[j].n
        BY <2>3
      <3>2. \A b \in 0..1 : memory'[j].n[b] > 0 => quiet' <= Since(b)'
        BY <1>1, <2>1, <3>1 DEF MemoryCalm
      <3>3. PICK k \in Nat, m \in Nat : k = memory[j].block /\ m = memory'[j].block
        BY <1>0, <1>a, <2>3
      <3>4. m = k \/ (m = limiter.block /\ quiet < 2 * Window)
        BY <2>2, <2>3, <3>3
      <3>5. k <= limiter.block /\ (k > 0 => quiet + k < Pause)
        BY <3>3 DEF MemoryCalm
      <3>6. m <= limiter.block /\ (m > 0 => quiet + m < Pause)
        BY <1>0, <3>4, <3>5
      <3> QED BY <1>1, <2>1, <3>2, <3>3, <3>6
    <2> QED BY <1>0, <1>2, <2>1, <2>2, <2>4 DEF MemoryCalm
  <1> QED BY <1>3, <1>4

(* Right after a request was let through, or soon after, nothing else matters. *)
LEMMA CalmSoon ==
    ASSUME Typed, Calm, Typed', quiet' <= Pause, redis' = redis, limiter' = limiter
    PROVE  /\ RedisCalm'
           /\ (\A p \in straggling' : p.elapsed <= Since(p.back)') => CommandsCalm'
  <1>0. /\ Window \in Nat \ {0} /\ quiet' \in Nat /\ limiter.block \in Nat /\ Pause \in Nat
        /\ Pause = 2 * Window + limiter.block /\ Pause' = Pause
        /\ \A b \in Back : Since(b)' \in Nat
    <2>1. Since(0)' \in Nat /\ Since(1)' \in Nat /\ Since(2)' \in Nat /\ quiet' \in Nat
      <3>1. Window \in Nat \ {0} /\ Lockout' = Lockout /\ Lockout \in Nat
        BY Constants, SameLockout, LimiterFacts DEF Typed, TypeOK
      <3>2. phase' \in 0..Window - 1 /\ quiet' \in 0..Lockout' + 1
        BY DEF Typed, TypeOK
      <3>3. quiet' \in Nat
        BY <3>1, <3>2
      <3>4. Window * 0 = 0 /\ Window * 1 = Window /\ Window * 2 = 2 * Window
        BY <3>1
      <3>5. \A b \in Back : Since(b)' = phase' + Window * b
        BY DEF Since
      <3>6. Since(0)' = phase' /\ Since(1)' = phase' + Window /\ Since(2)' = phase' + 2 * Window
        BY <3>1, <3>2, <3>4, <3>5 DEF Back
      <3> QED BY <3>1, <3>2, <3>3, <3>6
    <2>2. \A b \in Back : b = 0 \/ b = 1 \/ b = 2
      BY DEF Back
    <2>3. Pause' = Pause
      BY DEF Pause
    <2> QED BY <2>1, <2>2, <2>3, CalmFacts
  <1>1. RedisCalm'
    <2>1. PICK k \in Nat : k = redis.block
      BY DEF Typed, TypeOK, Store
    <2>2. k <= limiter.block
      BY <2>1 DEF Calm, RedisCalm
    <2>3. quiet' + k <= 2 * Pause
      BY <1>0, <2>2
    <2>4. \A b \in Back : quiet' <= Pause + Since(b)'
      BY <1>0
    <2> QED BY <1>0, <2>1, <2>2, <2>3, <2>4 DEF RedisCalm
  <1>2. ASSUME \A p \in straggling' : p.elapsed <= Since(p.back)'
        PROVE  CommandsCalm'
    <2>1. ASSUME NEW p \in straggling'
          PROVE  quiet' + p.elapsed <= Pause' + Since(p.back)'
      <3>1. p \in Position
        BY DEF Typed, TypeOK
      <3>2. PICK e \in Nat, s \in Nat : e = p.elapsed /\ s = Since(p.back)'
        BY <1>0, <3>1 DEF Position, Back
      <3>3. e <= s
        BY <1>2, <3>2
      <3> QED BY <1>0, <3>2, <3>3
    <2> QED BY <1>2, <2>1 DEF CommandsCalm
  <1> QED BY <1>1, <1>2

(* A command that Redis runs: one that it counts is answered, or was given up *)
(* when the process still refused; one that it refuses finds the counters of  *)
(* others.                                                                    *)
LEMMA ScriptCalm ==
    ASSUME Typed, Calm, NEW p \in Position, Script(p),
           limiter' = limiter, phase' = phase, quiet' = quiet,
           SomeAllowed => SomeAllowed',
           Passes(redis, p) => SomeAllowed' \/ quiet <= Pause + Since(p.back),
           p.back = 1 /\ p.elapsed = 0 => phase = 0 \/ quiet <= Pause + Since(1)
    PROVE  MemoryCalm' /\ RedisCalm'
  <1>0. /\ Window \in Nat \ {0} /\ phase \in 0..Window - 1 /\ quiet \in Nat
        /\ limiter.block \in Nat /\ Pause \in Nat
        /\ Pause = 2 * Window + limiter.block
        /\ Since(0) = phase /\ Since(1) = phase + Window /\ Since(2) = phase + 2 * Window
    BY CalmFacts
  <1>1. Pause' = Pause /\ (\A b \in Back : Since(b)' = Since(b)) /\ memory' = memory
    BY DEF Pause, Since, Script
  <1>2. MemoryCalm'
    <2>1. MemoryCalm /\ \A b \in 0..1 : Since(b)' = Since(b)
      BY <1>1 DEF Calm, Back
    <2> QED BY <1>1, <2>1 DEF MemoryCalm
  <1>3. PICK s \in Store(Back) : s = redis
    BY DEF Typed, TypeOK
  <1>4. p.back \in 0..1 /\ p.back \in Back /\ p.back + 1 \in Back /\ Back \in SUBSET Nat /\ p.elapsed \in 0..Window - 1
    BY DEF Position, Back
  <1>5. PICK a : a = After(s, p)
    OBVIOUS
  <1>6. redis' = a
    BY <1>3, <1>5 DEF Script
  <1>7. /\ a \in Store(Back)
        /\ Passes(s, p) => (\A b \in Back \ {p.back} : a.n[b] = s.n[b]) /\ a.block = 0
        /\ ~Passes(s, p) => a.n = s.n /\ a.block = IF s.block = 0 THEN limiter.block ELSE s.block
    <2>1. limiter \in Limiters
      BY DEF Typed, TypeOK
    <2> QED BY <1>4, <1>5, <2>1, HitLeaves
  <1>8. s.block \in Nat /\ a.block \in Nat /\ \A b \in Back : s.n[b] \in 0..Limit
    BY <1>3, <1>7 DEF Store
  <1>9. s.block <= limiter.block
    BY <1>3 DEF Calm, RedisCalm
  <1>10. a.block <= limiter.block
    BY <1>0, <1>7, <1>8, <1>9
  <1>11. CASE SomeAllowed'
    BY <1>1, <1>6, <1>10, <1>2, <1>11 DEF RedisCalm
  <1>12. CASE ~SomeAllowed'
    <2>1. /\ \A b \in Back : s.n[b] > 0 => quiet <= Pause + Since(b)
          /\ s.block > 0 => quiet + s.block <= 2 * Pause
      BY <1>3, <1>12 DEF Calm, RedisCalm
    <2>2. /\ \A b \in Back : a.n[b] > 0 => quiet <= Pause + Since(b)
          /\ a.block > 0 => quiet + a.block <= 2 * Pause
      <3>1. CASE Passes(s, p)
        <4>1. quiet <= Pause + Since(p.back)
          BY <1>3, <1>12, <3>1
        <4>2. \A b \in Back \ {p.back} : a.n[b] = s.n[b]
          BY <1>7, <3>1
        <4>3. ~(a.block > 0)
          BY <1>7, <3>1
        <4> QED BY <2>1, <4>1, <4>2, <4>3
      <3>2. CASE ~Passes(s, p) /\ s.block # 0
        BY <1>7, <2>1, <3>2
      <3>3. CASE ~Passes(s, p) /\ s.block = 0
        <4>1. PICK n1 \in 0..Limit, n0 \in 0..Limit, e \in 0..Window - 1 :
                  n1 = s.n[p.back + 1] /\ n0 = s.n[p.back] /\ e = p.elapsed
          BY <1>4, <1>8
        <4>2. Over(n1, n0, e)
          BY <3>3, <4>1 DEF Passes, OverAt
        <4>3. n0 > 0 \/ (n1 > 0 /\ e = 0)
          BY <4>2, OverCounts
        <4>4. quiet <= Pause + 2 * Window
          <5>1. CASE p.back = 0
            <6>1. p.back + 1 = 1 /\ 0 \in Back /\ 1 \in Back
              BY <5>1 DEF Back
            <6>2. quiet <= Pause + Since(0) \/ quiet <= Pause + Since(1)
              BY <2>1, <4>1, <4>3, <5>1, <6>1
            <6> QED BY <1>0, <6>2
          <5>2. CASE p.back = 1
            <6>1. p.back + 1 = 2 /\ 1 \in Back /\ 2 \in Back
              BY <5>2 DEF Back
            <6>2. quiet <= Pause + Since(1) \/ (e = 0 /\ quiet <= Pause + Since(2))
              BY <2>1, <4>1, <4>3, <5>2, <6>1
            <6>3. quiet <= Pause + Since(1) \/ (phase = 0 /\ quiet <= Pause + Since(2))
              BY <4>1, <5>2, <6>2
            <6> QED BY <1>0, <6>3
          <5> QED BY <1>4, <5>1, <5>2
        <4>5. a.n = s.n /\ a.block = limiter.block
          BY <1>7, <3>3
        <4>6. quiet + limiter.block <= 2 * Pause
          BY <1>0, <4>4
        <4> QED BY <2>1, <4>5, <4>6
      <3> QED BY <3>1, <3>2, <3>3
    <2>3. RedisCalm'
      BY <1>1, <1>6, <1>10, <2>2 DEF RedisCalm
    <2> QED BY <1>2, <2>3
  <1> QED BY <1>11, <1>12

(* The counters that are left after a tick, and the blocks. *)
LEMMA TickLeaves ==
    ASSUME Typed, Tick
    PROVE  /\ redis'.block = Less(redis.block)
           /\ \A b \in Back : redis'.n[b] > 0 =>
                  IF phase = Window - 1 THEN b - 1 \in Back /\ redis.n[b - 1] > 0 ELSE redis.n[b] > 0
  <1>1. PICK left : left = [b \in Back |-> Less(ttl[b])]
    OBVIOUS
  <1>2. PICK s : s = Expired(redis, left)
    OBVIOUS
  <1>3. redis' = [n |-> IF phase = Window - 1 THEN Shift(s.n, 0) ELSE s.n, block |-> Less(s.block)]
    BY <1>1, <1>2 DEF Tick, Older
  <1>4. redis \in Store(Back)
    BY DEF Typed, TypeOK
  <1>5. s.n = [b \in Back |-> IF left[b] = 0 THEN 0 ELSE redis.n[b]] /\ s.block = redis.block
    BY <1>2, <1>4 DEF Expired, Store
  <1>6. \A b \in Back : s.n[b] > 0 => redis.n[b] > 0
    BY <1>5
  <1>7. \A b \in Back : b # 0 => b - 1 \in Back
    BY DEF Back
  <1>8. redis'.block = Less(redis.block)
    BY <1>3, <1>5
  <1>9. CASE phase = Window - 1
    <2>1. redis'.n = [b \in Back |-> IF b = 0 THEN 0 ELSE s.n[b - 1]]
      BY <1>3, <1>5, <1>9 DEF Shift
    <2> QED BY <1>6, <1>7, <1>8, <1>9, <2>1
  <1>10. CASE phase # Window - 1
    <2>1. redis'.n = s.n
      BY <1>3, <1>10
    <2> QED BY <1>6, <1>8, <1>10, <2>1
  <1> QED BY <1>9, <1>10

(* A tick ages whatever a refusal is on account of as much as the refusals. *)
LEMMA TickSince ==
    ASSUME Typed, Tick
    PROVE  /\ quiet' \in Nat /\ quiet' <= quiet + 1
           /\ limiter' = limiter /\ Pause' = Pause
           /\ \A b \in Back : Since(b) \in Nat
           /\ phase # Window - 1 => \A b \in Back : Since(b)' = Since(b) + 1
           /\ phase = Window - 1 => \A b \in Back : b - 1 \in Back => Since(b)' = Since(b - 1) + 1
  <1>0. /\ Window \in Nat \ {0} /\ phase \in 0..Window - 1 /\ quiet \in Nat /\ Lockout \in Nat
        /\ Since(0) = phase /\ Since(1) = phase + Window /\ Since(2) = phase + 2 * Window
    BY CalmFacts
  <1>1. limiter' = limiter /\ phase' = (phase + 1) % Window
        /\ quiet' = IF Open THEN 0 ELSE IF quiet > Lockout THEN quiet ELSE quiet + 1
    BY DEF Tick
  <1>2. quiet' \in Nat /\ quiet' <= quiet + 1
    BY <1>0, <1>1
  <1>3. Pause' = Pause
    BY <1>1 DEF Pause
  <1>4. \A b \in Back : b = 0 \/ b = 1 \/ b = 2
    BY DEF Back
  <1>5. \A b \in Back : Since(b)' = phase' + Window * b
    BY DEF Since
  <1>6. Window * 0 = 0 /\ Window * 1 = Window /\ Window * 2 = 2 * Window
    BY <1>0
  <1>7. Since(0)' = phase' /\ Since(1)' = phase' + Window /\ Since(2)' = phase' + 2 * Window
    <2>1. 0 \in Back /\ 1 \in Back /\ 2 \in Back
      BY DEF Back
    <2>2. phase' + 0 = phase'
      BY <1>0, <1>1, Remainder
    <2> QED BY <1>5, <1>6, <2>1, <2>2
  <1>8. \A b \in Back : Since(b) \in Nat
    BY <1>0, <1>4
  <1>9. CASE phase = Window - 1
    <2>1. phase' = 0
      BY <1>0, <1>1, <1>9, Remainder
    <2>2. Since(1)' = Since(0) + 1 /\ Since(2)' = Since(1) + 1
      BY <1>0, <1>7, <1>9, <2>1
    <2>3. ASSUME NEW b \in Back, b - 1 \in Back
          PROVE  Since(b)' = Since(b - 1) + 1
      <3>1. CASE b = 1
        <4>1. b - 1 = 0
          BY <3>1
        <4> QED BY <2>2, <3>1, <4>1
      <3>2. CASE b = 2
        <4>1. b - 1 = 1
          BY <3>2
        <4> QED BY <2>2, <3>2, <4>1
      <3>3. b # 0
        BY <2>3 DEF Back
      <3> QED BY <1>4, <3>1, <3>2, <3>3
    <2> QED BY <1>1, <1>2, <1>3, <1>8, <1>9, <2>3
  <1>10. CASE phase # Window - 1
    <2>1. phase' = phase + 1
      BY <1>0, <1>1, <1>10, Remainder
    <2>2. Since(0)' = Since(0) + 1 /\ Since(1)' = Since(1) + 1 /\ Since(2)' = Since(2) + 1
      BY <1>0, <1>7, <2>1
    <2> QED BY <1>1, <1>2, <1>3, <1>4, <1>8, <1>10, <2>2
  <1> QED BY <1>9, <1>10

LEMMA TickCalm ==
    ASSUME Typed, Calm, Tick
    PROVE  Calm'
  <1>0. /\ Window \in Nat \ {0} /\ phase \in 0..Window - 1 /\ quiet \in Nat
        /\ limiter.block \in Nat /\ Pause \in Nat
    BY CalmFacts
  <1>1. /\ quiet' \in Nat /\ quiet' <= quiet + 1 /\ limiter' = limiter /\ Pause' = Pause
        /\ \A b \in Back : Since(b) \in Nat
        /\ phase # Window - 1 => \A b \in Back : Since(b)' = Since(b) + 1
        /\ phase = Window - 1 => \A b \in Back : b - 1 \in Back => Since(b)' = Since(b - 1) + 1
    BY TickSince
  <1>2. MemoryCalm'
    <2>1. ASSUME NEW i \in Instances
          PROVE  /\ \A b \in 0..1 : memory'[i].n[b] > 0 => quiet' <= Since(b)'
                 /\ memory'[i].block <= limiter'.block
                 /\ memory'[i].block > 0 => quiet' + memory'[i].block < Pause'
      <3>1. memory[i] \in Store(0..1)
        BY DEF Typed, TypeOK
      <3>2. PICK k \in Nat : k = memory[i].block
        BY <3>1 DEF Store
      <3>3. PICK m \in Nat : m = memory'[i].block /\ m = Less(k)
        BY <3>2, TickMemory, LessIs
      <3>4. k <= limiter.block /\ (k > 0 => quiet + k < Pause)
        BY <3>2 DEF Calm, MemoryCalm
      <3>5. m <= limiter.block /\ (m > 0 => quiet' + m < Pause)
        BY <1>0, <1>1, <3>3, <3>4, LessIs
      <3>6. ASSUME NEW b \in 0..1, memory'[i].n[b] > 0
            PROVE  quiet' <= Since(b)'
        <4>1. \A c \in 0..1 : memory[i].n[c] > 0 => quiet <= Since(c)
          BY DEF Calm, MemoryCalm
        <4>2. 0 \in Back /\ 1 \in Back /\ b \in Back
          BY DEF Back
        <4>3. CASE phase = Window - 1
          <5>1. b = 1
            BY <3>6, <4>3, TickMemory
          <5>2. memory[i].n[0] > 0 /\ b - 1 = 0
            BY <3>6, <4>3, <5>1, TickMemory
          <5>3. quiet <= Since(0) /\ Since(b)' = Since(0) + 1
            BY <1>1, <4>1, <4>2, <4>3, <5>2
          <5> QED BY <1>0, <1>1, <4>2, <5>3
        <4>4. CASE phase # Window - 1
          <5>1. quiet <= Since(b) /\ Since(b)' = Since(b) + 1
            BY <1>1, <3>6, <4>1, <4>2, <4>4, TickMemory
          <5> QED BY <1>0, <1>1, <4>2, <5>1
        <4> QED BY <4>3, <4>4
      <3> QED BY <1>1, <3>3, <3>5, <3>6
    <2> QED BY <2>1 DEF MemoryCalm
  <1>3. CommandsCalm'
    <2>1. ASSUME NEW p \in straggling'
          PROVE  p.elapsed <= Since(p.back)' /\ quiet' + p.elapsed <= Pause' + Since(p.back)'
      <3>1. CASE phase = Window - 1
        <4>1. straggling' = {Aged(q) : q \in {q \in straggling : q.back = 0}}
          BY <3>1 DEF Tick
        <4>2. PICK q \in straggling : q.back = 0 /\ p = Aged(q)
          BY <4>1
        <4>3. q \in Position
          BY DEF Typed, TypeOK
        <4>4. p.back = 1 /\ p.elapsed = q.elapsed
          BY <4>2, <4>3 DEF Aged, Position
        <4>5. PICK e \in Nat, s \in Nat : e = q.elapsed /\ s = Since(0) /\ Since(1)' = s + 1
          <5>1. 0 \in Back /\ 1 \in Back /\ 1 - 1 = 0
            BY DEF Back
          <5> QED BY <1>0, <1>1, <3>1, <4>3, <5>1 DEF Position
        <4>6. e <= s /\ quiet + e <= Pause + s
          BY <4>2, <4>5 DEF Calm, CommandsCalm
        <4> QED BY <1>0, <1>1, <4>4, <4>5, <4>6
      <3>2. CASE phase # Window - 1
        <4>1. p \in straggling
          BY <3>2 DEF Tick
        <4>2. p \in Position
          BY <4>1 DEF Typed, TypeOK
        <4>3. PICK e \in Nat, s \in Nat : e = p.elapsed /\ s = Since(p.back) /\ Since(p.back)' = s + 1
          <5>1. p.back \in Back /\ p.elapsed \in Nat
            BY <1>0, <4>2 DEF Position, Back
          <5> QED BY <1>1, <3>2, <5>1
        <4>4. e <= s /\ quiet + e <= Pause + s
          BY <4>1, <4>3 DEF Calm, CommandsCalm
        <4> QED BY <1>0, <1>1, <4>3, <4>4
      <3> QED BY <3>1, <3>2
    <2> QED BY <2>1 DEF CommandsCalm
  <1>4. RedisCalm'
    <2>1. PICK k \in Nat : k = redis.block
      BY DEF Typed, TypeOK, Store
    <2>2. PICK m \in Nat : m = redis'.block /\ m = Less(k)
      BY <2>1, TickLeaves, LessIs
    <2>3. m <= limiter.block
      BY <1>0, <2>1, <2>2, LessIs DEF Calm, RedisCalm
    <2>4. SomeAllowed => SomeAllowed'
      <3>1. ASSUME NEW r \in Requests, req[r].pc = "allowed"
            PROVE  req'[r].pc = "allowed"
        <4>1. req[r] \in Request
          BY DEF Typed
        <4>2. req'[r] = [req[r] EXCEPT !.age = @ + 1,
                                       !.position = IF phase = Window - 1 THEN Aged(@) ELSE @]
          BY <3>1 DEF Tick
        <4> QED BY <3>1, <4>1, <4>2 DEF Request
      <3> QED BY <3>1 DEF SomeAllowed
    <2>5. CASE SomeAllowed
      BY <1>1, <2>2, <2>3, <2>4, <2>5 DEF RedisCalm
    <2>6. CASE ~SomeAllowed
      <3>1. /\ \A b \in Back : redis.n[b] > 0 => quiet <= Pause + Since(b)
            /\ k > 0 => quiet + k <= 2 * Pause
        BY <2>1, <2>6 DEF Calm, RedisCalm
      <3>2. m > 0 => quiet' + m <= 2 * Pause
        BY <1>0, <1>1, <2>2, <3>1, LessIs
      <3>3. ASSUME NEW b \in Back, redis'.n[b] > 0
            PROVE  quiet' <= Pause + Since(b)'
        <4>1. PICK c \in Back : redis.n[c] > 0 /\ Since(b)' = Since(c) + 1
          BY <1>1, <3>3, TickLeaves
        <4>2. quiet <= Pause + Since(c) /\ Since(c) \in Nat
          BY <1>1, <3>1, <4>1
        <4> QED BY <1>0, <1>1, <4>1, <4>2
      <3> QED BY <1>1, <2>2, <2>3, <3>2, <3>3 DEF RedisCalm
    <2> QED BY <2>5, <2>6
  <1> QED BY <1>2, <1>3, <1>4 DEF Calm

(* A command is as old as it says. *)
LEMMA CommandAge ==
    ASSUME Typed, Placed, NEW r \in Requests, Waits(r)
    PROVE  /\ req[r].position \in Position
           /\ req[r].position.elapsed <= Since(req[r].position.back)
           /\ req[r].position.back = 1 /\ req[r].position.elapsed = 0 => phase = 0
  <1>0. /\ Window \in Nat \ {0} /\ phase \in 0..Window - 1 /\ Latency \in Nat /\ Latency <= Window
        /\ Since(0) = phase /\ Since(1) = phase + Window
    BY CalmFacts, Constants
  <1>1. req[r] \in Request
    BY DEF Typed
  <1>2. PICK p \in Position, a \in 0..Latency : p = req[r].position /\ a = req[r].age
    BY <1>1 DEF Request
  <1>3. PICK e \in 0..Window - 1 : e = p.elapsed
    BY DEF Position
  <1>4. p.back \in 0..1
    BY DEF Position
  <1>5. IF p.back = 0 THEN phase = e + a ELSE Window + phase = e + a
    BY <1>2, <1>3 DEF Placed
  <1>6. CASE p.back = 0
    BY <1>0, <1>2, <1>3, <1>5, <1>6
  <1>7. CASE p.back = 1
    BY <1>0, <1>2, <1>3, <1>5, <1>7
  <1> QED BY <1>4, <1>6, <1>7

LEMMA CalmStep ==
    ASSUME Typed, Placed, Typed', Calm, Next
    PROVE  Calm'
  <1>0. /\ req \in [Requests -> Request] /\ straggling \subseteq Position /\ Idle.pc = "idle"
        /\ memory \in [Instances -> Store(0..1)]
    BY Constants DEF Typed, TypeOK
  <1>a. /\ limiter.block \in Nat /\ Pause \in Nat /\ quiet \in Nat /\ phase \in Nat /\ Window \in Nat
        /\ Pause = 2 * Window + limiter.block /\ \A b \in 0..1 : Since(b) \in Nat
    <2>1. \A b \in 0..1 : b = 0 \/ b = 1
      OBVIOUS
    <2>2. /\ limiter.block \in Nat /\ Pause \in Nat /\ quiet \in Nat /\ phase \in 0..Window - 1 /\ Window \in Nat
          /\ Pause = 2 * Window + limiter.block /\ Since(0) = phase /\ Since(1) = phase + Window
      BY CalmFacts
    <2> QED BY <2>1, <2>2
  <1>b. MemoryCalm /\ CommandsCalm /\ RedisCalm
    BY DEF Calm
  <1>c. ASSUME limiter' = limiter, phase' = phase
        PROVE  Pause' = Pause /\ (\A b \in Back : Since(b)' = Since(b)) /\ (\A b \in 0..1 : Since(b)' = Since(b))
    BY <1>c DEF Pause, Since
  <1>d. \A p \in straggling : p.elapsed <= Since(p.back) /\ p.back \in 0..1
    BY <1>0, <1>b DEF CommandsCalm, Position
  <1>1. ASSUME NEW i \in Instances, HitMemory(i), limiter' = limiter, phase' = phase,
               \A p \in straggling' : p \in straggling \/ (\E r \in Requests : Waits(r) /\ p = req[r].position)
        PROVE  Calm'
    <2>1. MemoryCalm' /\ quiet' <= Pause /\ redis' = redis
      BY <1>1, <1>b, HitCalm
    <2>2. ASSUME NEW p \in straggling'
          PROVE  p.elapsed <= Since(p.back)'
      <3>1. p.elapsed <= Since(p.back)
        BY <1>1, <1>d, CommandAge
      <3>2. p.back \in 0..1
        BY DEF Typed, TypeOK, Position
      <3> QED BY <1>1, <1>c, <3>1, <3>2
    <2> QED BY <1>1, <2>1, <2>2, CalmSoon DEF Calm
  <1>2. ASSUME redis' = redis, memory' = memory, straggling' = straggling, limiter' = limiter, phase' = phase,
               quiet' = quiet, SomeAllowed => SomeAllowed'
        PROVE  Calm'
    <2>1. Pause' = Pause /\ (\A b \in Back : Since(b)' = Since(b)) /\ (\A b \in 0..1 : Since(b)' = Since(b))
      BY <1>2, <1>c
    <2>2. MemoryCalm'
      BY <1>2, <1>b, <2>1 DEF MemoryCalm
    <2>3. CommandsCalm'
      BY <1>2, <1>b, <1>d, <2>1 DEF CommandsCalm
    <2>4. RedisCalm'
      BY <1>2, <1>b, <2>1 DEF RedisCalm
    <2> QED BY <2>2, <2>3, <2>4 DEF Calm
  <1>3. ASSUME NEW r \in Requests, NEW i \in Instances, HitLocally(r, i)
        PROVE  Calm'
    BY <1>1, <1>3 DEF HitLocally
  <1>4. ASSUME NEW r \in Requests, NEW i \in Instances, Send(r, i) \/ Guard(r, i) \/ Found(r)
        PROVE  Calm'
    <2>1. /\ redis' = redis /\ memory' = memory /\ straggling' = straggling /\ limiter' = limiter
          /\ phase' = phase /\ quiet' = quiet
      BY <1>4 DEF Send, Guard, Found, stores
    <2>2. ASSUME NEW q \in Requests, req[q].pc = "allowed"
          PROVE  req'[q].pc = "allowed"
      <3>1. q # r
        BY <1>4, <2>2 DEF Send, Guard, Found
      <3> QED BY <1>0, <1>4, <2>2, <3>1 DEF Send, Guard, Found
    <2> QED BY <1>2, <2>1, <2>2 DEF SomeAllowed
  <1>5. ASSUME NEW r \in Requests, Run(r)
        PROVE  Calm'
    <2>1. PICK p \in Position : p = req[r].position /\ p.elapsed <= Since(p.back) /\ (p.back = 1 /\ p.elapsed = 0 => phase = 0)
      BY <1>5, CommandAge DEF Run, Waits
    <2>2. /\ Script(p) /\ limiter' = limiter /\ phase' = phase /\ quiet' = quiet /\ straggling' = straggling
          /\ req' = [req EXCEPT ![r].pc = IF Passes(redis, p) THEN "allowed" ELSE "denied"]
          /\ req[r].pc = "sent"
      BY <1>5, <2>1 DEF Run
    <2>3. ASSUME NEW q \in Requests, req[q].pc = "allowed"
          PROVE  req'[q].pc = "allowed"
      BY <1>0, <2>2, <2>3
    <2>4. Passes(redis, p) => req'[r].pc = "allowed"
      BY <1>0, <2>2 DEF Request
    <2>5. MemoryCalm' /\ RedisCalm'
      BY <2>1, <2>2, <2>3, <2>4, ScriptCalm DEF SomeAllowed
    <2>6. CommandsCalm'
      BY <1>b, <1>c, <1>d, <2>2 DEF CommandsCalm
    <2> QED BY <2>5, <2>6 DEF Calm
  <1>6. ASSUME NEW r \in Requests, Answer(r)
        PROVE  Calm'
    <2>1. /\ redis' = redis /\ memory' = memory /\ straggling' = straggling /\ limiter' = limiter
          /\ phase' = phase
      BY <1>6 DEF Answer, stores
    <2>2. CASE req[r].pc = "allowed"
      <3>1. quiet' = 0
        BY <1>6, <2>2 DEF Answer, LetThrough
      <3>2. MemoryCalm'
        <4>1. ASSUME NEW i \in Instances
              PROVE  /\ \A b \in 0..1 : memory'[i].n[b] > 0 => quiet' <= Since(b)'
                     /\ memory'[i].block <= limiter'.block
                     /\ memory'[i].block > 0 => quiet' + memory'[i].block < Pause'
          <5>1. PICK k \in Nat : k = memory[i].block
            BY <1>0 DEF Store
          <5>2. k <= limiter.block /\ (k > 0 => quiet + k < Pause)
            BY <1>b, <5>1 DEF MemoryCalm
          <5>3. k > 0 => 0 + k < Pause
            BY <1>a, <5>2
          <5>4. \A b \in 0..1 : 0 <= Since(b)'
            BY <1>a, <1>c, <2>1
          <5> QED BY <1>c, <2>1, <3>1, <5>1, <5>2, <5>3, <5>4
        <4> QED BY <4>1 DEF MemoryCalm
      <3>3. quiet' <= Pause
        BY <1>a, <3>1
      <3>4. ASSUME NEW p \in straggling'
            PROVE  p.elapsed <= Since(p.back)'
        BY <1>c, <1>d, <2>1
      <3> QED BY <2>1, <3>2, <3>3, <3>4, CalmSoon DEF Calm
    <2>3. CASE req[r].pc # "allowed"
      <3>1. quiet' = quiet /\ req' = [req EXCEPT ![r] = Idle]
        BY <1>6, <2>3 DEF Answer, Refused
      <3>2. ASSUME NEW q \in Requests, req[q].pc = "allowed"
            PROVE  req'[q].pc = "allowed"
        BY <1>0, <2>3, <3>1, <3>2
      <3> QED BY <1>2, <2>1, <3>1, <3>2 DEF SomeAllowed
    <2> QED BY <2>2, <2>3
  <1>7. ASSUME NEW r \in Requests, TimeOut(r)
        PROVE  Calm'
    <2>1. req[r].inst \in Instances /\ Waits(r)
      BY <1>0, <1>7 DEF Request, TimeOut, Waits
    <2>2. /\ HitMemory(req[r].inst) /\ limiter' = limiter /\ phase' = phase
          /\ straggling' \subseteq straggling \cup {req[r].position}
      BY <1>7 DEF TimeOut
    <2> QED BY <1>1, <2>1, <2>2
  <1>8. ASSUME NEW r \in Requests, Miss(r) \/ PlaceBlock(r)
        PROVE  Calm'
    <2>1. req[r].inst \in Instances
      BY <1>0 DEF Request
    <2>2. HitMemory(req[r].inst) /\ limiter' = limiter /\ phase' = phase /\ straggling' = straggling
      BY <1>8 DEF Miss, PlaceBlock
    <2> QED BY <1>1, <2>1, <2>2
  <1>9. ASSUME NEW p \in straggling, RunLate(p)
        PROVE  Calm'
    <2>1. /\ Script(p) /\ limiter' = limiter /\ phase' = phase /\ quiet' = quiet /\ req' = req
          /\ straggling' = straggling \ {p}
      BY <1>9 DEF RunLate
    <2>2. PICK e \in Nat, s \in Nat : e = p.elapsed /\ s = Since(p.back)
      BY <1>0, <1>a, <1>d DEF Position
    <2>3. quiet <= Pause + Since(p.back)
      <3>1. quiet + e <= Pause + s
        BY <1>b, <2>2 DEF CommandsCalm
      <3> QED BY <1>a, <2>2, <3>1
    <2>4. SomeAllowed => SomeAllowed'
      BY <2>1 DEF SomeAllowed
    <2>5. MemoryCalm' /\ RedisCalm'
      BY <1>0, <2>1, <2>3, <2>4, ScriptCalm
    <2>6. CommandsCalm'
      BY <1>b, <1>c, <1>d, <2>1 DEF CommandsCalm
    <2> QED BY <2>5, <2>6 DEF Calm
  <1>10. ASSUME NEW i \in Instances, Sweep(i)
         PROVE  Calm'
    <2>1. /\ redis' = redis /\ straggling' = straggling /\ limiter' = limiter
          /\ phase' = phase /\ quiet' = quiet /\ req' = req
          /\ memory' = [memory EXCEPT ![i].n = Empty(0..1).n]
      BY <1>10 DEF Sweep
    <2>2. Pause' = Pause /\ (\A b \in Back : Since(b)' = Since(b)) /\ (\A b \in 0..1 : Since(b)' = Since(b))
      BY <1>c, <2>1
    <2>3. MemoryCalm'
      <3>1. ASSUME NEW j \in Instances
            PROVE  /\ memory'[j].block = memory[j].block
                   /\ \A b \in 0..1 : memory'[j].n[b] > 0 => memory[j].n[b] > 0
        <4>1. memory[j] \in Store(0..1)
          BY <1>0
        <4>2. CASE j = i
          <5>1. memory'[j] = [memory[j] EXCEPT !.n = Empty(0..1).n]
            BY <1>0, <2>1, <4>2
          <5>2. memory'[j].block = memory[j].block /\ memory'[j].n = [b \in 0..1 |-> 0]
            BY <4>1, <5>1 DEF Empty, Store
          <5> QED BY <5>2
        <4>3. CASE j # i
          BY <1>0, <2>1, <4>3
        <4> QED BY <4>2, <4>3
      <3> QED BY <1>b, <2>1, <2>2, <3>1 DEF MemoryCalm
    <2>4. CommandsCalm'
      BY <1>b, <1>d, <2>1, <2>2 DEF CommandsCalm
    <2>5. RedisCalm'
      BY <1>b, <2>1, <2>2 DEF RedisCalm, SomeAllowed
    <2> QED BY <2>3, <2>4, <2>5 DEF Calm
  <1>11. ASSUME NEW i \in Instances, Restart(i)
         PROVE  Calm'
    <2>1. /\ redis' = redis /\ limiter' = limiter /\ phase' = phase
          /\ memory' = [memory EXCEPT ![i] = Empty(0..1)]
          /\ req' = [r \in Requests |-> IF req[r].inst = i THEN Idle ELSE req[r]]
          /\ quiet' = IF \E r \in Requests : req[r].pc # "idle" /\ req[r].inst = i THEN 0 ELSE quiet
      BY <1>11 DEF Restart
    <2>2. Pause' = Pause /\ (\A b \in Back : Since(b)' = Since(b)) /\ (\A b \in 0..1 : Since(b)' = Since(b))
      BY <1>c, <2>1
    <2>3. quiet' \in Nat /\ quiet' <= quiet
      BY <1>a, <2>1
    <2>4. MemoryCalm'
      <3>1. ASSUME NEW j \in Instances
            PROVE  /\ \A b \in 0..1 : memory'[j].n[b] > 0 => quiet' <= Since(b)'
                   /\ memory'[j].block <= limiter'.block
                   /\ memory'[j].block > 0 => quiet' + memory'[j].block < Pause'
        <4>1. CASE j = i
          <5>1. memory'[j].block = 0 /\ memory'[j].n = [b \in 0..1 |-> 0]
            BY <1>0, <2>1, <4>1 DEF Empty
          <5> QED BY <1>a, <2>1, <5>1
        <4>2. CASE j # i
          <5>1. memory'[j] = memory[j]
            BY <1>0, <2>1, <4>2
          <5>2. PICK k \in Nat : k = memory[j].block
            BY <1>0 DEF Store
          <5>3. k <= limiter.block /\ (k > 0 => quiet + k < Pause)
            BY <1>b, <5>2 DEF MemoryCalm
          <5>4. k > 0 => quiet' + k < Pause
            BY <1>a, <2>3, <5>3
          <5>5. ASSUME NEW b \in 0..1, memory[j].n[b] > 0
                PROVE  quiet' <= Since(b)'
            <6>1. quiet <= Since(b) /\ Since(b) \in Nat /\ Since(b)' = Since(b)
              BY <1>a, <1>b, <2>2, <5>5 DEF MemoryCalm
            <6> QED BY <1>a, <2>3, <6>1
          <5> QED BY <2>1, <2>2, <5>1, <5>2, <5>3, <5>4, <5>5
        <4> QED BY <4>1, <4>2
      <3> QED BY <3>1 DEF MemoryCalm
    <2>5. CASE quiet' = 0
      <3>1. quiet' <= Pause
        BY <1>a, <2>5
      <3>2. ASSUME NEW p \in straggling'
            PROVE  p.elapsed <= Since(p.back)'
        <4>1. p \in straggling \/ \E r \in Requests : Waits(r) /\ p = req[r].position
          BY <1>11, RestartLate DEF Waits
        <4>2. p.elapsed <= Since(p.back)
          BY <1>d, <4>1, CommandAge
        <4>3. p.back \in 0..1
          BY DEF Typed, TypeOK, Position
        <4> QED BY <2>2, <4>2, <4>3
      <3> QED BY <2>1, <2>4, <3>1, <3>2, CalmSoon DEF Calm
    <2>6. CASE quiet' # 0
      <3>1. quiet' = quiet /\ \A r \in Requests : req[r].inst = i => req[r].pc = "idle"
        BY <2>1, <2>6
      <3>2. SomeAllowed => SomeAllowed'
        <4>1. ASSUME NEW q \in Requests, req[q].pc = "allowed"
              PROVE  req'[q].pc = "allowed"
          BY <2>1, <3>1, <4>1
        <4> QED BY <4>1 DEF SomeAllowed
      <3>3. CommandsCalm'
        <4>1. ASSUME NEW p \in straggling'
              PROVE  p \in straggling
          <5>1. p \in straggling \/ \E r \in Requests : req[r].pc = "sent" /\ req[r].inst = i
            BY <1>11, RestartLate
          <5> QED BY <3>1, <5>1
        <4> QED BY <1>b, <1>d, <2>1, <2>2, <3>1, <4>1 DEF CommandsCalm
      <3>4. RedisCalm'
        BY <1>b, <2>1, <2>2, <3>1, <3>2 DEF RedisCalm
      <3> QED BY <2>4, <3>3, <3>4 DEF Calm
    <2> QED BY <2>5, <2>6
  <1>12. CASE Tick
    BY <1>12, TickCalm
  <1> QED BY <1>3, <1>4, <1>5, <1>6, <1>7, <1>8, <1>9, <1>10, <1>11, <1>12, InstancesAssumption DEF Next

LEMMA AlwaysCalm == Spec => [](IInv /\ Calm)
  <1>1. Init => IInv /\ Calm
    <2> SUFFICES ASSUME Init PROVE Calm
      BY InitIInv
    <2>1. Typed
      BY InitIInv DEF IInv
    <2>2. limiter.block \in Nat /\ quiet = 0 /\ straggling = {} /\ redis = Empty(Back)
          /\ memory = [i \in Instances |-> Empty(0..1)]
      BY <2>1, CalmFacts DEF Init
    <2>3. redis.block = 0 /\ \A b \in Back : redis.n[b] = 0
      BY <2>2 DEF Empty
    <2>4. \A i \in Instances : memory[i].block = 0 /\ \A b \in 0..1 : memory[i].n[b] = 0
      BY <2>2 DEF Empty
    <2>5. MemoryCalm /\ CommandsCalm /\ RedisCalm
      BY <2>2, <2>3, <2>4 DEF MemoryCalm, CommandsCalm, RedisCalm
    <2> QED BY <2>5 DEF Calm
  <1>2. IInv /\ Calm /\ [Next]_vars => (IInv /\ Calm)'
    <2> SUFFICES ASSUME IInv, Calm, [Next]_vars PROVE Calm'
      BY NextIInv
    <2>0. Typed /\ Placed /\ Typed'
      BY NextIInv DEF IInv
    <2>1. CASE Next
      BY <2>0, <2>1, CalmStep
    <2>2. CASE UNCHANGED vars
      <3>1. /\ limiter' = limiter /\ phase' = phase /\ redis' = redis /\ memory' = memory
            /\ req' = req /\ straggling' = straggling /\ quiet' = quiet
        BY <2>2 DEF vars, stores
      <3>2. Pause' = Pause /\ (\A b \in Back : Since(b)' = Since(b)) /\ (\A b \in 0..1 : Since(b)' = Since(b))
        BY <3>1 DEF Pause, Since
      <3>3. \A p \in straggling : p.back \in 0..1
        BY <2>0 DEF Typed, TypeOK, Position
      <3>4. MemoryCalm' /\ CommandsCalm'
        BY <3>1, <3>2, <3>3 DEF Calm, MemoryCalm, CommandsCalm
      <3>5. RedisCalm'
        BY <3>1, <3>2 DEF Calm, RedisCalm, SomeAllowed
      <3> QED BY <3>4, <3>5 DEF Calm
    <2> QED BY <2>1, <2>2
  <1> QED BY <1>1, <1>2, PTL DEF Spec

(* Nobody is locked out by trying: for every window, limit and block, with any *)
(* number of processes, of requests under way and of lost answers, refusals    *)
(* end after two Pauses.                                                       *)
THEOREM RefusalsEnd == Spec => []NoLockout
  <1>1. ASSUME IInv, Calm PROVE NoLockout
    <2>0. Typed /\ MemoryCalm /\ RedisCalm
      BY <1>1 DEF IInv, Calm
    <2>1. /\ Window \in Nat \ {0} /\ phase \in 0..Window - 1 /\ quiet \in Nat
          /\ limiter.block \in Nat /\ Pause \in Nat
          /\ Pause = 2 * Window + limiter.block /\ Lockout = 2 * Pause
          /\ Since(0) = phase /\ Since(1) = phase + Window
      BY <2>0, CalmFacts
    <2>2. SUFFICES ASSUME ~SomeAllowed, ~Open PROVE quiet <= Lockout
      BY DEF NoLockout, SomeAllowed
    <2>3. CASE \E i \in Instances : ~Passes(memory[i], Here)
      BY <2>0, <2>1, <2>3, RefusesLately
    <2>4. CASE ~Passes(redis, Here)
      <3>1. Here \in Position /\ Here.back = 0 /\ Here.elapsed = phase /\ Here.back + 1 = 1
        BY <2>0, HereIs
      <3>2. 0 \in Back /\ 1 \in Back /\ redis \in Store(Back)
        BY <2>0 DEF Back, Typed, TypeOK
      <3>3. PICK n1 \in 0..Limit, n0 \in 0..Limit, k \in Nat :
                n1 = redis.n[1] /\ n0 = redis.n[0] /\ k = redis.block
        BY <3>2 DEF Store
      <3>4. /\ n0 > 0 => quiet <= Pause + phase
            /\ n1 > 0 => quiet <= Pause + (phase + Window)
            /\ k > 0 => quiet + k <= 2 * Pause
        BY <2>0, <2>1, <2>2, <3>2, <3>3 DEF RedisCalm
      <3>5. CASE k > 0
        BY <2>1, <3>3, <3>4, <3>5
      <3>6. CASE k = 0
        <4>1. Over(n1, n0, phase)
          BY <2>4, <3>1, <3>3, <3>6 DEF Passes, OverAt
        <4>2. n0 > 0 \/ n1 > 0
          BY <2>1, <4>1, OverCounts
        <4> QED BY <2>1, <3>4, <4>2
      <3> QED BY <3>5, <3>6
    <2> QED BY <2>2, <2>3, <2>4 DEF Open
  <1> QED BY <1>1, AlwaysCalm, PTL

================================================================================
