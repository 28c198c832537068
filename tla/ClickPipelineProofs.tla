-------------------------- MODULE ClickPipelineProofs --------------------------
(***************************************************************************)
(* Counters are exact and clicks are not forgotten, for any number of      *)
(* processes, links, clicks, slots, attempts, stalls and faults.           *)
(*                                                                         *)
(* CountsAreExact is preserved by itself: only the statement of a worker   *)
(* and a delete write the tables, and the statement counts the rows it     *)
(* really inserted.  NothingVanishes is not: that a job is "done" says     *)
(* nothing of the rows unless the run that completed it had committed its  *)
(* batch (Committed), and a row may go with its link, so a click has to be   *)
(* found again in the job that brought it (Accounted).                     *)
(***************************************************************************)
EXTENDS ClickPipeline, FiniteSetTheorems, FunctionTheorems, TLAPS

ProducerTypes ==
    /\ maxBuffer \in MaxBuffers
    /\ phase \in [Instances -> {"up", "stopping", "down"}]
    /\ DOMAIN buffer = Instances /\ DOMAIN adding = Instances
    /\ \A i \in Instances : /\ buffer[i] \subseteq Click
                            /\ Cardinality(buffer[i]) <= maxBuffer
                            /\ \A e \in adding[i] : e \in Add
    /\ made \in 0..MaxClicks
    /\ dropped \subseteq Click /\ lost \subseteq Click /\ abandoned \subseteq Click

QueueTypes == (\A j \in jobs : j \in Job) /\ (\A r \in runs : r \in Run)

DatabaseTypes == /\ urls \subseteq Urls /\ rows \subseteq Click
                 /\ count \in [Urls -> Nat] /\ last \in [Urls -> 0..MaxClicks]

(* A job that will run has an attempt left. *)
AttemptLeft == \A j \in jobs : j.state \in {"waiting", "active"} => j.tries < Attempts

Types == TypeOK /\ IsFiniteSet(jobs) /\ AttemptLeft

(* What is left to do for a click once its batch has been stored: nothing. *)
Stored(c) == c.bot \/ c.url \notin urls \/ c \in rows

(* The batch of a run that committed is stored, and that of a job that is done. *)
Committed == /\ \A r \in runs : r.committed => \A c \in r.batch : Stored(c)
             /\ \A j \in jobs : j.state = "done" => \A c \in j.batch : Stored(c)

(* A click is in memory, in a job of the queue, counted as dropped, lost   *)
(* with its process or abandoned by it.                                    *)
Known(c) == \/ \E i \in Instances : c \in buffer[i] \/ \E e \in adding[i] : c \in e.batch
            \/ \E j \in jobs : c \in j.batch
            \/ c \in dropped \/ c \in lost \/ c \in abandoned
Accounted == \A n \in 1..made : \E c \in Click : c.id = n /\ Known(c)

(* A process that is not up has flushed its buffer, and record() is over. *)
Flushed == \A i \in Instances : phase[i] # "up" => buffer[i] = {}

IInv == Types /\ Committed /\ Flushed /\ Accounted /\ CountsAreExact

--------------------------------------------------------------------------------
(***************************************************************************)
(* The operators of the statement.                                         *)
(***************************************************************************)

(* A set of numbers up to n has a greatest one, and Max finds it. *)
LEMMA MaxIsGreatest ==
    ASSUME NEW n \in Nat, NEW S, S \subseteq 0..n, S # {}
    PROVE  Max(S) \in S /\ \A x \in S : Max(S) >= x
<1> DEFINE T == {n - x : x \in S}
           Less == {p \in Nat \X Nat : p[1] < p[2]}
<1>1. T \subseteq Nat /\ T # {}
  <2>1. \A x \in S : n - x \in Nat
    OBVIOUS
  <2> QED
    BY <2>1
<1>2. IsWellFoundedOn(Less, Nat)
  BY NatLessThanWellFounded DEF OpToRel
<1>3. PICK t \in T : \A y \in T : <<y, t>> \notin Less
  <2> HIDE DEF T, Less
  <2> QED
    BY <1>1, <1>2, WFMin
<1>4. PICK m \in S : t = n - m
  OBVIOUS
<1>5. \A x \in S : m >= x
  <2> SUFFICES ASSUME NEW x \in S PROVE m >= x
    OBVIOUS
  <2>1. n - x \in T /\ n - x \in Nat /\ n - m \in Nat
    OBVIOUS
  <2>2. ~(n - x < n - m)
    BY <1>3, <1>4, <2>1
  <2> QED
    BY <2>2
<1> QED
  BY <1>4, <1>5 DEF Max

LEMMA ClickFinite == IsFiniteSet(Click)
<1> DEFINE Parts == (1..MaxClicks) \X (Urls \X BOOLEAN)
           Whole(p) == [id |-> p[1], url |-> p[2][1], bot |-> p[2][2]]
           f == [p \in Parts |-> Whole(p)]
<1>1. IsFiniteSet(1..MaxClicks) /\ IsFiniteSet(Urls)
  BY BoundAssumption, FiniteAssumption, FS_Interval
<1>2. IsFiniteSet(BOOLEAN)
  <2>1. IsFiniteSet({TRUE} \cup {FALSE}) /\ BOOLEAN = {TRUE} \cup {FALSE}
    BY FS_Singleton, FS_Union
  <2> QED
    BY <2>1
<1>3. IsFiniteSet(Parts)
  BY <1>1, <1>2, FS_Product
<1>4. f \in [Parts -> Click]
  BY DEF Click
<1>5. \A c \in Click : \E p \in Parts : f[p] = c
  <2> SUFFICES ASSUME NEW c \in Click PROVE \E p \in Parts : f[p] = c
    OBVIOUS
  <2>1. <<c.id, <<c.url, c.bot>>>> \in Parts
    BY DEF Click
  <2>2. f[<<c.id, <<c.url, c.bot>>>>] = c
    BY <2>1 DEF Click
  <2> QED
    BY <2>1, <2>2
<1> HIDE DEF Parts, f
<1> QED
  BY <1>3, <1>4, <1>5, Fun_IsSurj, FS_Surjection

(* The rows of a link, and the time of its latest click. *)
LEMMA OfRows ==
    ASSUME NEW u \in Urls, NEW clicks \in SUBSET Click
    PROVE  /\ IsFiniteSet(Of(u, clicks)) /\ Cardinality(Of(u, clicks)) \in Nat
           /\ Latest(Of(u, clicks)) \in 0..MaxClicks
           /\ \A c \in Of(u, clicks) : c.id <= Latest(Of(u, clicks))
           /\ Of(u, clicks) # {} => \E c \in Of(u, clicks) : c.id = Latest(Of(u, clicks))
<1> DEFINE mine == Of(u, clicks)
           ids  == {c.id : c \in mine}
<1>1. mine \subseteq Click
  BY DEF Of
<1>2. IsFiniteSet(mine) /\ Cardinality(mine) \in Nat
  BY <1>1, ClickFinite, FS_Subset, FS_CardinalityType
<1>3. ids \subseteq 0..MaxClicks
  BY <1>1, BoundAssumption DEF Click
<1>4. CASE mine = {}
  BY <1>2, <1>4, BoundAssumption DEF Latest
<1>5. CASE mine # {}
  <2>1. Latest(mine) = Max(ids) /\ ids # {}
    BY <1>5 DEF Latest
  <2>2. Max(ids) \in ids /\ \A x \in ids : Max(ids) >= x
    <3> HIDE DEF ids
    <3> QED
      BY <1>3, <2>1, MaxIsGreatest, BoundAssumption
  <2>3. \A c \in mine : c.id <= Latest(mine)
    BY <1>3, <2>1, <2>2
  <2> QED
    BY <1>2, <1>3, <2>1, <2>2, <2>3
<1> QED
  BY <1>4, <1>5

(* What the statement does to a counter and to a time: the new rows add up, *)
(* because they were not there, and the later time wins.                    *)
LEMMA OfMoreRows ==
    ASSUME NEW u \in Urls, NEW old \in SUBSET Click, NEW new \in SUBSET Click, old \cap new = {}
    PROVE  /\ Cardinality(Of(u, old \cup new))
                  = Cardinality(Of(u, old)) + Cardinality(Of(u, new))
           /\ Latest(Of(u, old \cup new)) = Max({Latest(Of(u, old)), Latest(Of(u, new))})
<1> DEFINE a == Of(u, old)
           b == Of(u, new)
           both == Of(u, old \cup new)
<1>1. both = a \cup b /\ a \cap b = {}
  BY DEF Of
<1>2. Cardinality(both) = Cardinality(a) + Cardinality(b)
  <2>1. Cardinality(a \cap b) = 0
    BY <1>1, FS_EmptySet
  <2>2. /\ IsFiniteSet(a) /\ Cardinality(a) \in Nat
        /\ IsFiniteSet(b) /\ Cardinality(b) \in Nat
    BY OfRows
  <2> HIDE DEF a, b, both
  <2>3. Cardinality(a \cup b) = Cardinality(a) + Cardinality(b) - Cardinality(a \cap b)
    BY <2>2, FS_Union
  <2> QED
    BY <1>1, <2>1, <2>2, <2>3
<1>3. /\ Latest(a) \in 0..MaxClicks /\ Latest(b) \in 0..MaxClicks
      /\ Latest(both) \in 0..MaxClicks
      /\ \A c \in a : c.id <= Latest(a)
      /\ \A c \in b : c.id <= Latest(b)
      /\ \A c \in both : c.id <= Latest(both)
      /\ a # {} => \E c \in a : c.id = Latest(a)
      /\ b # {} => \E c \in b : c.id = Latest(b)
      /\ both # {} => \E c \in both : c.id = Latest(both)
  BY OfRows
<1>4. /\ Max({Latest(a), Latest(b)}) \in {Latest(a), Latest(b)}
      /\ \A x \in {Latest(a), Latest(b)} : Max({Latest(a), Latest(b)}) >= x
  BY <1>3, MaxIsGreatest, BoundAssumption
<1>5. /\ a = {} => Latest(a) = 0
      /\ b = {} => Latest(b) = 0
      /\ both = {} => Latest(both) = 0
  BY DEF Latest
<1>6. \A c \in both : c \in Click /\ c.id \in Nat
  BY DEF Of, Click
<1> HIDE DEF a, b, both
<1>7. Latest(both) = Max({Latest(a), Latest(b)})
  BY <1>1, <1>3, <1>4, <1>5, <1>6
<1> QED
  BY <1>2, <1>7 DEF a, b, both

--------------------------------------------------------------------------------
(***************************************************************************)
(* Type correctness, for the three parts of the state.                     *)
(***************************************************************************)

LEMMA TypeParts == TypeOK <=> /\ ProducerTypes /\ QueueTypes /\ DatabaseTypes
                              /\ faults \in 0..MaxFaults
BY DEF TypeOK, ProducerTypes, QueueTypes, DatabaseTypes

LEMMA BufferFinite ==
    ASSUME ProducerTypes, NEW i \in Instances
    PROVE  /\ IsFiniteSet(buffer[i]) /\ Cardinality(buffer[i]) \in Nat
           /\ \A c : Cardinality(buffer[i] \cup {c}) \in 0..Cardinality(buffer[i]) + 1
<1>1. IsFiniteSet(buffer[i])
  BY ClickFinite, FS_Subset DEF ProducerTypes
<1>2. Cardinality(buffer[i]) \in Nat
  BY <1>1, FS_CardinalityType
<1> SUFFICES ASSUME NEW c PROVE Cardinality(buffer[i] \cup {c}) \in 0..Cardinality(buffer[i]) + 1
  BY <1>1, <1>2
<1>3. Cardinality(buffer[i] \cup {c})
         = IF c \in buffer[i] THEN Cardinality(buffer[i]) ELSE Cardinality(buffer[i]) + 1
  BY <1>1, FS_AddElement
<1> QED
  BY <1>2, <1>3

LEMMA FlushTypes ==
    ASSUME ProducerTypes, NEW i \in Instances, NEW clicks \in SUBSET Click, NEW final \in BOOLEAN,
           Flush(i, clicks, final), UNCHANGED maxBuffer
    PROVE  /\ DOMAIN buffer' = Instances /\ DOMAIN adding' = Instances
           /\ \A k \in Instances : /\ buffer'[k] \subseteq Click
                                   /\ Cardinality(buffer'[k]) <= maxBuffer'
                                   /\ \A e \in adding'[k] : e \in Add
<1>1. DOMAIN buffer = Instances /\ DOMAIN adding = Instances
  BY DEF ProducerTypes
<1>2. \A k \in Instances : buffer'[k] = IF k = i THEN {} ELSE buffer[k]
  BY <1>1 DEF Flush
<1>3. Cardinality({}) <= maxBuffer
  BY FS_EmptySet, SizesAssumption DEF ProducerTypes
<1>4. Added(clicks, final) \in Add
  BY DEF Added, Add
<1>5. \A k \in Instances : adding'[k] \subseteq adding[k] \cup {Added(clicks, final)}
  BY <1>1 DEF Flush
<1>6. DOMAIN buffer' = Instances /\ DOMAIN adding' = Instances
  BY <1>1 DEF Flush
<1> QED
  BY <1>2, <1>3, <1>4, <1>5, <1>6 DEF ProducerTypes

LEMMA RecordTypes ==
    ASSUME ProducerTypes, NEW i \in Instances, NEW u \in Urls, NEW bot \in BOOLEAN, Record(i, u, bot)
    PROVE  ProducerTypes'
<1> DEFINE click == [id |-> made + 1, url |-> u, bot |-> bot]
           held  == buffer[i] \cup {click}
<1>1. /\ made < MaxClicks /\ made' = made + 1 /\ UNCHANGED <<maxBuffer, phase, lost, abandoned>>
      /\ DOMAIN buffer = Instances /\ DOMAIN adding = Instances
      /\ maxBuffer \in Nat
  BY SizesAssumption DEF Record, ProducerTypes
<1>2. click \in Click /\ held \subseteq Click
  BY <1>1, BoundAssumption DEF ProducerTypes, Click
<1>3. made' \in 0..MaxClicks
  BY <1>1, BoundAssumption DEF ProducerTypes
<1> HIDE DEF click
<1>4. CASE Full(i) /\ dropped' = dropped \cup {click} /\ UNCHANGED <<buffer, adding>>
  BY <1>1, <1>2, <1>3, <1>4 DEF ProducerTypes
<1>5. CASE Flush(i, held, FALSE) /\ UNCHANGED dropped
  BY <1>1, <1>2, <1>3, <1>5, FlushTypes DEF ProducerTypes
<1>6. CASE ~Full(i) /\ buffer' = [buffer EXCEPT ![i] = held] /\ UNCHANGED <<adding, dropped>>
  <2>1. Cardinality(held) <= maxBuffer
    <3>1. Cardinality(buffer[i]) \in Nat /\ Cardinality(held) \in 0..Cardinality(buffer[i]) + 1
      BY BufferFinite
    <3> HIDE DEF held
    <3> QED
      BY <1>1, <1>6, <3>1 DEF Full
  <2>2. \A k \in Instances : buffer'[k] = IF k = i THEN held ELSE buffer[k]
    BY <1>1, <1>6
  <2>3. DOMAIN buffer' = Instances
    BY <1>1, <1>6
  <2> HIDE DEF held
  <2> QED
    BY <1>1, <1>2, <1>3, <1>6, <2>1, <2>2, <2>3 DEF ProducerTypes
<1> QED
  BY <1>4, <1>5, <1>6 DEF Record, click

LEMMA ProducerStep ==
    ASSUME Types, Next
    PROVE  ProducerTypes'
<1>0. ProducerTypes /\ DOMAIN buffer = Instances /\ DOMAIN adding = Instances
  BY TypeParts DEF Types, ProducerTypes
<1>1. ASSUME NEW i \in Instances, NEW u \in Urls, NEW bot \in BOOLEAN, Record(i, u, bot)
      PROVE  ProducerTypes'
  BY <1>0, <1>1, RecordTypes
<1>2. ASSUME NEW i \in Instances, TimerFires(i) PROVE ProducerTypes'
  BY <1>0, <1>2, FlushTypes DEF TimerFires, ProducerTypes
<1>3. ASSUME NEW i \in Instances, Stop(i) PROVE ProducerTypes'
  BY <1>0, <1>3, FlushTypes DEF Stop, ProducerTypes
<1>4. ASSUME NEW i \in Instances, Exit(i) \/ Kill(i) PROVE ProducerTypes'
  <2>1. Cardinality({}) <= maxBuffer
    BY <1>0, FS_EmptySet, SizesAssumption DEF ProducerTypes
  <2> DEFINE cut == UNION {e.batch : e \in Earlier(i)}
  <2>2. Held(i) \subseteq Click /\ cut \subseteq Click
    BY <1>0 DEF Held, Earlier, ProducerTypes, Add
  <2>3. /\ buffer' = [buffer EXCEPT ![i] = {}]
        /\ adding' = [adding EXCEPT ![i] = {}]
        /\ lost' = lost \/ lost' = lost \cup Held(i)
        /\ abandoned' = abandoned \/ abandoned' = abandoned \cup cut
        /\ phase' = [phase EXCEPT ![i] = "down"]
        /\ UNCHANGED <<maxBuffer, made, dropped>>
    BY <1>4 DEF Exit, Kill
  <2>4. \A k \in Instances : buffer'[k] \in {{}, buffer[k]} /\ adding'[k] \subseteq adding[k]
    BY <1>0, <2>3
  <2>5. DOMAIN buffer' = Instances /\ DOMAIN adding' = Instances
    BY <1>0, <2>3
  <2> QED
    BY <1>0, <2>1, <2>2, <2>3, <2>4, <2>5 DEF ProducerTypes
<1>5. ASSUME NEW i \in Instances, Start(i) PROVE ProducerTypes'
  BY <1>0, <1>5 DEF Start, ProducerTypes
<1>6. ASSUME NEW i \in Instances, NEW e \in adding[i],
             Enqueue(i, e) \/ EnqueueUnanswered(i, e) \/ Refuse(i, e)
      PROVE  ProducerTypes'
  <2>1. e \in Add /\ [e EXCEPT !.sent = TRUE] \in Add /\ e.batch \subseteq Click
    BY <1>0 DEF ProducerTypes, Add
  <2>2. /\ \/ adding' = [adding EXCEPT ![i] = @ \ {e}]
           \/ adding' = [adding EXCEPT ![i] = (@ \ {e}) \cup {[e EXCEPT !.sent = TRUE]}]
        /\ dropped' = dropped \/ dropped' = dropped \cup e.batch
        /\ UNCHANGED <<maxBuffer, phase, buffer, made, lost, abandoned>>
    BY <1>6 DEF Enqueue, EnqueueUnanswered, Refuse, Settled
  <2> DEFINE again == [e EXCEPT !.sent = TRUE]
  <2>3. again \in Add
    BY <2>1
  <2> HIDE DEF again
  <2>4. DOMAIN adding' = Instances /\ \A k \in Instances : adding'[k] \subseteq adding[k] \cup {again}
    BY <1>0, <2>2 DEF again
  <2> QED
    BY <1>0, <2>1, <2>2, <2>3, <2>4 DEF ProducerTypes
<1>7. ASSUME UNCHANGED producer PROVE ProducerTypes'
  BY <1>0, <1>7 DEF producer, ProducerTypes
<1>8. ASSUME NEW j \in jobs, Take(j) \/ Stall(j) PROVE UNCHANGED producer
  BY <1>8 DEF Take, Stall
<1>9. ASSUME NEW r \in runs, Process(r) \/ Complete(r) \/ Fail(r) \/ RunDies(r) PROVE UNCHANGED producer
  BY <1>9 DEF Process, Complete, Fail, RunDies, Finish
<1>10. ASSUME NEW u \in Urls, DeleteUrl(u) PROVE UNCHANGED producer
  BY <1>10 DEF DeleteUrl
<1> QED
  BY <1>1, <1>2, <1>3, <1>4, <1>5, <1>6, <1>7, <1>8, <1>9, <1>10 DEF Next

(* The job made by an add is a job, with its first attempt before it. *)
LEMMA NewJobType ==
    ASSUME Types, NEW batch \in SUBSET Click
    PROVE  /\ NewJob(batch) \in Job
           /\ NewJob(batch).batch = batch
           /\ NewJob(batch).state = "waiting" /\ NewJob(batch).tries = 0
<1>1. IsFiniteSet({j \in jobs : j.batch = batch})
  BY FS_Subset DEF Types
<1>2. Cardinality({j \in jobs : j.batch = batch}) \in Nat
  BY <1>1, FS_CardinalityType
<1> QED
  BY <1>2, JobAssumption DEF NewJob, Job

(* A step changes a job in place, or adds one: its batch and copy stay.    *)
LEMMA JobsMove ==
    ASSUME Types, Next
    PROVE  /\ IsFiniteSet(jobs')
           /\ \A k \in jobs' : /\ k \in Job
                               /\ k.state \in {"waiting", "active"} => k.tries < Attempts
           /\ \A j \in jobs : \E k \in jobs' : k.batch = j.batch
<1> DEFINE Fine(k) == k \in Job /\ (k.state \in {"waiting", "active"} => k.tries < Attempts)
<1> DEFINE Goal == /\ IsFiniteSet(jobs') /\ \A k \in jobs' : Fine(k)
                   /\ \A j \in jobs : \E k \in jobs' : k.batch = j.batch
<1>0. IsFiniteSet(jobs) /\ \A j \in jobs : Fine(j)
  BY TypeParts DEF Types, QueueTypes, AttemptLeft
<1>1. ASSUME NEW k, Fine(k), jobs' = jobs \cup {k} PROVE Goal
  BY <1>0, <1>1, FS_AddElement
<1>2. ASSUME NEW j \in jobs, NEW k, Fine(k), k.batch = j.batch, Becomes(j, k) PROVE Goal
  <2>1. jobs' = (jobs \ {j}) \cup {k}
    BY <1>2 DEF Becomes
  <2>2. IsFiniteSet(jobs \ {j})
    BY <1>0, FS_RemoveElement
  <2>3. IsFiniteSet(jobs')
    BY <2>1, <2>2, FS_AddElement
  <2> QED
    BY <1>0, <1>2, <2>1, <2>3
<1>3. ASSUME NEW f, jobs' = {f[j] : j \in jobs}, DOMAIN f = jobs,
             \A j \in jobs : Fine(f[j]) /\ f[j].batch = j.batch, f = [j \in jobs |-> f[j]]
      PROVE  Goal
  <2>1. f \in [jobs -> jobs'] /\ \A k \in jobs' : \E j \in jobs : f[j] = k
    BY <1>3
  <2>2. IsFiniteSet(jobs')
    BY <1>0, <2>1, Fun_IsSurj, FS_Surjection
  <2> QED
    BY <1>3, <2>1, <2>2
<1>4. ASSUME NEW i \in Instances, NEW e \in adding[i], Enqueue(i, e) \/ EnqueueUnanswered(i, e)
      PROVE  Goal
  <2>1. e.batch \in SUBSET Click
    BY TypeParts DEF Types, ProducerTypes, Add
  <2>2. Fine(NewJob(e.batch))
    BY <2>1, NewJobType, JobAssumption
  <2>3. jobs' = jobs \cup {NewJob(e.batch)}
    BY <1>4 DEF Enqueue, EnqueueUnanswered
  <2> HIDE DEF Goal, Fine
  <2> QED
    BY <1>1, <2>2, <2>3
<1>5. ASSUME NEW j \in jobs, Take(j) PROVE Goal
  <2> DEFINE k == [j EXCEPT !.state = "active"]
  <2>1. Fine(k) /\ k.batch = j.batch
    BY <1>0, <1>5 DEF Take, Job
  <2>2. Becomes(j, k)
    BY <1>5 DEF Take
  <2> HIDE DEF Goal, Fine, k
  <2> QED
    BY <1>2, <2>1, <2>2
<1>6. ASSUME NEW j \in jobs, Stall(j) PROVE Goal
  <2> DEFINE k == IF j.stalls < MaxStalls
                  THEN [j EXCEPT !.state = "waiting", !.stalls = @ + 1]
                  ELSE [j EXCEPT !.state = "failed"]
  <2>1. Fine(k) /\ k.batch = j.batch
    <3>1. j \in Job /\ j.state = "active" /\ j.tries < Attempts
      BY <1>0, <1>6 DEF Stall
    <3>2. CASE j.stalls < MaxStalls
      <4>1. j.stalls + 1 \in 0..MaxStalls
        BY <3>1, <3>2, JobAssumption DEF Job
      <4>2. k = [j EXCEPT !.state = "waiting", !.stalls = j.stalls + 1]
        BY <3>2
      <4> QED
        BY <3>1, <4>1, <4>2 DEF Job
    <3>3. CASE ~(j.stalls < MaxStalls)
      BY <3>1, <3>3 DEF Job
    <3> QED
      BY <3>2, <3>3
  <2>2. Becomes(j, k)
    BY <1>6 DEF Stall
  <2> HIDE DEF Goal, Fine, k
  <2> QED
    BY <1>2, <2>1, <2>2
<1>7. ASSUME NEW r \in runs, Complete(r) PROVE Goal
  <2> DEFINE f == [j \in jobs |-> IF Locks(r, j) THEN [j EXCEPT !.state = "done"] ELSE j]
  <2>1. \A j \in jobs : Fine(f[j]) /\ f[j].batch = j.batch
    BY <1>0 DEF Job
  <2>2. jobs' = {f[j] : j \in jobs}
    BY <1>7 DEF Complete
  <2>3. DOMAIN f = jobs /\ f = [j \in jobs |-> f[j]]
    OBVIOUS
  <2> HIDE DEF Goal, Fine, f
  <2> QED
    BY <1>3, <2>1, <2>2, <2>3
<1>8. ASSUME NEW r \in runs, Fail(r) PROVE Goal
  <2> DEFINE f == [j \in jobs |-> IF Locks(r, j) THEN Retried(j) ELSE j]
  <2>1. \A j \in jobs : Locks(r, j) => Fine(Retried(j)) /\ Retried(j).batch = j.batch
    <3> SUFFICES ASSUME NEW j \in jobs, Locks(r, j)
                 PROVE  Fine(Retried(j)) /\ Retried(j).batch = j.batch
      OBVIOUS
    <3>1. j \in Job /\ j.state = "active" /\ j.tries < Attempts
      BY <1>0 DEF Locks
    <3>2. j.tries \in Nat /\ j.tries + 1 \in 0..Attempts
      BY <3>1, JobAssumption DEF Job
    <3>3. CASE j.tries + 1 < Attempts
      <4>1. Retried(j) = [j EXCEPT !.tries = j.tries + 1, !.state = "waiting"]
        BY <3>3 DEF Retried
      <4> QED
        BY <3>1, <3>2, <3>3, <4>1 DEF Job
    <3>4. CASE ~(j.tries + 1 < Attempts)
      <4>1. Retried(j) = [j EXCEPT !.tries = j.tries + 1, !.state = "failed"]
        BY <3>4 DEF Retried
      <4> QED
        BY <3>1, <3>2, <4>1 DEF Job
    <3> QED
      BY <3>3, <3>4
  <2>2. \A j \in jobs : Fine(f[j]) /\ f[j].batch = j.batch
    BY <1>0, <2>1
  <2>3. jobs' = {f[j] : j \in jobs}
    BY <1>8 DEF Fail
  <2>4. DOMAIN f = jobs /\ f = [j \in jobs |-> f[j]]
    OBVIOUS
  <2> HIDE DEF Goal, Fine, f
  <2> QED
    BY <1>3, <2>2, <2>3, <2>4
<1>9. ASSUME UNCHANGED jobs PROVE Goal
  BY <1>0, <1>9
<1>10. ASSUME NEW i \in Instances PROVE
       /\ \A u \in Urls, bot \in BOOLEAN : Record(i, u, bot) => UNCHANGED jobs
       /\ TimerFires(i) \/ Stop(i) \/ Exit(i) \/ Kill(i) \/ Start(i) => UNCHANGED jobs
       /\ \A e \in adding[i] : Refuse(i, e) => UNCHANGED jobs
  BY DEF Record, TimerFires, Stop, Exit, Kill, Start, Refuse, queue
<1>11. \A r \in runs : Process(r) \/ RunDies(r) => UNCHANGED jobs
  BY DEF Process, RunDies
<1>12. \A u \in Urls : DeleteUrl(u) => UNCHANGED jobs
  BY DEF DeleteUrl, queue
<1> HIDE DEF Goal
<1>13. Goal
  BY <1>4, <1>5, <1>6, <1>7, <1>8, <1>9, <1>10, <1>11, <1>12 DEF Next
<1> QED
  BY <1>13 DEF Goal

(* Every step keeps the types of the runs. *)
LEMMA RunsStep ==
    ASSUME Types, Next
    PROVE  \A r \in runs' : r \in Run
<1>0. (\A j \in jobs : j \in Job) /\ (\A r \in runs : r \in Run)
  BY TypeParts DEF Types, QueueTypes
<1>1. ASSUME NEW j \in jobs, Take(j) PROVE \A r \in runs' : r \in Run
  <2>1. [batch |-> j.batch, copy |-> j.copy, token |-> j.stalls, committed |-> FALSE] \in Run
    BY <1>0 DEF Job, Run
  <2> QED
    BY <1>0, <1>1, <2>1 DEF Take
<1>2. ASSUME NEW r \in runs, Process(r) PROVE \A q \in runs' : q \in Run
  <2>1. [r EXCEPT !.committed = TRUE] \in Run
    BY <1>0 DEF Run
  <2> QED
    BY <1>0, <1>2, <2>1 DEF Process
<1>3. ASSUME runs' \subseteq runs PROVE \A r \in runs' : r \in Run
  BY <1>0, <1>3
<1>4. \A j \in jobs : Stall(j) => runs' \subseteq runs
  BY DEF Stall
<1>5. \A r \in runs : Complete(r) \/ Fail(r) \/ RunDies(r) => runs' \subseteq runs
  BY DEF Complete, Fail, RunDies, Finish
<1>6. ASSUME NEW i \in Instances PROVE
       /\ \A u \in Urls, bot \in BOOLEAN : Record(i, u, bot) => runs' \subseteq runs
       /\ TimerFires(i) \/ Stop(i) \/ Exit(i) \/ Kill(i) \/ Start(i) => runs' \subseteq runs
       /\ \A e \in adding[i] : Enqueue(i, e) \/ EnqueueUnanswered(i, e) \/ Refuse(i, e)
                               => runs' \subseteq runs
  BY DEF Record, TimerFires, Stop, Exit, Kill, Start, Enqueue, EnqueueUnanswered, Refuse, queue
<1>7. \A u \in Urls : DeleteUrl(u) => runs' \subseteq runs
  BY DEF DeleteUrl, queue
<1> QED
  BY <1>1, <1>2, <1>3, <1>4, <1>5, <1>6, <1>7 DEF Next

(* What a step does to the tables: the statement of a run, a delete, or nothing. *)
LEMMA DatabaseMoves ==
    ASSUME Next
    PROVE  \/ \E r \in runs : Process(r)
           \/ \E u \in Urls : DeleteUrl(u)
           \/ UNCHANGED database
<1>1. ASSUME NEW i \in Instances PROVE
       /\ \A u \in Urls, bot \in BOOLEAN : Record(i, u, bot) => UNCHANGED database
       /\ TimerFires(i) \/ Stop(i) \/ Exit(i) \/ Kill(i) \/ Start(i) => UNCHANGED database
       /\ \A e \in adding[i] : Enqueue(i, e) \/ EnqueueUnanswered(i, e) \/ Refuse(i, e)
                               => UNCHANGED database
  BY DEF Record, TimerFires, Stop, Exit, Kill, Start, Enqueue, EnqueueUnanswered, Refuse
<1>2. \A j \in jobs : Take(j) \/ Stall(j) => UNCHANGED database
  BY DEF Take, Stall
<1>3. \A r \in runs : Complete(r) \/ Fail(r) \/ RunDies(r) => UNCHANGED database
  BY DEF Complete, Fail, RunDies, Finish
<1> QED
  BY <1>1, <1>2, <1>3 DEF Next

(* What the statement does, link by link. *)
LEMMA StoreMoves ==
    ASSUME Types, NEW r \in runs, Process(r)
    PROVE  /\ Inserted(r.batch) \subseteq Click /\ Inserted(r.batch) \cap rows = {}
           /\ rows' = rows \cup Inserted(r.batch) /\ urls' = urls
           /\ count' = [u \in Urls |-> count[u] + Cardinality(Of(u, Inserted(r.batch)))]
           /\ last' = [u \in Urls |-> Max({last[u], Latest(Of(u, Inserted(r.batch)))})]
<1>1. r.batch \subseteq Click
  BY TypeParts DEF Types, QueueTypes, Run
<1> QED
  BY <1>1 DEF Process, Store, Inserted

LEMMA DatabaseStep ==
    ASSUME Types, Next
    PROVE  DatabaseTypes'
<1>0. DatabaseTypes
  BY TypeParts DEF Types
<1>1. ASSUME NEW r \in runs, Process(r) PROVE DatabaseTypes'
  <2> DEFINE new == Inserted(r.batch)
  <2>1. /\ new \subseteq Click /\ rows' = rows \cup new /\ urls' = urls
        /\ count' = [u \in Urls |-> count[u] + Cardinality(Of(u, new))]
        /\ last' = [u \in Urls |-> Max({last[u], Latest(Of(u, new))})]
    BY <1>1, StoreMoves
  <2> HIDE DEF new
  <2>2. \A u \in Urls : Cardinality(Of(u, new)) \in Nat /\ Latest(Of(u, new)) \in 0..MaxClicks
    BY <2>1, OfRows
  <2>3. count' \in [Urls -> Nat]
    BY <1>0, <2>1, <2>2 DEF DatabaseTypes
  <2>4. ASSUME NEW u \in Urls PROVE Max({last[u], Latest(Of(u, new))}) \in 0..MaxClicks
    <3>1. {last[u], Latest(Of(u, new))} \subseteq 0..MaxClicks
      BY <1>0, <2>2 DEF DatabaseTypes
    <3> QED
      BY <3>1, MaxIsGreatest, BoundAssumption
  <2>5. last' \in [Urls -> 0..MaxClicks]
    BY <2>1, <2>4
  <2> QED
    BY <1>0, <2>1, <2>3, <2>5 DEF DatabaseTypes
<1>2. ASSUME NEW u \in Urls, DeleteUrl(u) PROVE DatabaseTypes'
  BY <1>0, <1>2, BoundAssumption DEF DeleteUrl, DatabaseTypes
<1>3. ASSUME UNCHANGED database PROVE DatabaseTypes'
  BY <1>0, <1>3 DEF database, DatabaseTypes
<1> QED
  BY <1>1, <1>2, <1>3, DatabaseMoves

LEMMA FaultsStep == ASSUME Types, Next PROVE faults' \in 0..MaxFaults
<1>0. faults \in 0..MaxFaults
  BY DEF Types, TypeOK
<1>1. Fault => faults' \in 0..MaxFaults
  BY <1>0, BoundAssumption DEF Fault
<1>2. ASSUME NEW i \in Instances PROVE
       /\ \A u \in Urls, bot \in BOOLEAN : Record(i, u, bot) => UNCHANGED faults
       /\ TimerFires(i) \/ Stop(i) \/ Start(i) => UNCHANGED faults
       /\ Exit(i) => Fault \/ UNCHANGED faults
       /\ Kill(i) => Fault
       /\ \A e \in adding[i] : /\ Enqueue(i, e) \/ Refuse(i, e) => UNCHANGED faults
                               /\ EnqueueUnanswered(i, e) => Fault
  BY DEF Record, TimerFires, Stop, Exit, Kill, Start, Enqueue, EnqueueUnanswered, Refuse
<1>3. \A j \in jobs : Take(j) \/ Stall(j) => Fault \/ UNCHANGED faults
  BY DEF Take, Stall
<1>4. \A r \in runs : /\ Process(r) \/ Complete(r) \/ Fail(r) => UNCHANGED faults
                      /\ RunDies(r) => Fault
  BY DEF Process, Complete, Fail, RunDies, Finish
<1>5. \A u \in Urls : DeleteUrl(u) => UNCHANGED faults
  BY DEF DeleteUrl
<1> QED
  BY <1>0, <1>1, <1>2, <1>3, <1>4, <1>5 DEF Next

LEMMA TypesStep == Types /\ [Next]_vars => Types'
<1>1. ASSUME Types, Next PROVE Types'
  <2>1. ProducerTypes' /\ DatabaseTypes' /\ faults' \in 0..MaxFaults
    BY <1>1, ProducerStep, DatabaseStep, FaultsStep
  <2>2. IsFiniteSet(jobs') /\ QueueTypes' /\ AttemptLeft'
    BY <1>1, JobsMove, RunsStep DEF QueueTypes, AttemptLeft
  <2>3. TypeOK'
    BY <2>1, <2>2, TypeParts DEF TypeOK, ProducerTypes, QueueTypes, DatabaseTypes
  <2> QED
    BY <2>2, <2>3 DEF Types
<1>2. ASSUME Types, UNCHANGED vars PROVE Types'
  BY <1>2 DEF Types, TypeOK, AttemptLeft, vars, producer, queue, database
<1> QED
  BY <1>1, <1>2

LEMMA InitIInv == Init => IInv
<1> SUFFICES ASSUME Init PROVE IInv
  OBVIOUS
<1>1. ProducerTypes
  <2>1. Cardinality({}) = 0 /\ \A n \in MaxBuffers : 0 <= n
    BY FS_EmptySet, SizesAssumption
  <2> QED
    BY <2>1, BoundAssumption DEF Init, ProducerTypes
<1>2. QueueTypes /\ AttemptLeft /\ IsFiniteSet(jobs)
  BY FS_EmptySet DEF Init, QueueTypes, AttemptLeft
<1>3. DatabaseTypes
  BY BoundAssumption DEF Init, DatabaseTypes
<1>4. Types
  BY <1>1, <1>2, <1>3, TypeParts, BoundAssumption DEF Init, Types
<1>5. Committed /\ Flushed /\ Accounted
  BY DEF Init, Committed, Flushed, Accounted
<1>6. CountsAreExact
  <2>1. \A u \in Urls : Of(u, rows) = {}
    BY DEF Init, Of
  <2>2. \A u \in urls : u \in Urls /\ count[u] = 0 /\ last[u] = 0
    BY DEF Init
  <2> QED
    BY <2>1, <2>2, FS_EmptySet DEF CountsAreExact, Latest
<1> QED
  BY <1>4, <1>5, <1>6 DEF IInv

--------------------------------------------------------------------------------
(***************************************************************************)
(* The counters.                                                           *)
(***************************************************************************)

LEMMA ExactStep == Types /\ CountsAreExact /\ [Next]_vars => CountsAreExact'
<1> SUFFICES ASSUME Types, CountsAreExact, [Next]_vars PROVE CountsAreExact'
  OBVIOUS
<1>0. DatabaseTypes
  BY TypeParts DEF Types
<1>1. ASSUME NEW r \in runs, Process(r) PROVE CountsAreExact'
  <2> DEFINE new == Inserted(r.batch)
  <2>1. /\ new \subseteq Click /\ new \cap rows = {} /\ rows' = rows \cup new /\ urls' = urls
        /\ count' = [u \in Urls |-> count[u] + Cardinality(Of(u, new))]
        /\ last' = [u \in Urls |-> Max({last[u], Latest(Of(u, new))})]
    BY <1>1, StoreMoves
  <2> HIDE DEF new
  <2> SUFFICES ASSUME NEW u \in urls
               PROVE  count'[u] = Cardinality(Of(u, rows')) /\ last'[u] = Latest(Of(u, rows'))
    BY <2>1 DEF CountsAreExact, Of, Latest
  <2>2. u \in Urls /\ rows \subseteq Click
    BY <1>0 DEF DatabaseTypes
  <2>3. count[u] = Cardinality(Of(u, rows)) /\ last[u] = Latest(Of(u, rows))
    BY DEF CountsAreExact
  <2>4. /\ Cardinality(Of(u, rows \cup new)) = Cardinality(Of(u, rows)) + Cardinality(Of(u, new))
        /\ Latest(Of(u, rows \cup new)) = Max({Latest(Of(u, rows)), Latest(Of(u, new))})
    BY <2>1, <2>2, OfMoreRows
  <2>5. /\ count'[u] = count[u] + Cardinality(Of(u, new))
        /\ last'[u] = Max({last[u], Latest(Of(u, new))})
    BY <2>1, <2>2
  <2> QED
    BY <2>1, <2>3, <2>4, <2>5
<1>2. ASSUME NEW d \in Urls, DeleteUrl(d) PROVE CountsAreExact'
  <2> SUFFICES ASSUME NEW u \in urls \ {d}
               PROVE  count'[u] = Cardinality(Of(u, rows')) /\ last'[u] = Latest(Of(u, rows'))
    BY <1>2 DEF DeleteUrl, CountsAreExact, Of, Latest
  <2>1. Of(u, rows') = Of(u, rows)
    BY <1>2 DEF DeleteUrl, Of
  <2>2. count'[u] = count[u] /\ last'[u] = last[u]
    BY <1>0, <1>2 DEF DeleteUrl, DatabaseTypes
  <2> QED
    BY <2>1, <2>2 DEF CountsAreExact
<1>3. ASSUME UNCHANGED database PROVE CountsAreExact'
  BY <1>3 DEF database, CountsAreExact, Of, Latest
<1>4. UNCHANGED vars => UNCHANGED database
  BY DEF vars
<1> QED
  BY <1>1, <1>2, <1>3, <1>4, DatabaseMoves

--------------------------------------------------------------------------------
(***************************************************************************)
(* No click is forgotten.                                                  *)
(***************************************************************************)

(* A click for which nothing is left to do stays one. *)
LEMMA StoredStays ==
    ASSUME Next, NEW c, Stored(c)
    PROVE  Stored(c)'
<1>1. \A r \in runs : Process(r) => Stored(c)'
  BY DEF Process, Store, Stored
<1>2. \A u \in Urls : DeleteUrl(u) => Stored(c)'
  BY DEF DeleteUrl, Stored
<1>3. UNCHANGED database => Stored(c)'
  BY DEF database, Stored
<1> QED
  BY <1>1, <1>2, <1>3, DatabaseMoves

(* A job is done after a step only if it was, or the run that completes it *)
(* has committed the job's batch.                                          *)
LEMMA DoneMoves ==
    ASSUME Types, Next, NEW k \in jobs', k.state = "done"
    PROVE  \/ k \in jobs
           \/ \E r \in runs : r.committed /\ r.batch = k.batch
<1>0. \A j \in jobs : j \in Job
  BY TypeParts DEF Types, QueueTypes
<1> DEFINE Goal == k \in jobs \/ \E r \in runs : r.committed /\ r.batch = k.batch
<1>1. ASSUME NEW i \in Instances, NEW e \in adding[i], Enqueue(i, e) \/ EnqueueUnanswered(i, e)
      PROVE  Goal
  <2>1. NewJob(e.batch).state = "waiting"
    BY DEF NewJob
  <2> QED
    BY <1>1, <2>1 DEF Enqueue, EnqueueUnanswered
<1>2. ASSUME NEW j \in jobs, Take(j) \/ Stall(j) PROVE Goal
  <2>1. j \in Job
    BY <1>0
  <2>2. jobs' \subseteq jobs \cup {[j EXCEPT !.state = "active"],
                                   [j EXCEPT !.state = "waiting", !.stalls = j.stalls + 1],
                                   [j EXCEPT !.state = "failed"]}
    BY <1>2 DEF Take, Stall, Becomes
  <2> QED
    BY <2>1, <2>2 DEF Job
<1>3. ASSUME NEW r \in runs, Complete(r) PROVE Goal
  <2>1. PICK j \in jobs : k = IF Locks(r, j) THEN [j EXCEPT !.state = "done"] ELSE j
    BY <1>3 DEF Complete
  <2>2. j \in Job /\ r.committed
    BY <1>0, <1>3 DEF Complete
  <2> QED
    BY <2>1, <2>2 DEF Locks, Job
<1>4. ASSUME NEW r \in runs, Fail(r) PROVE Goal
  <2>1. PICK j \in jobs : k = IF Locks(r, j) THEN Retried(j) ELSE j
    BY <1>4 DEF Fail
  <2>2. Retried(j).state # "done"
    BY <1>0 DEF Retried, Job
  <2> QED
    BY <2>1, <2>2
<1>5. ASSUME NEW i \in Instances PROVE
       /\ \A u \in Urls, bot \in BOOLEAN : Record(i, u, bot) => UNCHANGED jobs
       /\ TimerFires(i) \/ Stop(i) \/ Exit(i) \/ Kill(i) \/ Start(i) => UNCHANGED jobs
       /\ \A e \in adding[i] : Refuse(i, e) => UNCHANGED jobs
  BY DEF Record, TimerFires, Stop, Exit, Kill, Start, Refuse, queue
<1>6. \A r \in runs : Process(r) \/ RunDies(r) => UNCHANGED jobs
  BY DEF Process, RunDies
<1>7. \A u \in Urls : DeleteUrl(u) => UNCHANGED jobs
  BY DEF DeleteUrl, queue
<1> QED
  BY <1>1, <1>2, <1>3, <1>4, <1>5, <1>6, <1>7 DEF Next

(* A run has committed after a step only if it had, or it is the step. *)
LEMMA CommittedMoves ==
    ASSUME Types, Next, NEW q \in runs', q.committed
    PROVE  \/ q \in runs
           \/ \E r \in runs : Process(r) /\ q.batch = r.batch
<1>0. \A r \in runs : r \in Run
  BY TypeParts DEF Types, QueueTypes
<1>1. ASSUME NEW j \in jobs, Take(j) PROVE q \in runs
  BY <1>1 DEF Take
<1>2. ASSUME NEW r \in runs, Process(r) PROVE q \in runs \/ q.batch = r.batch
  BY <1>0, <1>2 DEF Process, Run
<1>3. \A j \in jobs : Stall(j) => runs' \subseteq runs
  BY DEF Stall
<1>4. \A r \in runs : Complete(r) \/ Fail(r) \/ RunDies(r) => runs' \subseteq runs
  BY DEF Complete, Fail, RunDies, Finish
<1>5. ASSUME NEW i \in Instances PROVE
       /\ \A u \in Urls, bot \in BOOLEAN : Record(i, u, bot) => runs' \subseteq runs
       /\ TimerFires(i) \/ Stop(i) \/ Exit(i) \/ Kill(i) \/ Start(i) => runs' \subseteq runs
       /\ \A e \in adding[i] : Enqueue(i, e) \/ EnqueueUnanswered(i, e) \/ Refuse(i, e)
                               => runs' \subseteq runs
  BY DEF Record, TimerFires, Stop, Exit, Kill, Start, Enqueue, EnqueueUnanswered, Refuse, queue
<1>6. \A u \in Urls : DeleteUrl(u) => runs' \subseteq runs
  BY DEF DeleteUrl, queue
<1> QED
  BY <1>1, <1>2, <1>3, <1>4, <1>5, <1>6 DEF Next

LEMMA CommittedStep == Types /\ Committed /\ [Next]_vars => Committed'
<1>1. ASSUME Types, Committed, Next PROVE Committed'
  <2>1. ASSUME NEW q \in runs', q.committed, NEW c \in q.batch PROVE Stored(c)'
    <3>1. CASE q \in runs
      BY <1>1, <2>1, <3>1, StoredStays DEF Committed
    <3>2. CASE \E r \in runs : Process(r) /\ q.batch = r.batch
      BY <2>1, <3>2 DEF Process, Store, Inserted, Stored
    <3> QED
      BY <1>1, <2>1, <3>1, <3>2, CommittedMoves
  <2>2. ASSUME NEW k \in jobs', k.state = "done", NEW c \in k.batch PROVE Stored(c)'
    <3>1. Stored(c)
      BY <1>1, <2>2, DoneMoves DEF Committed
    <3> QED
      BY <1>1, <3>1, StoredStays
  <2> QED
    BY <2>1, <2>2 DEF Committed
<1>2. ASSUME Committed, UNCHANGED vars PROVE Committed'
  BY <1>2 DEF Committed, Stored, vars, producer, queue, database
<1> QED
  BY <1>1, <1>2

(* A step of an API process keeps its clicks: they go from the buffer to a  *)
(* call of enqueue(), from there to a job, or are counted.                  *)
LEMMA ProducerKeeps ==
    ASSUME Types, Flushed, NEW i \in Instances, NEW c, Known(c),
           \/ \E u \in Urls, bot \in BOOLEAN : Record(i, u, bot)
           \/ TimerFires(i) \/ Stop(i) \/ Exit(i) \/ Kill(i) \/ Start(i)
           \/ \E e \in adding[i] : Enqueue(i, e) \/ EnqueueUnanswered(i, e) \/ Refuse(i, e)
    PROVE  Known(c)'
<1>0. DOMAIN buffer = Instances /\ DOMAIN adding = Instances
  BY DEF Types, TypeOK
<1>1. ASSUME NEW clicks, NEW final, buffer[i] \subseteq clicks, Flush(i, clicks, final),
             UNCHANGED <<jobs, lost, abandoned>>, dropped \subseteq dropped'
      PROVE  Known(c)'
  <2> DEFINE add == Added(clicks, final)
  <2>1. add.batch = clicks
    BY DEF Added
  <2> HIDE DEF add
  <2>2. CASE clicks # {}
    <3>1. /\ \A k \in Instances \ {i} : buffer'[k] = buffer[k]
          /\ adding' = [adding EXCEPT ![i] = @ \cup {add}]
      BY <1>0, <1>1, <2>2 DEF Flush, add
    <3>2. /\ \A k \in Instances : adding[k] \subseteq adding'[k]
          /\ add \in adding'[i]
      BY <1>0, <3>1
    <3> QED
      BY <1>1, <2>1, <3>1, <3>2 DEF Known
  <2>3. CASE clicks = {}
    <3>1. \A k \in Instances : adding'[k] = adding[k] /\ buffer[k] \subseteq buffer'[k]
      BY <1>0, <1>1, <2>3 DEF Flush
    <3> QED
      BY <1>1, <3>1 DEF Known
  <2> QED
    BY <2>2, <2>3
<1>2. ASSUME NEW u \in Urls, NEW bot \in BOOLEAN, Record(i, u, bot) PROVE Known(c)'
  <2> DEFINE click == [id |-> made + 1, url |-> u, bot |-> bot]
             held  == buffer[i] \cup {click}
  <2>1. UNCHANGED <<jobs, lost, abandoned>> /\ dropped \subseteq dropped'
    BY <1>2 DEF Record, queue
  <2>2. \/ UNCHANGED <<buffer, adding>>
        \/ Flush(i, held, FALSE)
        \/ buffer' = [buffer EXCEPT ![i] = held] /\ UNCHANGED adding
    BY <1>2 DEF Record
  <2> HIDE DEF click
  <2>3. CASE UNCHANGED <<buffer, adding>>
    BY <2>1, <2>3 DEF Known
  <2>4. CASE Flush(i, held, FALSE)
    BY <1>1, <2>1, <2>4
  <2>5. CASE buffer' = [buffer EXCEPT ![i] = held] /\ UNCHANGED adding
    <3>1. \A k \in Instances : buffer[k] \subseteq buffer'[k]
      BY <1>0, <2>5
    <3> QED
      BY <2>1, <2>5, <3>1 DEF Known
  <2> QED
    BY <2>2, <2>3, <2>4, <2>5
<1>3. CASE TimerFires(i)
  BY <1>1, <1>3 DEF TimerFires, queue
<1>4. CASE Stop(i)
  BY <1>1, <1>4 DEF Stop, queue
<1>5. CASE Exit(i)
  <2>1. /\ \A k \in Instances : buffer'[k] = buffer[k]
        /\ \A k \in Instances \ {i} : adding'[k] = adding[k]
        /\ abandoned' = abandoned \cup UNION {e.batch : e \in adding[i]}
        /\ UNCHANGED <<jobs, dropped, lost>>
    BY <1>0, <1>5 DEF Exit, Flushed, queue
  <2>2. (\E e \in adding[i] : c \in e.batch) => c \in abandoned'
    BY <2>1
  <2> QED
    BY <2>1, <2>2 DEF Known
<1>6. CASE Kill(i)
  <2>1. /\ \A k \in Instances \ {i} : buffer'[k] = buffer[k] /\ adding'[k] = adding[k]
        /\ lost' = lost \cup Held(i) /\ UNCHANGED <<jobs, dropped, abandoned>>
    BY <1>0, <1>6 DEF Kill, queue
  <2>2. c \in buffer[i] \/ (\E e \in adding[i] : c \in e.batch) => c \in lost'
    BY <2>1 DEF Held
  <2> QED
    BY <2>1, <2>2 DEF Known
<1>7. CASE Start(i)
  BY <1>7 DEF Start, Known, queue
<1>8. ASSUME NEW e \in adding[i], Enqueue(i, e) \/ EnqueueUnanswered(i, e) \/ Refuse(i, e)
      PROVE  Known(c)'
  <2>1. /\ \A k \in Instances : adding[k] \ {e} \subseteq adding'[k]
        /\ UNCHANGED <<buffer, lost, abandoned>> /\ dropped \subseteq dropped' /\ jobs \subseteq jobs'
    BY <1>0, <1>8 DEF Enqueue, EnqueueUnanswered, Refuse, Settled, queue
  <2>2. c \in e.batch => c \in dropped' \/ \E j \in jobs' : c \in j.batch
    <3>1. e.batch \in SUBSET Click
      BY TypeParts DEF Types, ProducerTypes, Add
    <3> QED
      BY <1>8, <3>1, NewJobType DEF Enqueue, EnqueueUnanswered, Refuse
  <2> QED
    BY <2>1, <2>2 DEF Known
<1> QED
  BY <1>2, <1>3, <1>4, <1>5, <1>6, <1>7, <1>8

(* No step forgets a click. *)
LEMMA KnownStays ==
    ASSUME Types, Flushed, Next, NEW c, Known(c)
    PROVE  Known(c)'
<1>1. ASSUME UNCHANGED producer PROVE Known(c)'
  <2>1. \A j \in jobs : \E k \in jobs' : k.batch = j.batch
    BY JobsMove
  <2> QED
    BY <1>1, <2>1 DEF Known, producer
<1>2. \A j \in jobs : Take(j) \/ Stall(j) => UNCHANGED producer
  BY DEF Take, Stall
<1>3. \A r \in runs : Process(r) \/ Complete(r) \/ Fail(r) \/ RunDies(r) => UNCHANGED producer
  BY DEF Process, Complete, Fail, RunDies, Finish
<1>4. \A u \in Urls : DeleteUrl(u) => UNCHANGED producer
  BY DEF DeleteUrl
<1> QED
  BY <1>1, <1>2, <1>3, <1>4, ProducerKeeps DEF Next

LEMMA FlushedStep == Types /\ Flushed /\ [Next]_vars => Flushed'
<1> SUFFICES ASSUME Types, Flushed, [Next]_vars PROVE Flushed'
  OBVIOUS
<1>0. DOMAIN buffer = Instances /\ phase \in [Instances -> {"up", "stopping", "down"}]
  BY DEF Types, TypeOK
<1>1. ASSUME NEW i \in Instances, NEW u \in Urls, NEW bot \in BOOLEAN, Record(i, u, bot)
      PROVE  Flushed'
  <2>1. phase[i] = "up" /\ phase' = phase
    BY <1>1 DEF Record
  <2>2. \A k \in Instances \ {i} : buffer'[k] = buffer[k]
    BY <1>0, <1>1 DEF Record, Flush
  <2> QED
    BY <2>1, <2>2 DEF Flushed
<1>2. ASSUME NEW i \in Instances, TimerFires(i) \/ Stop(i) \/ Exit(i) \/ Kill(i)
      PROVE  Flushed'
  <2>1. \A k \in Instances : k # i => phase'[k] = phase[k]
    BY <1>0, <1>2 DEF TimerFires, Stop, Exit, Kill
  <2>2. buffer' = [buffer EXCEPT ![i] = {}]
    BY <1>2 DEF TimerFires, Stop, Exit, Kill, Flush
  <2> QED
    BY <1>0, <2>1, <2>2 DEF Flushed
<1>3. ASSUME NEW i \in Instances, Start(i) PROVE Flushed'
  BY <1>0, <1>3 DEF Start, Flushed
<1>4. ASSUME UNCHANGED <<phase, buffer>> PROVE Flushed'
  BY <1>4 DEF Flushed
<1>5. ASSUME NEW i \in Instances, NEW e \in adding[i],
             Enqueue(i, e) \/ EnqueueUnanswered(i, e) \/ Refuse(i, e)
      PROVE  UNCHANGED <<phase, buffer>>
  BY <1>5 DEF Enqueue, EnqueueUnanswered, Refuse
<1>6. \A j \in jobs : Take(j) \/ Stall(j) => UNCHANGED <<phase, buffer>>
  BY DEF Take, Stall, producer
<1>7. \A r \in runs : Process(r) \/ Complete(r) \/ Fail(r) \/ RunDies(r)
                      => UNCHANGED <<phase, buffer>>
  BY DEF Process, Complete, Fail, RunDies, Finish, producer
<1>8. \A u \in Urls : DeleteUrl(u) => UNCHANGED <<phase, buffer>>
  BY DEF DeleteUrl, producer
<1>9. UNCHANGED vars => UNCHANGED <<phase, buffer>>
  BY DEF vars, producer
<1> QED
  BY <1>1, <1>2, <1>3, <1>4, <1>5, <1>6, <1>7, <1>8, <1>9 DEF Next

(* A click that is made is known at once: in the buffer, in the call of     *)
(* enqueue() that empties it, or counted as dropped.                        *)
LEMMA RecordKnown ==
    ASSUME Types, NEW i \in Instances, NEW u \in Urls, NEW bot \in BOOLEAN, Record(i, u, bot)
    PROVE  made' = made + 1 /\ \E c \in Click : c.id = made + 1 /\ Known(c)'
<1> DEFINE click == [id |-> made + 1, url |-> u, bot |-> bot]
           held  == buffer[i] \cup {click}
           add   == Added(held, FALSE)
<1>0. DOMAIN buffer = Instances /\ DOMAIN adding = Instances
  BY DEF Types, TypeOK
<1>1. click \in Click /\ click.id = made + 1 /\ made' = made + 1
  BY BoundAssumption DEF Record, Types, TypeOK, Click
<1>2. \/ dropped' = dropped \cup {click}
      \/ Flush(i, held, FALSE)
      \/ buffer' = [buffer EXCEPT ![i] = held]
  BY DEF Record
<1> HIDE DEF click
<1>3. click \in held /\ held # {} /\ add.batch = held
  BY DEF Added
<1>4. Flush(i, held, FALSE) => add \in adding'[i]
  BY <1>0, <1>3 DEF Flush
<1> HIDE DEF add, held
<1>5. PICK c \in Click : c = click
  BY <1>1
<1>6. Known(c)'
  <2>1. CASE dropped' = dropped \cup {click}
    BY <1>5, <2>1 DEF Known
  <2>2. CASE Flush(i, held, FALSE)
    <3>1. PICK e \in adding'[i] : e.batch = held
      BY <1>3, <1>4, <2>2
    <3> QED
      BY <1>3, <1>5, <3>1 DEF Known
  <2>3. CASE buffer' = [buffer EXCEPT ![i] = held]
    <3>1. c \in buffer'[i]
      BY <1>0, <1>3, <1>5, <2>3
    <3> QED
      BY <3>1 DEF Known
  <2> QED
    BY <1>2, <2>1, <2>2, <2>3
<1> QED
  BY <1>1, <1>5, <1>6

LEMMA AccountedStep == Types /\ Flushed /\ Accounted /\ [Next]_vars => Accounted'
<1>1. ASSUME Types, Flushed, Accounted, Next PROVE Accounted'
  <2>1. ASSUME NEW n \in 1..made PROVE \E c \in Click : c.id = n /\ Known(c)'
    BY <1>1, KnownStays DEF Accounted
  <2>2. CASE made' = made
    BY <2>1, <2>2 DEF Accounted
  <2>3. CASE made' = made + 1 /\ \E c \in Click : c.id = made + 1 /\ Known(c)'
    <3>1. made \in Nat
      BY <1>1 DEF Types, TypeOK
    <3>2. \A n \in 1..made' : n \in 1..made \/ n = made + 1
      BY <2>3, <3>1
    <3> QED
      BY <2>1, <2>3, <3>2 DEF Accounted
  <2>4. \/ made' = made
        \/ \E i \in Instances, u \in Urls, bot \in BOOLEAN : Record(i, u, bot)
    <3>1. ASSUME NEW i \in Instances PROVE
           /\ TimerFires(i) \/ Stop(i) \/ Exit(i) \/ Kill(i) \/ Start(i) => made' = made
           /\ \A e \in adding[i] : Enqueue(i, e) \/ EnqueueUnanswered(i, e) \/ Refuse(i, e)
                                   => made' = made
      BY DEF TimerFires, Stop, Exit, Kill, Start, Enqueue, EnqueueUnanswered, Refuse
    <3>2. \A j \in jobs : Take(j) \/ Stall(j) => made' = made
      BY DEF Take, Stall, producer
    <3>3. \A r \in runs : Process(r) \/ Complete(r) \/ Fail(r) \/ RunDies(r) => made' = made
      BY DEF Process, Complete, Fail, RunDies, Finish, producer
    <3>4. \A u \in Urls : DeleteUrl(u) => made' = made
      BY DEF DeleteUrl, producer
    <3> QED
      BY <1>1, <3>1, <3>2, <3>3, <3>4 DEF Next
  <2> QED
    BY <1>1, <2>2, <2>3, <2>4, RecordKnown
<1>2. ASSUME Accounted, UNCHANGED vars PROVE Accounted'
  BY <1>2 DEF Accounted, Known, vars, producer, queue
<1> QED
  BY <1>1, <1>2

--------------------------------------------------------------------------------
LEMMA InvariantHolds == Spec => []IInv
<1>1. IInv /\ [Next]_vars => IInv'
  BY TypesStep, CommittedStep, FlushedStep, AccountedStep, ExactStep DEF IInv
<1> QED
  BY InitIInv, <1>1, PTL DEF Spec

(* The state is well formed in every reachable state: a buffer never holds   *)
(* more than ClickRecorder.maxBuffer clicks, a job is tried and stalls no    *)
(* more often than the queue's options allow.                                *)
THEOREM TypeCorrect == Spec => []TypeOK
<1>1. IInv => TypeOK
  BY DEF IInv, Types
<1> QED
  BY <1>1, InvariantHolds, PTL

(* The counter and the time of a link are those of its stored clicks, each   *)
(* counted once, whatever the queue delivers twice, late or in another order *)
(* (the statement of processClickBatch).                                     *)
THEOREM EveryClickCountedOnce == Spec => []CountsAreExact
<1>1. IInv => CountsAreExact
  BY DEF IInv
<1> QED
  BY <1>1, InvariantHolds, PTL

(* Every redirect that called record() is accounted for: its click waits,    *)
(* is stored, was counted as dropped, died with its process, is in a job     *)
(* kept as failed, is one that the statement rightly leaves out, or was in a *)
(* flush before that of stop() whose enqueue was pending when the process    *)
(* exited (lifecycle.ts waits for no such flush: "abandoned").               *)
THEOREM NoClickForgotten == Spec => []NothingVanishes
<1>1. ASSUME IInv PROVE NothingVanishes
  <2> DEFINE found == Pending \cup dropped \cup lost \cup abandoned
                      \cup rows \cup Queued({"failed"})
  <2> SUFFICES ASSUME NEW n \in 1..made
               PROVE  \E c \in found \cup Queued({"done"}) :
                          c.id = n /\ (c \in found \/ c.bot \/ c.url \notin urls)
    BY DEF NothingVanishes
  <2>1. PICK c \in Click : c.id = n /\ Known(c)
    BY <1>1 DEF IInv, Accounted
  <2>2. ASSUME NEW i \in Instances, c \in buffer[i] \/ \E e \in adding[i] : c \in e.batch
        PROVE  c \in found
    BY <2>2 DEF Pending, Held
  <2>3. ASSUME NEW j \in jobs, c \in j.batch
        PROVE  c \in found \/ (c \in Queued({"done"}) /\ (c.bot \/ c.url \notin urls))
    <3>1. j.state \in {"waiting", "active", "done", "failed"}
      BY <1>1, TypeParts DEF IInv, Types, QueueTypes, Job
    <3>2. CASE j.state \in {"waiting", "active"}
      BY <2>3, <3>2 DEF Pending, Queued
    <3>3. CASE j.state = "failed"
      BY <2>3, <3>3 DEF Queued
    <3>4. CASE j.state = "done"
      BY <1>1, <2>3, <3>4 DEF IInv, Committed, Stored, Queued
    <3> QED
      BY <3>1, <3>2, <3>3, <3>4
  <2> HIDE DEF found
  <2>4. c \in dropped \cup lost \cup abandoned => c \in found
    BY DEF found
  <2> QED
    BY <2>1, <2>2, <2>3, <2>4 DEF Known
<1> QED
  BY <1>1, InvariantHolds, PTL

================================================================================
