----------------------------- MODULE ClickPipeline -----------------------------
(***************************************************************************)
(* The way of a click: apps/api/src/jobs/producers/clickRecorder.ts in     *)
(* each API process, the BullMQ queue "clicks" in Redis, the workers of    *)
(* jobs/workers/index.ts and the one SQL statement of                      *)
(* jobs/processors/click.processor.ts.                                     *)
(*                                                                         *)
(* The queue delivers at least once: an enqueue whose answer is lost is    *)
(* sent again and makes a second job, a run may outlive its lock while the *)
(* job runs again, and a run may die between the commit and the            *)
(* acknowledgement.  Clicks carry an id given in the API process, by which *)
(* the insert recognises them.  A batch is a set: its order has no effect. *)
(***************************************************************************)
EXTENDS Naturals, FiniteSets, FiniteSetsExt

CONSTANTS
    Instances,  \* API processes
    Urls,       \* links that are clicked
    FlushSize,  \* CLICK_FLUSH_SIZE, 500
    MaxBuffers, \* values of the option maxBuffer; CLICK_MAX_BUFFER is 10 000
    Attempts,   \* defaultJobOptions.attempts, 5
    MaxStalls,  \* BullMQ's maxStalledCount, 1 by default
    Slots,      \* jobs that run at a time: 2 per worker process
    MaxClicks,  \* bound: redirects that are answered
    MaxFaults   \* bound: kills, exits that cut a flush off, lost answers, dead workers
                \* and locks lost by a live run

ASSUME SizesAssumption == FlushSize \in Nat \ {0} /\ MaxBuffers \subseteq Nat \ {0}
ASSUME JobAssumption == Attempts \in Nat \ {0} /\ MaxStalls \in Nat
ASSUME BoundAssumption == MaxClicks \in Nat /\ MaxFaults \in Nat /\ Slots \in Nat
ASSUME FiniteAssumption == IsFiniteSet(Instances) /\ IsFiniteSet(Urls)

(* "id" is the UUIDv7 and stands for the time too; "bot" is isBot(ua). *)
Click == [id : 1..MaxClicks, url : Urls, bot : BOOLEAN]

VARIABLES
    maxBuffer,  \* ClickRecorder.maxBuffer
    phase,      \* per instance: up, stopping (SIGTERM) or down
    buffer,     \* per instance: ClickRecorder.buffer
    adding,     \* per instance: enqueue() calls not settled; "sent" once Redis ran one,
                \* "final" for the flush of stop()
    faults,     \* faults that happened
    made,       \* redirects that called record()
    dropped,    \* history: the clicks counted in stats.dropped
    lost,       \* history: the clicks an instance held when it was killed
    abandoned,  \* history: the clicks of enqueue() calls that an orderly exit cut off
    jobs,       \* the queue: a job is a batch and the number of its copy
    runs,       \* processClickBatch() under way; "token" is the stall count of its lock
    urls,       \* the rows of urls
    rows,       \* the rows of clicks
    count,      \* urls.click_count
    last        \* urls.last_clicked_at, 0 for NULL

producer == <<maxBuffer, phase, buffer, adding, made, dropped, lost, abandoned>>
queue    == <<jobs, runs>>
database == <<urls, rows, count, last>>
vars     == <<producer, queue, database, faults>>

Add == [batch : SUBSET Click, sent : BOOLEAN, final : BOOLEAN]
Job == [batch : SUBSET Click, copy : Nat, state : {"waiting", "active", "done", "failed"},
        tries : 0..Attempts, stalls : 0..MaxStalls]
Run == [batch : SUBSET Click, copy : Nat, token : 0..MaxStalls, committed : BOOLEAN]

TypeOK ==
    /\ maxBuffer \in MaxBuffers
    /\ phase \in [Instances -> {"up", "stopping", "down"}]
    /\ DOMAIN buffer = Instances /\ DOMAIN adding = Instances
    /\ \A i \in Instances : /\ buffer[i] \subseteq Click
                            /\ Cardinality(buffer[i]) <= maxBuffer
                            /\ \A e \in adding[i] : e \in Add
    /\ faults \in 0..MaxFaults
    /\ made \in 0..MaxClicks
    /\ dropped \subseteq Click /\ lost \subseteq Click /\ abandoned \subseteq Click
    /\ \A j \in jobs : j \in Job
    /\ \A r \in runs : r \in Run
    /\ urls \subseteq Urls
    /\ rows \subseteq Click
    /\ count \in [Urls -> Nat]
    /\ last \in [Urls -> 0..MaxClicks]

Init ==
    /\ maxBuffer \in MaxBuffers
    /\ phase = [i \in Instances |-> "up"]
    /\ buffer = [i \in Instances |-> {}] /\ adding = [i \in Instances |-> {}]
    /\ faults = 0 /\ made = 0 /\ dropped = {} /\ lost = {} /\ abandoned = {}
    /\ jobs = {} /\ runs = {}
    /\ urls = Urls /\ rows = {}
    /\ count = [u \in Urls |-> 0] /\ last = [u \in Urls |-> 0]

Fault == faults < MaxFaults /\ faults' = faults + 1

--------------------------------------------------------------------------------
(***************************************************************************)
(* The API process.                                                        *)
(***************************************************************************)

Full(i) == Cardinality(buffer[i]) >= maxBuffer

Added(clicks, final) == [batch |-> clicks, sent |-> FALSE, final |-> final]

(* flush(): the clicks leave the buffer before the enqueue is awaited.     *)
Flush(i, clicks, final) ==
    /\ buffer' = [buffer EXCEPT ![i] = {}]
    /\ adding' = IF clicks = {} THEN adding
                 ELSE [adding EXCEPT ![i] = @ \cup {Added(clicks, final)}]

(* record(), called by the redirect of a found link. *)
Record(i, u, bot) ==
    LET click == [id |-> made + 1, url |-> u, bot |-> bot]
        held  == buffer[i] \cup {click} IN
    /\ phase[i] = "up" /\ made < MaxClicks
    /\ made' = made + 1
    /\ \/ /\ Full(i)
          /\ dropped' = dropped \cup {click}
          /\ UNCHANGED <<buffer, adding>>
       \/ /\ ~Full(i) /\ Cardinality(held) >= FlushSize
          /\ Flush(i, held, FALSE)
          /\ UNCHANGED dropped
       \/ /\ ~Full(i) /\ Cardinality(held) < FlushSize
          /\ buffer' = [buffer EXCEPT ![i] = held]
          /\ UNCHANGED <<adding, dropped>>
    /\ UNCHANGED <<maxBuffer, phase, lost, abandoned, queue, database, faults>>

(* The interval of start(). *)
TimerFires(i) ==
    /\ phase[i] = "up" /\ buffer[i] # {}
    /\ Flush(i, buffer[i], FALSE)
    /\ UNCHANGED <<maxBuffer, phase, made, dropped, lost, abandoned, queue, database, faults>>

(* Mutant: the timer is stopped, what is left is not flushed. *)
StopUnflushed(i) ==
    /\ phase[i] = "up"
    /\ phase' = [phase EXCEPT ![i] = "stopping"]
    /\ UNCHANGED <<maxBuffer, buffer, adding, made, dropped, lost, abandoned, queue, database, faults>>

(* SIGTERM, once the requests in flight have finished: stop(). *)
Stop(i) ==
    /\ phase[i] = "up"
    /\ phase' = [phase EXCEPT ![i] = "stopping"]
    /\ Flush(i, buffer[i], TRUE)
    /\ UNCHANGED <<maxBuffer, made, dropped, lost, abandoned, queue, database, faults>>

(* The earlier flushes under way: record() and the interval call flush()   *)
(* with void, nobody waits for it.                                         *)
Earlier(i) == {e \in adding[i] : ~e.final}

(* Mutant: stop() does not wait for its flush either. *)
ExitAtOnce(i) ==
    /\ phase[i] = "stopping"
    /\ phase' = [phase EXCEPT ![i] = "down"]
    /\ abandoned' = abandoned \cup UNION {e.batch : e \in Earlier(i)}
    /\ buffer' = [buffer EXCEPT ![i] = {}] /\ adding' = [adding EXCEPT ![i] = {}]
    /\ IF Earlier(i) = {} THEN UNCHANGED faults ELSE Fault
    /\ UNCHANGED <<maxBuffer, made, dropped, lost, queue, database>>

(* The later stages, ending in process.exit(0).  Only the flush of stop()  *)
(* itself has been waited for.  On a connection that is ready QUIT is      *)
(* answered after the commands of the earlier flushes, so that none is     *)
(* left; on a broken one quit() rejects at once, the failure is logged,    *)
(* and the process exits with the calls of the earlier flushes under way.  *)
Exit(i) ==
    /\ phase[i] = "stopping" /\ adding[i] = Earlier(i)
    /\ phase' = [phase EXCEPT ![i] = "down"]
    /\ abandoned' = abandoned \cup UNION {e.batch : e \in Earlier(i)}
    /\ buffer' = [buffer EXCEPT ![i] = {}] /\ adding' = [adding EXCEPT ![i] = {}]
    /\ IF Earlier(i) = {} THEN UNCHANGED faults ELSE Fault
    /\ UNCHANGED <<maxBuffer, made, dropped, lost, queue, database>>

Held(i) == buffer[i] \cup UNION {e.batch : e \in adding[i]}

(* A crash, or the shutdown's own time limit: what is in memory is lost. *)
Kill(i) ==
    /\ phase[i] # "down"
    /\ phase' = [phase EXCEPT ![i] = "down"]
    /\ lost' = lost \cup Held(i)
    /\ buffer' = [buffer EXCEPT ![i] = {}] /\ adding' = [adding EXCEPT ![i] = {}]
    /\ Fault
    /\ UNCHANGED <<maxBuffer, made, dropped, abandoned, queue, database>>

Start(i) ==
    /\ phase[i] = "down"
    /\ phase' = [phase EXCEPT ![i] = "up"]
    /\ UNCHANGED <<maxBuffer, buffer, adding, made, dropped, lost, abandoned, queue, database, faults>>

--------------------------------------------------------------------------------
(***************************************************************************)
(* clickQueue.add() and Redis.                                             *)
(***************************************************************************)

NewJob(batch) ==
    [batch |-> batch, copy |-> 1 + Cardinality({j \in jobs : j.batch = batch}),
     state |-> "waiting", tries |-> 0, stalls |-> 0]

Settled(i, e) == adding' = [adding EXCEPT ![i] = @ \ {e}]

(* The job is in the queue and enqueue() resolves. *)
Enqueue(i, e) ==
    /\ jobs' = jobs \cup {NewJob(e.batch)}
    /\ Settled(i, e)
    /\ UNCHANGED <<maxBuffer, phase, buffer, made, dropped, lost, abandoned, runs, database, faults>>

(* The job is in the queue but the connection breaks before the answer:    *)
(* ioredis sends the command once more, or gives up.                       *)
EnqueueUnanswered(i, e) ==
    /\ ~e.sent
    /\ jobs' = jobs \cup {NewJob(e.batch)}
    /\ adding' = [adding EXCEPT ![i] = (@ \ {e}) \cup {[e EXCEPT !.sent = TRUE]}]
    /\ Fault
    /\ UNCHANGED <<maxBuffer, phase, buffer, made, dropped, lost, abandoned, runs, database>>

(* No connection (there is no offline queue), or no retry left. *)
Refuse(i, e) ==
    /\ Settled(i, e)
    /\ dropped' = dropped \cup e.batch
    /\ UNCHANGED <<maxBuffer, phase, buffer, made, lost, abandoned, queue, database, faults>>

--------------------------------------------------------------------------------
(***************************************************************************)
(* The worker.                                                             *)
(***************************************************************************)

Becomes(j, k) == jobs' = (jobs \ {j}) \cup {k}

Take(j) ==
    /\ j.state = "waiting" /\ Cardinality(runs) < Slots
    /\ Becomes(j, [j EXCEPT !.state = "active"])
    /\ runs' = runs \cup {[batch |-> j.batch, copy |-> j.copy,
                           token |-> j.stalls, committed |-> FALSE]}
    /\ UNCHANGED <<producer, database, faults>>

(* Newly inserted: a person's click on a link that exists, not there yet. *)
Inserted(batch) == {c \in batch : ~c.bot /\ c.url \in urls /\ c \notin rows}

Of(u, clicks) == {c \in clicks : c.url = u}
Latest(clicks) == IF clicks = {} THEN 0 ELSE Max({c.id : c \in clicks})

(* Mutant: the counters move by the size of the batch. *)
CountsBatch(batch) ==
    LET new == Inserted(batch) IN
    /\ rows' = rows \cup new
    /\ count' = [u \in Urls |-> IF Of(u, new) = {} THEN count[u]
                                ELSE count[u] + Cardinality(Of(u, batch))]
    /\ last' = [u \in Urls |-> Max({last[u], Latest(Of(u, new))})]
    /\ UNCHANGED urls

(* Mutant: last_clicked_at is set, not raised. *)
LastIsSet(batch) ==
    LET new == Inserted(batch) IN
    /\ rows' = rows \cup new
    /\ count' = [u \in Urls |-> count[u] + Cardinality(Of(u, new))]
    /\ last' = [u \in Urls |-> IF Of(u, new) = {} THEN last[u] ELSE Latest(Of(u, new))]
    /\ UNCHANGED urls

(* processClickBatch()'s statement: insert, per_url, updated. *)
Store(batch) ==
    LET new == Inserted(batch) IN
    /\ rows' = rows \cup new
    /\ count' = [u \in Urls |-> count[u] + Cardinality(Of(u, new))]
    /\ last' = [u \in Urls |-> Max({last[u], Latest(Of(u, new))})]
    /\ UNCHANGED urls

Process(r) ==
    /\ ~r.committed
    /\ Store(r.batch)
    /\ runs' = (runs \ {r}) \cup {[r EXCEPT !.committed = TRUE]}
    /\ UNCHANGED <<producer, jobs, faults>>

Locks(r, j) == /\ j.batch = r.batch /\ j.copy = r.copy
               /\ j.state = "active" /\ j.stalls = r.token

Orphan(j) == ~\E r \in runs : Locks(r, j)

(* The end of a run counts only while it holds the lock of its job. *)
Finish(r) ==
    /\ runs' = runs \ {r}
    /\ UNCHANGED <<producer, database, faults>>

Complete(r) ==
    /\ r.committed /\ Finish(r)
    /\ jobs' = {IF Locks(r, j) THEN [j EXCEPT !.state = "done"] ELSE j : j \in jobs}

(* Mutant: a failed attempt is not counted. *)
RetriedUncounted(j) == [j EXCEPT !.state = "waiting"]

(* Mutant: one attempt more than there are. *)
RetriedOnceMore(j) ==
    [j EXCEPT !.tries = @ + 1, !.state = IF j.tries + 1 <= Attempts THEN "waiting" ELSE "failed"]

Retried(j) == [j EXCEPT !.tries = @ + 1,
                        !.state = IF j.tries + 1 < Attempts THEN "waiting" ELSE "failed"]

(* The processor throws: the statement failed, or its answer was lost. *)
Fail(r) ==
    /\ Finish(r)
    /\ jobs' = {IF Locks(r, j) THEN Retried(j) ELSE j : j \in jobs}

(* The worker process dies in a run. *)
RunDies(r) == Fault /\ runs' = runs \ {r} /\ UNCHANGED <<producer, jobs, database>>

(* The lock of an active job was not renewed in time: its run is dead, or  *)
(* only slow and still going.                                              *)
Stall(j) ==
    /\ j.state = "active"
    /\ Becomes(j, IF j.stalls < MaxStalls
                  THEN [j EXCEPT !.state = "waiting", !.stalls = @ + 1]
                  ELSE [j EXCEPT !.state = "failed"])
    /\ IF Orphan(j) THEN UNCHANGED faults ELSE Fault
    /\ UNCHANGED <<producer, runs, database>>

(* A link is deleted or purged; its clicks go with it (ON DELETE CASCADE). *)
DeleteUrl(u) ==
    /\ u \in urls
    /\ urls' = urls \ {u}
    /\ rows' = {c \in rows : c.url # u}
    /\ count' = [count EXCEPT ![u] = 0] /\ last' = [last EXCEPT ![u] = 0]
    /\ UNCHANGED <<producer, queue, faults>>

--------------------------------------------------------------------------------
Next ==
    \/ \E i \in Instances :
          \/ \E u \in Urls, bot \in BOOLEAN : Record(i, u, bot)
          \/ TimerFires(i) \/ Stop(i) \/ Exit(i) \/ Kill(i) \/ Start(i)
          \/ \E e \in adding[i] : Enqueue(i, e) \/ EnqueueUnanswered(i, e) \/ Refuse(i, e)
    \/ \E j \in jobs : Take(j) \/ Stall(j)
    \/ \E r \in runs : Process(r) \/ Complete(r) \/ Fail(r) \/ RunDies(r)
    \/ \E u \in Urls : DeleteUrl(u)

Spec == Init /\ [][Next]_vars

(***************************************************************************)
(* The interval fires while the process is up, Redis answers or ioredis    *)
(* gives up, workers take waiting jobs, a statement ends, and the queue    *)
(* finds the active jobs whose run is gone.  A process need not stop, die  *)
(* or come back.                                                           *)
(***************************************************************************)
Fairness ==
    /\ \A i \in Instances :
          /\ WF_vars(TimerFires(i))
          /\ WF_vars(\E e \in adding[i] : Enqueue(i, e) \/ Refuse(i, e))
    /\ WF_vars(\E j \in jobs : Take(j))
    /\ WF_vars(\E r \in runs : Process(r) \/ Complete(r))
    /\ WF_vars(\E j \in jobs : Orphan(j) /\ Stall(j))

FairSpec == Spec /\ Fairness

--------------------------------------------------------------------------------
(* "An at-least-once queue gives an exactly-once effect": the counter of a  *)
(* link is the number of its clicks, each counted once, through duplicated  *)
(* jobs, retries, concurrent runs of one job and dead workers, and whatever *)
(* the order of its batches, last_clicked_at is the time of the latest.     *)
CountsAreExact ==
    \A u \in urls : count[u] = Cardinality(Of(u, rows)) /\ last[u] = Latest(Of(u, rows))

Queued(state) == UNION {j.batch : j \in {k \in jobs : k.state \in state}}

Pending == (UNION {Held(i) : i \in Instances}) \cup Queued({"waiting", "active"})

(* A click that has left memory and queue is stored, unless it was counted  *)
(* as dropped, came from a bot, is of a link that is gone, was in a killed  *)
(* process, its job is kept as failed, or an orderly exit abandoned it.     *)
(* "Deploys lose no buffered clicks" is true of what stop() flushes: that   *)
(* enqueue is awaited, so only a batch of an earlier flush, its enqueue     *)
(* pending when the process exits on a broken connection, is abandoned.     *)
NothingVanishes ==
    LET found == Pending \cup dropped \cup lost \cup abandoned
                 \cup rows \cup Queued({"failed"}) IN
    \A n \in 1..made : \E c \in found \cup Queued({"done"}) :
        c.id = n /\ (c \in found \/ c.bot \/ c.url \notin urls)

(* A click does not stay in memory or in the queue for ever: the interval   *)
(* hands it over, the attempts of its jobs are counted.                     *)
IsPending(n) == \E c \in Pending : c.id = n
PendingEnds  == \A n \in 1..MaxClicks : IsPending(n) ~> ~IsPending(n)
================================================================================
