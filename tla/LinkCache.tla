------------------------------- MODULE LinkCache -------------------------------
(***************************************************************************)
(* One short code: its row in Postgres, its key in the shared cache Redis, *)
(* and the API instances that redirect it, create, change and delete it.   *)
(*   apps/api/src/services/{redirect,url,urlManagement,purge}.service.ts   *)
(*   apps/api/src/utils/cache/{urlCache,singleFlight}.ts                   *)
(*                                                                         *)
(* Commands travel to Redis in order on one connection per instance and    *)
(* take effect some time after they are sent; a SET is not waited for.     *)
(* "now" counts ticks of one unit; every deadline of the code is a number  *)
(* of ticks.  Latency bounds, in ticks, how long an answer of Postgres or  *)
(* a command to Redis may be under way: the clock does not pass it.  The   *)
(* code has no such bound on Postgres; its comments assume one (the second *)
(* DEL comes "a moment later", after the read it races with).              *)
(***************************************************************************)
EXTENDS Integers, Sequences, FiniteSets

CONSTANTS
    Instances, Requests, Writers,
    Delay,        \* DOUBLE_DELETE_DELAY_MS
    UrlTtl,       \* URL_TTL_SECONDS with the largest jitter
    NegTtl,       \* NEGATIVE_TTL_SECONDS
    Grace,        \* PURGE_GRACE_MS
    AnonymousMax, \* ANONYMOUS_MAX_LIFETIME_MS
    Users,        \* {TRUE}: links of users only; BOOLEAN: anonymous ones too
    Latency,
    Faults,       \* what may go wrong: a subset of FaultKinds
    Expiries,     \* the expiresAt a client may ask for
    MaxWrites,    \* bound: statements that change the row
    MaxNow,       \* bound: the clock
    MaxPipe,      \* bound: a visitor comes only when fewer commands are under way
    Never, NoRow, NoEntry, NoFlight, Nobody

ASSUME TimesAssumption ==
    {Delay, UrlTtl, NegTtl, Grace, AnonymousMax, Latency, MaxWrites, MaxNow, MaxPipe} \subseteq Nat \ {0}
ASSUME ExpiriesAssumption == Expiries \subseteq Nat \cup {Never} /\ Never \notin Nat
FaultKinds == {"skip", "timeout", "lose", "database", "crash"}

ASSUME SetsAssumption == Faults \subseteq FaultKinds /\ Users \subseteq BOOLEAN

VARIABLES
    now,      \* the clock
    row,      \* the row with this short_code, or NoRow
    entry,    \* the value under the code's key in Redis, or NoEntry
    pipe,     \* per instance: the commands on their way to Redis
    flight,   \* per instance: the shared load of singleFlight, or NoFlight
    timers,   \* per instance: when invalidateUrl's second DELs are due
    req,      \* per request: where its redirect stands
    wr,       \* per writer: where its create, update or delete stands
    victim,   \* the id the running purge statement selected, and when
    hist      \* history: the rows this code has had, and since when

vars == <<now, row, entry, pipe, flight, timers, req, wr, victim, hist>>

Row     == [id : Nat, status : {"active", "disabled", "deleted"}, user : BOOLEAN,
            e : Nat \cup {Never}, purge : Nat \cup {Never}, born : Nat]
Entry   == [kind : {"url"}, id : Nat, e : Nat \cup {Never}, dies : Nat]
           \cup [kind : {"none"}, dies : Nat]
Command == [op : {"get"}, r : Requests, born : Nat]
           \cup [op : {"set"}, id : Nat, e : Nat \cup {Never}, ttl : Nat \ {0}, born : Nat]
           \cup [op : {"neg"}, born : Nat]
           \cup [op : {"del"}, w : Writers \cup {Nobody}, born : Nat]
Flight  == [phase : {"query"}] \cup [phase : {"result"}, row : Row \cup {NoRow}, born : Nat]

ASSUME AbsentAssumption == NoRow \notin Row /\ Nobody \notin Writers

TypeOK ==
    /\ now \in Nat
    /\ row \in Row \cup {NoRow}
    /\ entry \in Entry \cup {NoEntry}
    /\ pipe \in [Instances -> Seq(Command)]
    /\ flight \in [Instances -> Flight \cup {NoFlight}]
    /\ timers \in [Instances -> SUBSET Nat]
    /\ req \in [Requests -> [pc : {"idle"}] \cup [pc : {"get", "load"}, at : Instances, since : Nat]]
    /\ wr \in [Writers -> [pc : {"idle"}]
                          \cup [pc : {"created", "written", "deleting"}, at : Instances,
                                row : Row, born : Nat]]
    /\ victim \in {Nobody} \cup [id : Nat, born : Nat]
    /\ hist \in Seq([row : Row \cup {NoRow}, at : Nat])

(* A link some user made before the clock starts. *)
OldRow == [id |-> 0, status |-> "active", user |-> TRUE, e |-> Never, purge |-> Never, born |-> 0]

Init ==
    /\ now = 0 /\ row \in {NoRow, OldRow} /\ entry = NoEntry
    /\ pipe = [i \in Instances |-> <<>>]
    /\ flight = [i \in Instances |-> NoFlight]
    /\ timers = [i \in Instances |-> {}]
    /\ req = [r \in Requests |-> [pc |-> "idle"]]
    /\ wr = [w \in Writers |-> [pc |-> "idle"]]
    /\ victim = Nobody
    /\ hist = <<[row |-> row, at |-> 0]>>

--------------------------------------------------------------------------------
(* Postgres *)

Expired(e, t) == e # Never /\ e <= t
(* Mutant: the row may go as soon as the link has expired. *)
NoGracePurgeAt(e) == e

PurgeAt(e) == IF e = Never THEN Never ELSE e + Grace

(* A statement commits the row rw.  Only history remembers the row it replaces. *)
Commit(rw) ==
    /\ Len(hist) <= MaxWrites
    /\ row' = rw
    /\ hist' = Append(hist, [row |-> rw, at |-> now])

--------------------------------------------------------------------------------
(* Redis *)

(* guarded(): the command is sent, or skipped because the breaker is open or  *)
(* the client is not connected.                                               *)
Sent(i, cmd) == pipe' = [pipe EXCEPT ![i] = Append(@, cmd)]
Skipped == "skip" \in Faults /\ UNCHANGED pipe
Send(i, cmd) == Sent(i, cmd) \/ Skipped

(* Mutant: without the lower bound of one second. *)
UnboundedTtlFor(e) == IF e = Never \/ e > now + UrlTtl THEN UrlTtl ELSE e - now

(* ttlFor() *)
TtlFor(e) == IF e = Never \/ e > now + UrlTtl THEN UrlTtl
             ELSE IF e > now THEN e - now ELSE 1

SetCommand(rw, t) ==
    [op |-> "set", id |-> rw.id, e |-> rw.e, ttl |-> TtlFor(rw.e), born |-> t]

(* Mutant: a negative value lives as long as a link. *)
LongNegative(cmd) == CASE cmd.op = "set" -> [kind |-> "url", id |-> cmd.id, e |-> cmd.e,
                                             dies |-> now + cmd.ttl]
                       [] cmd.op = "neg" -> [kind |-> "none", dies |-> now + UrlTtl]
                       [] cmd.op = "del" -> NoEntry

(* Mutant: SET without EX. *)
Undying(cmd) == CASE cmd.op = "set" -> [kind |-> "url", id |-> cmd.id, e |-> cmd.e,
                                        dies |-> MaxNow + 1]
                  [] cmd.op = "neg" -> [kind |-> "none", dies |-> now + NegTtl]
                  [] cmd.op = "del" -> NoEntry

(* SET key value EX ttl *)
Written(cmd) == CASE cmd.op = "set" -> [kind |-> "url", id |-> cmd.id, e |-> cmd.e,
                                        dies |-> now + cmd.ttl]
                  [] cmd.op = "neg" -> [kind |-> "none", dies |-> now + NegTtl]
                  [] cmd.op = "del" -> NoEntry

--------------------------------------------------------------------------------
(* Redirects: resolveShortCode() *)

NotFound == [kind |-> "not_found"]
Evaluate(id, e) == IF Expired(e, now) THEN [kind |-> "expired"] ELSE [kind |-> "found", id |-> id]

(* What a row is worth to a visitor at this moment. *)
Resolve(rw) == IF rw = NoRow \/ (rw # NoRow /\ rw.status # "active") THEN NotFound
               ELSE Evaluate(rw.id, rw.e)

(* A miss joins the load under way in its instance, or starts one. *)
Miss(r, i, request) ==
    /\ req' = [req EXCEPT ![r] = [request EXCEPT !.pc = "load"]]
    /\ flight' = [flight EXCEPT ![i] = IF @ = NoFlight THEN [phase |-> "query"] ELSE @]

Arrive(r, i) ==
    /\ req[r].pc = "idle" /\ Len(pipe[i]) < MaxPipe
    /\ LET request == [pc |-> "get", at |-> i, since |-> now] IN
       \/ /\ Sent(i, [op |-> "get", r |-> r, born |-> now])
          /\ req' = [req EXCEPT ![r] = request]
          /\ UNCHANGED flight
       \/ Skipped /\ Miss(r, i, request)
    /\ UNCHANGED <<now, row, entry, timers, wr, victim, hist>>

(* What a hit is worth: NEGATIVE is not found, a value is evaluated again. *)
ResolveEntry == IF entry.kind = "none" THEN NotFound ELSE Evaluate(entry.id, entry.e)

(* The answer to GET: a hit answers the request, null is a miss. *)
Got(r, i) ==
    IF entry = NoEntry
    THEN Miss(r, i, req[r])
    ELSE req' = [req EXCEPT ![r] = [pc |-> "idle"]] /\ UNCHANGED flight

(* Redis runs the oldest command of a connection. *)
RunGet(i) ==
    /\ pipe[i] # <<>> /\ Head(pipe[i]).op = "get"
    /\ Got(Head(pipe[i]).r, i)
    /\ pipe' = [pipe EXCEPT ![i] = Tail(@)]
    /\ UNCHANGED <<now, row, entry, timers, wr, victim, hist>>

RunWrite(i) ==
    /\ pipe[i] # <<>>
    /\ LET cmd == Head(pipe[i]) IN
       /\ cmd.op # "get"
       /\ entry' = Written(cmd)
       /\ IF cmd.op = "del" /\ cmd.w # Nobody
          THEN wr' = [wr EXCEPT ![cmd.w] = [pc |-> "idle"]]
          ELSE UNCHANGED wr
    /\ pipe' = [pipe EXCEPT ![i] = Tail(@)]
    /\ UNCHANGED <<now, row, flight, timers, req, victim, hist>>

(* findUnique(): Postgres reads the row; the answer is on its way. *)
LoadRead(i) ==
    /\ flight[i] # NoFlight /\ flight[i].phase = "query"
    /\ flight' = [flight EXCEPT ![i] = [phase |-> "result", row |-> row, born |-> now]]
    /\ UNCHANGED <<now, row, entry, pipe, timers, req, wr, victim, hist>>

Joined(i) == {r \in Requests : req[r].pc = "load" /\ req[r].at = i}

(* The load ends for all who joined it; singleFlight forgets it. *)
EndLoad(i) ==
    /\ flight' = [flight EXCEPT ![i] = NoFlight]
    /\ req' = [r \in Requests |-> IF r \in Joined(i) THEN [pc |-> "idle"] ELSE req[r]]

LoadDone(i) ==
    /\ flight[i] # NoFlight /\ flight[i].phase = "result"
    /\ LET rw == flight[i].row IN
       /\ CASE Resolve(rw).kind = "not_found" -> Send(i, [op |-> "neg", born |-> flight[i].born])
            [] Resolve(rw).kind = "found"     -> Send(i, SetCommand(rw, flight[i].born))
            [] Resolve(rw).kind = "expired"   -> UNCHANGED pipe
    /\ EndLoad(i)
    /\ UNCHANGED <<now, row, entry, timers, wr, victim, hist>>

(* Postgres fails: everyone who joined gets the 503 page. *)
LoadFails(i) ==
    /\ "database" \in Faults /\ flight[i] # NoFlight
    /\ EndLoad(i)
    /\ UNCHANGED <<now, row, entry, pipe, timers, wr, victim, hist>>

--------------------------------------------------------------------------------
(* Writes: createShortUrl(), updateUrl(), deleteUrl() *)

Capped(e) == IF e # Never /\ e < now + AnonymousMax THEN e ELSE now + AnonymousMax
ResolveExpiry(e, user) == IF user THEN e ELSE Capped(e)

(* The statement committed; its answer is on its way to the instance. *)
Writes(w, i, pc, rw) ==
    /\ wr[w].pc = "idle"
    /\ Commit(rw)
    /\ wr' = [wr EXCEPT ![w] = [pc |-> pc, at |-> i, row |-> rw, born |-> now]]
    /\ UNCHANGED <<now, entry, pipe, flight, timers, req, victim>>

(* INSERT: the unique index refuses a code that is taken.  A row has a new id. *)
Create(w, i, user, e) ==
    /\ row = NoRow
    /\ ~Expired(e, now)
    /\ LET ex == ResolveExpiry(e, user) IN
       Writes(w, i, "created", [id |-> Len(hist), status |-> "active", user |-> user, e |-> ex,
                                purge |-> PurgeAt(ex), born |-> now])

(* owned(): the caller's own link, not deleted. *)
Owned == row # NoRow /\ row.user /\ row.status # "deleted"

UpdateStatus(w, i, s) ==
    /\ Owned
    /\ Writes(w, i, "written", [row EXCEPT !.status = s])

UpdateExpiry(w, i, e) ==
    /\ Owned
    /\ ~Expired(e, now)
    /\ Writes(w, i, "written", [row EXCEPT !.e = e, !.purge = PurgeAt(e)])

(* Mutant: deleteUrl() leaves the cache alone. *)
SilentDelete(w, i) ==
    /\ Owned /\ wr[w].pc = "idle"
    /\ Commit([row EXCEPT !.status = "deleted", !.e = now, !.purge = PurgeAt(now)])
    /\ UNCHANGED <<now, entry, pipe, flight, timers, req, wr, victim>>

Delete(w, i) ==
    /\ Owned
    /\ Writes(w, i, "written",
              [row EXCEPT !.status = "deleted", !.e = now, !.purge = PurgeAt(now)])

(* The write-through of a create; nobody waits for it. *)
WriteThrough(w) ==
    /\ wr[w].pc = "created"
    /\ Send(wr[w].at, SetCommand(wr[w].row, wr[w].born))
    /\ wr' = [wr EXCEPT ![w] = [pc |-> "idle"]]
    /\ UNCHANGED <<now, row, entry, flight, timers, req, victim, hist>>

(* Mutant: one DEL instead of two. *)
SingleDelete(w) ==
    /\ wr[w].pc = "written"
    /\ \/ /\ Sent(wr[w].at, [op |-> "del", w |-> w, born |-> now])
          /\ wr' = [wr EXCEPT ![w].pc = "deleting"]
       \/ Skipped /\ wr' = [wr EXCEPT ![w] = [pc |-> "idle"]]
    /\ UNCHANGED <<now, row, entry, flight, timers, req, victim, hist>>

(* invalidateUrl(): DEL now, which the call waits for, and a timer for another. *)
Invalidate(w) ==
    /\ wr[w].pc = "written"
    /\ timers' = [timers EXCEPT ![wr[w].at] = @ \cup {now + Delay}]
    /\ \/ /\ Sent(wr[w].at, [op |-> "del", w |-> w, born |-> now])
          /\ wr' = [wr EXCEPT ![w].pc = "deleting"]
       \/ Skipped /\ wr' = [wr EXCEPT ![w] = [pc |-> "idle"]]
    /\ UNCHANGED <<now, row, entry, flight, req, victim, hist>>

SecondDel(i, t) ==
    /\ t \in timers[i] /\ t <= now
    /\ timers' = [timers EXCEPT ![i] = @ \ {t}]
    /\ Send(i, [op |-> "del", w |-> Nobody, born |-> now])
    /\ UNCHANGED <<now, row, entry, flight, req, wr, victim, hist>>

--------------------------------------------------------------------------------
(* The purge job, the clock, Redis and the faults *)

(* DELETE FROM urls WHERE id IN (SELECT id ... WHERE purge_at < now() ...): the   *)
(* inner SELECT sees the statement's snapshot; a row updated after it is deleted *)
(* all the same (READ COMMITTED looks at the id again, not at the subquery).     *)
PurgeSelect ==
    /\ victim = Nobody /\ row # NoRow /\ row.purge # Never /\ row.purge < now
    /\ victim' = [id |-> row.id, born |-> now]
    /\ UNCHANGED <<now, row, entry, pipe, flight, timers, req, wr, hist>>

PurgeDelete ==
    /\ victim # Nobody
    /\ victim' = Nobody
    /\ IF row # NoRow /\ row.id = victim.id THEN Commit(NoRow) ELSE UNCHANGED <<row, hist>>
    /\ UNCHANGED <<now, entry, pipe, flight, timers, req, wr>>

(* allkeys-lru, or a restart of the cache, which persists nothing. *)
Evict ==
    /\ entry # NoEntry /\ entry' = NoEntry
    /\ UNCHANGED <<now, row, pipe, flight, timers, req, wr, victim, hist>>

InTime(born) == now < born + Latency

(* The clock waits for what is due; Redis drops the key when its time is up. *)
Tick ==
    /\ now < MaxNow
    /\ \A i \in Instances :
           /\ \A k \in DOMAIN pipe[i] : InTime(pipe[i][k].born)
           /\ \A t \in timers[i] : now < t
           /\ flight[i] # NoFlight /\ flight[i].phase = "result" => InTime(flight[i].born)
    /\ \A w \in Writers : wr[w].pc # "idle" => InTime(wr[w].born)
    /\ victim # Nobody => InTime(victim.born)
    /\ now' = now + 1
    /\ entry' = IF entry # NoEntry /\ entry.dies <= now' THEN NoEntry ELSE entry
    /\ UNCHANGED <<row, pipe, flight, timers, req, wr, victim, hist>>

(* Mutants: a client without commandTimeout. *)
GetNeverTimesOut(r) == FALSE /\ UNCHANGED vars
DelNeverTimesOut(w) == FALSE /\ UNCHANGED vars

Without(cmds, k) == SubSeq(cmds, 1, k - 1) \o SubSeq(cmds, k + 1, Len(cmds))

(* A request stops waiting for its GET (commandTimeout, or the connection broke). *)
GetTimesOut(r) ==
    /\ "timeout" \in Faults /\ req[r].pc = "get"
    /\ \E k \in DOMAIN pipe[req[r].at] :
          LET cmd == pipe[req[r].at][k] IN
          /\ cmd.op = "get" /\ cmd.r = r
          /\ pipe' = [pipe EXCEPT ![req[r].at] = Without(@, k)]
    /\ Miss(r, req[r].at, req[r])
    /\ UNCHANGED <<now, row, entry, timers, wr, victim, hist>>

(* A writer stops waiting for its first DEL, which may or may not run later. *)
DelTimesOut(w) ==
    /\ "timeout" \in Faults /\ wr[w].pc = "deleting"
    /\ pipe' = [i \in Instances |-> [k \in DOMAIN pipe[i] |->
                   IF pipe[i][k].op = "del" /\ pipe[i][k].w = w
                   THEN [pipe[i][k] EXCEPT !.w = Nobody] ELSE pipe[i][k]]]
    /\ wr' = [wr EXCEPT ![w] = [pc |-> "idle"]]
    /\ UNCHANGED <<now, row, entry, flight, timers, req, victim, hist>>

(* A command that nobody waits for: a SET or a second DEL. *)
Unawaited(cmd) == cmd.op # "get" /\ (cmd.op = "del" => cmd.w = Nobody)

(* It is lost with its connection. *)
Lose(i) ==
    /\ "lose" \in Faults /\ pipe[i] # <<>> /\ Unawaited(Head(pipe[i]))
    /\ pipe' = [pipe EXCEPT ![i] = Tail(@)]
    /\ UNCHANGED <<now, row, entry, flight, timers, req, wr, victim, hist>>

(* SelectSeq(cmds, Unawaited), as a recursive function to reason about. *)
AllUnawaited(cmds) ==
    LET kept[k \in 0..Len(cmds)] ==
            IF k = 0 THEN <<>>
            ELSE IF Unawaited(cmds[k]) THEN Append(kept[k - 1], cmds[k]) ELSE kept[k - 1]
    IN kept[Len(cmds)]

(* The process dies, or stops: its timers are unref'd.  Commands sent may still run. *)
Crash(i) ==
    /\ "crash" \in Faults
    /\ flight' = [flight EXCEPT ![i] = NoFlight]
    /\ timers' = [timers EXCEPT ![i] = {}]
    /\ pipe' = [pipe EXCEPT ![i] = AllUnawaited(@)]
    /\ req' = [r \in Requests |-> IF req[r].pc # "idle" /\ req[r].at = i THEN [pc |-> "idle"] ELSE req[r]]
    /\ wr' = [w \in Writers |-> IF wr[w].pc # "idle" /\ wr[w].at = i THEN [pc |-> "idle"] ELSE wr[w]]
    /\ UNCHANGED <<now, row, entry, victim, hist>>

Redirecting ==
    \/ \E r \in Requests, i \in Instances : Arrive(r, i)
    \/ \E i \in Instances : RunGet(i) \/ LoadRead(i) \/ LoadDone(i) \/ LoadFails(i)

Writing ==
    \/ \E w \in Writers, i \in Instances :
         \/ \E user \in Users, e \in Expiries : Create(w, i, user, e)
         \/ \E s \in {"active", "disabled"} : UpdateStatus(w, i, s)
         \/ \E e \in Expiries : UpdateExpiry(w, i, e)
         \/ Delete(w, i)
    \/ \E w \in Writers : WriteThrough(w) \/ Invalidate(w) \/ DelTimesOut(w)
    \/ \E i \in Instances : RunWrite(i) \/ (\E t \in timers[i] : SecondDel(i, t))
    \/ PurgeSelect \/ PurgeDelete

Environment ==
    \/ Tick \/ Evict
    \/ \E r \in Requests : GetTimesOut(r)
    \/ \E i \in Instances : Lose(i) \/ Crash(i)

Next == Redirecting \/ Writing \/ Environment

Spec == Init /\ [][Next]_vars

(* Postgres answers, and ioredis ends a command after commandTimeout: what a     *)
(* request or a writer waits for ends, even when Redis never answers.           *)
Fairness ==
    /\ \A i \in Instances : WF_vars(LoadRead(i)) /\ WF_vars(LoadDone(i) \/ LoadFails(i))
    /\ \A r \in Requests : WF_vars(GetTimesOut(r))
    /\ \A w \in Writers : WF_vars(WriteThrough(w)) /\ WF_vars(Invalidate(w)) /\ WF_vars(DelTimesOut(w))

FairSpec == Spec /\ Fairness

--------------------------------------------------------------------------------
(* What may still correct the key: a committed change whose first DEL is yet to *)
(* be sent, a DEL on its way, a second DEL to come.                             *)
RemovalPending ==
    \/ \E w \in Writers : wr[w].pc = "written"
    \/ \E i \in Instances : \/ timers[i] # {}
                            \/ \E k \in DOMAIN pipe[i] : pipe[i][k].op = "del"

(* The value is what toCached() makes of the row, and the row is to be followed. *)
Reflects(en, rw) == rw # NoRow /\ rw.status = "active" /\ rw.id = en.id /\ rw.e = en.e

(* A URL value that differs from the row - a link disabled, deleted, purged or *)
(* given another expiry - does not stay: a DEL that will remove it is still to *)
(* come, whatever load read the old row and whenever its SET lands.  A negative *)
(* value over a live link goes the same way, except over a new one: a create    *)
(* writes the key once and does not delete it, so the probe whose load read     *)
(* before the INSERT can hide the link for one negative TTL, not longer.        *)
StaleIsDoomed ==
    /\ entry # NoEntry /\ entry.kind = "url" /\ ~Reflects(entry, row) => RemovalPending
    /\ entry # NoEntry /\ entry.kind = "none" /\ row # NoRow /\ row.status = "active" =>
           RemovalPending \/ now < row.born + Latency + NegTtl

(* The answers that were right at time t or at some moment since then. *)
RightSince(t) ==
    {Resolve(hist[k].row) : k \in {j \in DOMAIN hist : j = Len(hist) \/ hist[j+1].at >= t}}

(* Every answer of a step is in Right(r, a) for its request r. *)
EveryAnswer(Right(_, _)) ==
    \A i \in Instances :
        /\ RunGet(i) /\ entry # NoEntry => Right(Head(pipe[i]).r, ResolveEntry)
        /\ LoadDone(i) => \A r \in Joined(i) : Right(r, Resolve(flight[i].row))

(* While Redis works, a visitor is sent by a version of the link that was       *)
(* current at most the double delete's delay (and the latencies around it)      *)
(* before the request; "not found" may also be a negative value that was right  *)
(* one negative TTL before.                                                     *)
BoundedStaleness ==
    [][EveryAnswer(LAMBDA r, a :
         a \in RightSince(req[r].since - (IF a = NotFound THEN NegTtl ELSE Delay) - 2 * Latency))]_vars

(* With skipped, lost and late commands and crashes too, no answer outlives the *)
(* value's TTL: a DEL that is never made costs one day, not for ever.           *)
StalenessWithinTtl ==
    [][EveryAnswer(LAMBDA r, a : a \in RightSince(req[r].since - UrlTtl - Latency))]_vars

(* A code that was purged and claimed by someone else never leads to the old    *)
(* link again: after a delete, even one whose DELs were skipped, the cached     *)
(* value of a link is gone before its row is.  (Not so for a link whose owner   *)
(* renews it between the two steps of the purge; see the README.)               *)
NoOldTarget ==
    entry # NoEntry /\ entry.kind = "url" => row # NoRow /\ row.id = entry.id

(* Redis is optional: every redirect and every write ends, although Redis may   *)
(* accept commands and answer none of them.                                     *)
RequestsEnd ==
    /\ \A r \in Requests : req[r].pc # "idle" ~> req[r].pc = "idle"
    /\ \A w \in Writers  : wr[w].pc # "idle" ~> wr[w].pc = "idle"
================================================================================
