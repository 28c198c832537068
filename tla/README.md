# snip, in TLA+

TLA+ models of the URL shortener in this repository: the API (`apps/api`), its
workers, Postgres and two Redis instances, and the web client of `apps/web`: the
session of a tab and its links. The modules are translated from the code; the
configurations model-check them on small instances with TLC; some of their
properties are proved for every value of the constants with TLAPS.

    tlc -workers 2 -config LinkCache.cfg MCLinkCache.tla      # model-check
    tlapm IdAllocatorProofs.tla                               # prove

`PROJECT.json` lists the runs, the lines of source each definition stands for,
the mutants every property is tested with, the hazards and the theorems.

## The system

| Part | State | Operations | Talks to |
|---|---|---|---|
| Redirect and URL cache (`redirect.service`, `urlCache`, `singleFlight`) | one Redis key per code, a map of loads under way per process, timers of second DELs | resolve, SET, negative SET, DEL now and again 2 s later | Postgres, cache Redis through a breaker, the click recorder |
| Link creation and management (`url.service`, `urlManagement.service`) | table `urls` | create with a generated code or an alias, update of status or expiry, soft delete, list, get | id allocator, cache |
| Purge (`purge.service`, `maintenance.*`) | - | delete expired links, sessions, old clicks, hourly | Postgres |
| Id allocator (`idAllocator.service`) | a block of ids and a refill promise per process, one sequence | `nextId()` | Postgres |
| Short codes (`utils/shortCode`) | none | permute, base 62, validate, reserved names | - |
| Circuit breaker (`circuitBreaker`) | failures, open since, probing | `exec()` | in front of the cache and the limiter Redis |
| Click pipeline (`clickRecorder`, `click.queue`, `workers`, `click.processor`) | a buffer and batches in flight per process, the BullMQ queue, `clicks`, `urls.click_count` | record, flush, enqueue, process, retry, stall, complete | queue Redis, Postgres |
| Login sessions (`auth.service`, `authenticate`, `cookies`) | table `sessions`, the browser's cookies | register, login, refresh, logout, authenticate | Postgres, browser |
| Rate limiter (`utils/rateLimiter`) | two counters and a block per key, in Redis or in memory | hit, blockedUntil, sweep | limiter Redis through a breaker |
| Lifecycle (`config/lifecycle`, `index`, `worker`) | the steps of the shutdown | SIGTERM: drain, flush, queues, redis, db | all of them |
| Statistics (`stats.service`, `timeZone.service`) | a memoised set of zones | read-only aggregates | Postgres |
| HTTP plumbing, health, configuration, metrics, logging | counters | - | - |
| Session of a tab (`lib/api`, `hooks/auth`, `auth.store`, guards and forms) | cookies, auth store, the shared refresh, the router | /auth/me, login, registration, logout, refresh and replay, redirects of the pages | API |
| Links of a tab (`hooks/urls`, `queryClient`, `components/urls`) | query cache, mutations under way | list, pages, one link, create, toggle, expiry, optimistic delete | API |
| Shared packages, deployment, scripts | none | - | - |

How they interact: a redirect asks the cache, then Postgres once per process and
code, and hands a click to the recorder without waiting; a write commits in
Postgres and then corrects the cache; the recorder hands batches to the queue,
and workers store them; every request of the web client carries cookies that
name a session row, and a 401 makes the client refresh them and ask again. All
state between processes is in Postgres and Redis; within a process, what is
shared between requests changes at `await`s only.

What makes it hard, and what correct means, per part:

- **Cache.** A load that read before a write may SET after its DEL; commands are
  skipped, lost and late; a process dies with its timers. Correct: stale values
  are on their way out, staleness is bounded, a claimed code never leads to the
  old target, and a Redis that hangs holds nobody up.
- **Ids.** Concurrent callers, failed and half-failed queries, restarts. Correct:
  no id twice, no block for nothing, every call ends.
- **Breaker.** Calls overlap the changes of state. Correct: one probe, opens and
  stays closed exactly by the window, recovers.
- **Clicks.** At-least-once delivery, runs that outlive their lock, workers and
  processes that die, batches out of order. Correct: counters exact, latest time
  right, nothing kept for ever, and what is not stored accounted for.
- **Codes.** Aliases may take codes whose ids come later; ids are made by several
  processes. Correct: generated codes meet aliases only, and a create gives up
  only on aliases.
- **Limits.** One key is counted in Redis or in memory, as the breaker decides, by
  commands that may run late or twice. Correct: no more than two limits in a
  window's time, and trying alone never keeps a client out.
- **Sessions.** Refreshes race each other in two statements; a copied token looks
  like a second tab. Correct: the token last handed out works, a replaced one
  buys nothing after the grace period, two tabs that refresh at once are not taken for a
  thief.
- **Session of a tab.** Requests that find the token ended at the same time, answers
  that come after a logout, guards that send guests elsewhere. Correct: a live
  session serves all of them, nobody waits for ever, nothing of one user is left
  for the next, a guest does not stay on the dashboard.
- **Links of a tab.** Optimistic removals and their rollback, refetches that cross
  each other and the writes, lost answers. Correct: what is gone is about to leave
  every page, and once all answers are in, the tab shows what the API holds.

## Modules

Done, in the order of the plan:

| Module | Models | Runs |
|---|---|---|
| `UniqueIds` | what the allocator promises: ids in the range of the sequence, each once | - |
| `IdAllocator` | `nextId()` in several processes; refines `UniqueIds` | `id_allocator` |
| `IdAllocatorProofs` | theorems about it | - |
| `LinkCache` | one short code in Postgres, Redis and the API processes | `link_cache`, `link_cache_faults` |
| `LinkCacheProofs` | theorems about it | - |
| `CircuitBreaker` | one breaker and the calls through it | `circuit_breaker` |
| `CircuitBreakerProofs` | theorems about it | - |
| `ClickPipeline` | from `record()` to `urls.click_count` | `clicks` |
| `ClickPipelineProofs` | theorems about it | - |
| `AuthSession` | session rows, refreshes, the cookie jar, a thief | `auth`, `auth_three_refreshes`, `auth_expired_create` |
| `AuthSessionProofs` | theorems about it | - |
| `RateLimiter` | one key of one limiter: its counters and block in Redis and in memory | `rate_limiter` |
| `RateLimiterProofs` | theorems about it | - |
| `LinkCreation` | the choice of a short code: permuted ids and aliases; uses `UniqueIds` | `create` |
| `LinkCreationProofs` | theorems about it | - |
| `WebLinks` | a user's links in a tab: query cache, mutations, the pages that show them | `web_links` |
| `WebSession` | the session of a tab: cookies, auth store, shared refresh, guards | `web_session` |
| `WebProofs` | theorems about the two halves of a tab, `WebSession` and `WebLinks` | - |

An `MC` module extends each for TLC and gives the symmetry sets or the functions
that a `.cfg` cannot write. Operators under a comment that begins with "Mutant" are
wrong on purpose: each stands for a plausible bug, and a property is kept only if
TLC finds it violated when the bug takes the place of the definition.

To do:

1. The recent links of guests in `WebSession`, where the answer of a create may put
   the link of a user.
2. The list of time zones that is loaded once, and forgotten when its load fails.

## How state and actions correspond

**IdAllocator.** `next`, `end` and `refill` of each process are variables of the
same names; a caller that waits is at `await refill`. `Nextval` is the sequence in
Postgres, a step apart from the start of the query and from `Settle`, in which
the refill ends for all who wait; the callers then resume one by one and look
again. `QueryFails` and `Crash` lose an answer and a block.

**LinkCache.** `row` is the row of one code, `entry` its key in Redis, `pipe` the
commands an instance has sent and Redis has not run, `flight` the shared load of
`singleFlight`, `timers` the second DELs to come. A load is two steps
(`LoadRead`, `LoadDone`), because the SQL answer may wait while others write. A
SET is not waited for, the first DEL is. `now` counts units; every deadline of
the code is some of them. `Skipped` is the open breaker or a client that is not
connected. The purge is two steps, the subquery and the DELETE: the row may
change in between.

**CircuitBreaker.** Times are kept as ages, so that no bound on the clock is
needed: an age is capped where the code stops telling it from a greater one. A
call is `Start` (up to `fn()`) and `Succeed` or `Fail` (after it).

**ClickPipeline.** Batches are sets of clicks; a job is a batch with the number of
its copy. `adding` holds the enqueues not settled. `Stop` and `Exit` are the two ends
of a shutdown: between them only the flush of `stop()` itself (`final`) is waited
for. The flushes before it were called with `void`; an exit whose `quit()` was rejected
at once, on a connection that is not ready, cuts them off (`abandoned`). A worker's run is taken,
commits, and completes or fails; what it does to its job counts only while it
holds the lock, whose token is the stall count. BullMQ and Redis are external:
modelled from how the code configures and uses them.

**AuthSession.** A refresh is `Read` (the SELECT) and `Decide` (the UPDATE or the
DELETE, with a "now" taken in between). A retry after a lost race is a new `Read`.
`QueryFails` is a query that did nothing, `UpdateUnanswered` an UPDATE that is committed
and whose answer is lost: the cookies are cleared either way. (A DELETE of which that
is true is `Revoke`, which clears them too.) The jar has one refresh cookie, and the end
of the access token and of its cookie. A thief copies the cookie and refreshes with it.
`strayed` marks the sessions of which a copied token was used, or a new token was lost
with an answer.

**RateLimiter.** One client's key under one limiter; `Init` picks the limiter: plain,
with a block, and the limiter of misses, which also asks before it lets a lookup
pass (`Guard`) and hits a second time to place its block (`PlaceBlock`). Time is
kept relative to now - the position in the window, the age of a counter, what is
left of a block - so runs of any length are covered. The Redis store is the Lua
script, run with the window that its caller computed when it sent the command
(`Send`, `Run`, `Answer`); a command may run after its caller gave up, or twice
(`RunLate`), also when the process that sent it has started again since (`Restart`).
Redis or memory is a choice at each hit: what the breaker does is
`CircuitBreaker`'s matter. The weights of the estimate are exact fractions where
the code has floats.

**LinkCreation.** A create is `Begin`, `NextId`, and `Insert` or `Conflict`, which asks
for another id while attempts are left; `Fails` stands for every rejection, also
after the row was stored. `permute`, `reverseDigits` and base 62 are computed, with
the base, the length and the keys as constants. An alias is any code, those of
ids to come included. Ids come from `UniqueIds`: what `IdAllocator` implements, and
no more.

**WebSession.** `jar` is the cookies (the session they name, and the access token),
`auth` the store, `page` and `going` the router, `cached` the user whose links the
query cache holds. A request has a slot from its sending to the end of its
promise and carries the cookies of the moment it was sent: `sent`, `answered`,
or `waiting` for the shared refresh. `Refused` is the interceptor's 401, which
starts the refresh or joins it; `Refreshed` replays all who wait or makes a guest
of the user. A change of the store runs the effects of the page that is mounted
(`Effects`: `ProtectedRoute`, `PublicOnly`), and an arrival those of the new one.
`LoggedOut` clears the query cache: queries under way go on without a place to
store their answer (`orphan`); a request that waits for the refresh then is one of
them too. The server is `AuthSession` seen from one tab: a refresh of a live
session succeeds.

**WebLinks.** A key of the query cache is a page of the list or one link; `cache`
holds its data, flags and fetch. The API reads a page in two steps (`ReadPage`,
`ReadTotal`): one transaction at READ COMMITTED takes two snapshots. What a link holds is
the number of its last write, so two answers differ when they were read on
different sides of a write. A mutation is asked for on the page that offers it
(`Offered`, `Pagination`, `IsPending`), written, read back (a PATCH) and answered; `here`
is false once the component that asked is gone and has forgotten that it waits: its page
was left, or its row removed by a delete. (A row that goes with a refetch or behind an
error screen keeps it; then the model offers a little less than the code.) While a page
loads for the first time the one before it stands in (`Standing`, `keepPreviousData`).
`OnMutate` cancels fetches, takes the snapshot and removes the row; from a link's own
page the router leads back to the list in that step or later, so the answer may come
first (`AskDelete`). `DeleteAnswered` is the rollback or not, and then the invalidation. TanStack Query is
external: `Invalidated`, `Mounted`, `Refetched` and `Removed` say what version 5 does.

## What the runs show

| Run | Instance | Shows |
|---|---|---|
| `id_allocator` | 2 processes, 3 callers, 3 blocks of 2 | no id twice, refinement of `UniqueIds`, no block burned by concurrent callers, every call ends |
| `link_cache` | 2 processes, 1 visitor, 2 writers, 2 writes, delay 3, clock to 6, no faults | a stale value is always followed by a DEL and a stale "not found" is brief, answers are at most the double delete's delay old |
| `link_cache_faults` | 1 process, 1 visitor, 1 writer, links of users and of nobody, 2 writes, every fault, TTL 1, grace 2 | staleness ends with the TTL whatever is skipped, lost or dies; a deleted link's value is gone before its row; redirects and writes end though Redis never answers |
| `circuit_breaker` | 4 calls, threshold 3, window 2, open 4, timeout 3 | one probe, no stragglers, opens exactly at the threshold, recovers |
| `clicks` | 1 process, 2 links, 2 clicks, batches of 2, a cap of 3 or (below the flush size, as `clickRecorder.test.ts` has it) of 1, 2 attempts, 1 fault | exact counters and latest click, every click leaves memory and queue, and none is forgotten but those of a flush that an exit on a broken connection cut off |
| `auth` | 2 tabs, 1 thief, 1 login, 3 tokens, failed queries, lost answers | a session is ended for reuse only when a copied token was used or an answer with a new token lost (two tabs alone never do that), no token handed out is forgotten, none is accepted late, refreshes end |
| `rate_limiter` | window 2, limit 2, block 4, 2 requests at a time, 1 late command | two limits at most in a window's time, nobody is kept out by trying, the miss that spends the budget blocks |
| `create` | base 6, length 2, 2 requests, 2 attempts, 4 ids, 2 future codes and a reserved name as aliases | codes are distinct over the code space, only aliases collide, giving up takes aliases |
| `web_links` | 2 pages of 1 link, 2 links and a third to create, 2 mutations, 2 navigations, 1 failure | a link that is gone is about to leave the cached pages, the settled tab shows what the API holds, the row of a deleted link leaves the screen; each for the pages and links that are not `excused` (below) |
| `web_session` | 2 users, 2 sessions, 2 requests of links at a time, 1 token that ends, 2 moves, 1 failure | a live session serves everything through one refresh, who waits for it is sent again or fails, a logout leaves nothing in the query cache (but for the histories of `kicked` and `crossed`, below), an anonymous guest, or one whom the logout takes home, leaves the dashboard |
| `auth_three_refreshes` | 3 tabs | violation, below |
| `auth_expired_create` | 1 tab | violation, below |

**Why the bounds are enough.** The races in this code are of two or three parties:
two loads or a load and a write, two callers and a refill, two refreshes, a run
and the next run of its job. Each instance has those parties, at least two of
every deadline they race with, and one step more than the bug its mutant puts in
needs. What a bound cuts off (a third write, a third block) repeats a situation
the instance already has. Larger instances of the longest runs passed too, and are
not kept for their length: `link_cache_faults` with two processes and two writes
(safety, 3.3 million states), `clicks` with two faults (one link, 1.7 million),
`web_session` with three moves (safety, 4.3 million) or begun on any page
(1.9 million), `link_cache` with one process, one writer, a grace of 1 and an
expiry of 1 (7.5 million). The order of the times is that of the code: window <
open period, call timeout < open period, negative TTL <= URL TTL, latency < delay,
grace < access token < session, three deliveries < grace. Where a proof needs more
(twice the latency < delay), the run has it too. URL TTL < purge grace holds in
`link_cache_faults`, where it matters (`NoOldTarget`); in `link_cache` the grace
is the shorter one, so that an expired link is purged before the clock ends.

**Latency.** `LinkCache` and `AuthSession` let the clock wait for what is under
way, at most `Latency` units. The code has no such bound on Postgres. Its comments
assume one ("a moment later", "almost certainly two tabs"), and the staleness
properties are stated relative to it. Without it a load that takes longer than the
second DEL leaves a stale value for a whole TTL: that is `StalenessWithinTtl`.

**Deadlock** is checked where the system goes on for ever. The runs of `AuthSession`,
`WebLinks` and `WebSession` switch it off: with their bounds reached and every answer
in, nothing is left to do.

**Fairness** is weak and only on what the code or its platform drives on: the
continuation of a resolved promise, the answer of Postgres to a query, a
`commandTimeout`, the flush interval, workers and BullMQ's check for stalled jobs,
the delivery of an answer to the browser, the router's arrival, the clock. Visitors keep coming only in
the recovery of the breaker, which needs one to probe. No process need crash, stop
or restart, no fault is fair, no user need act.

### Findings

- **Three refreshes at once end the session** (`auth_three_refreshes`). Two rotate the
  token one after the other; the third presents the last but one, which is neither
  current nor previous, and `auth.service.ts:113` deletes the session milliseconds
  after the token was replaced. The comment on `refresh` promises a grace window
  for tabs that refresh at once.
- **Links made after 15 minutes are nobody's** (`auth_expired_create`). The access
  cookie ends with its token, so `optionalAuth` sees no cookie and not an expired
  one; the 401 that its comment describes never comes.

Seen while modelling, without a run of their own:

- A new link can be "not found" for one negative TTL, when a probe read before the
  INSERT and wrote after the write-through (`StaleIsDoomed` has the bound), and a
  disabled link can be followed for the two seconds of the double delete
  (`BoundedStaleness`).
- A link renewed between the two steps of the purge is deleted all the same, and its
  cached value may outlive its row: `link_cache_faults` has links without expiry.
- The cap of the click buffer does not bound memory: a flush takes the clicks out
  before its enqueue is awaited, and the producer has no command timeout, so the
  batches in flight to a Redis that hangs are not measured (`clickRecorder.ts:59`).
- An enqueue whose answer is lost counts its clicks as dropped although they are
  stored.
- "Deploys lose no buffered clicks" (`index.ts:21`) and "flush what's left, so deploys
  lose nothing" (`clickRecorder.ts:75`) hold for what is in the buffer at SIGTERM, not
  for a flush already under way: `stop()` does not know of it, `quit()` of a connection
  that is not ready rejects at once (`connection.ts:13`), `lifecycle.ts:37` logs that and
  the process exits with the enqueue pending, its clicks neither stored nor counted as
  dropped. `NothingVanishes` sets these clicks aside (`abandoned`).
- A client that is not told its new refresh token, because the answer of the refresh or
  the answer of its UPDATE is lost, presents the replaced one next; after the grace period
  its session is ended as stolen without any thief (`auth.service.ts:113`). A client that
  was told by a 500 has no cookies left and is a guest (`UpdateUnanswered`).
  `OnlyStrayedRevoked` counts these sessions as strayed.
- A query that fails in a refresh clears the cookies of a session that goes on
  (`errorHandler.ts:25`), and the tab is a guest's. `setGuest()` of the interceptor
  leaves the query cache as it is: whoever logs in next in that tab sees the
  former user's links until they are fetched again. `NothingOfOthers` sets these
  histories aside (`kicked`).
- A refresh that is answered after a login overwrites or clears the cookies of that
  login, and a late error of /auth/me makes a guest of it (`crossed`).
- A tab opened after 15 minutes shows a guest although the session lives: the 401 of
  /auth/me is on an auth route and is not refreshed (`api.ts:17`).
- A late 401 whose refresh fails overwrites the reason `logout` of the store: the user is taken to the
  login page after all (`auth.store.ts:4`). The browser's Back to the dashboard after
  a logout stays on the skeleton (`ProtectedRoute.tsx:21`); `GuestLeaves` leaves that
  case out. A logout that meets no network leaves the cookies.
- The answer of a create that comes while the status is `loading` or `guest` puts the
  link of a user among the guests' recent links (`useCreateShortUrl.ts:14`).
- The page and the total of a list come from two snapshots, not from "the same
  moment" (`urlManagement.service.ts:26`). After a delete the second page may be
  an empty table without buttons, which is not designed (`LinksList.tsx:23`). The row
  of one delete comes back for a while when the refetch of another mutation reads
  before it (`useDeleteUrl.ts:10`). A failed background refetch keeps the data
  (`queryClient.ts:20`), but `LinksList.tsx:35` shows the error in its place.
- A fetch that outlives an invalidation, because its page is not on the screen or has no
  data yet, passes for fresh with what it read before: after a delete
  (`useDeleteUrl.ts:35`) its answer brings the row of the link that is gone back, and
  nothing corrects that page before its `staleTime` has passed. Of two answers about one
  link the later to arrive wins, not the later to be read (`useUpdateUrl.ts:13`). And a
  create or a PATCH that was done, and whose answer is lost, invalidates nothing. The tab
  cannot know any of this; `excused` holds such keys, and `GhostIsDoomed`,
  `SettledIsServer` and `DeletedRowLeaves` set them aside.
- Limits: commands of two instances that overtake each other at the boundary of a
  window, or an outage of Redis in mid window, let through up to two limits - `NoDoubleBurst` has
  the weaker bound for the first, and bounds each store and not their sum in the second,
  for the life of its counters; Redis
  and the fallback can refuse in turn, which doubles the time a client is kept out;
  a client blocked in Redis has new tries while Redis is down. `sweep`'s comment
  speaks of dropping old windows now and then, but it clears every counter, and
  only past 100,000 keys.
- Generated codes are not compared with the reserved names, as aliases are: one of
  those of seven letters (`metrics`, `account`) may come up, rarely.

## What is proved

Constants are arbitrary, within the named assumptions of the modules. "Types" is
`TypeOK` (in `WebLinks`, `LinksTypeOK`) as a theorem. `WebProofs` extends both modules of
a tab; their names differ, and no theorem speaks of both states. A hypothesis of a theorem is a named operator of its module,
and the run that checks the same property satisfies it.

| Module | Theorem | States | Hypotheses |
|---|---|---|---|
| `IdAllocatorProofs` | `TypeCorrect` | types | - |
| | `UniqueIdsHandedOut` | `UniqueLog`: no id twice | - |
| | `ImplementsUniqueIds` | the refinement | - |
| | `OneBlockAtATime` | `NoBlockBurned` | - |
| `CircuitBreakerProofs` | `TypeCorrect` | types | - |
| | `AtMostOneProbe` | `OneProbe` | - |
| | `NoStragglersEver` | `NoStragglers` | - |
| | `OpensAsSeen` | `OpensAtThreshold` | - |
| `LinkCreationProofs` | `TypeCorrect` | types | - |
| | `OneCodePerId` | `CodesDistinct` | - |
| | `OnlyAliasesEverCollide` | `OnlyAliasesCollide` | - |
| | `GivingUpTakesAliases` | `GivesUpOnlyOnAliases` | - |
| `ClickPipelineProofs` | `TypeCorrect` | types | - |
| | `EveryClickCountedOnce` | `CountsAreExact` | - |
| | `NoClickForgotten` | `NothingVanishes`, which sets aside the clicks an exit abandoned | - |
| `AuthSessionProofs` | `TypeCorrect` | types | - |
| | `TokensRotate` | `CurrentThenGrace` | - |
| | `TwoTabsAreSafe` | `OnlyStrayedRevoked`: no session is ended for reuse unless a copied token of it was used, or a new one lost with an answer | `TwoTabs`, `Prompt` |
| `LinkCacheProofs` | `TypeCorrect` | types | - |
| | `StaleValuesAreDoomed` | `StaleIsDoomed` | `Spaced`, `NoneLost` |
| | `AnswersAreRecent` | `BoundedStaleness` | `Spaced`, `NoneLost` |
| | `AnswersAreWithinTtl` | `StalenessWithinTtl` | `NegativeIsShort` |
| | `OldTargetGone` | `NoOldTarget` | `Lasting` |
| `RateLimiterProofs` | `TypeCorrect` | types | - |
| | `BoundaryBurst` | `NoDoubleBurst` | - |
| | `ScannersAreBlocked` | `MissesBlock` | - |
| | `RefusalsEnd` | `NoLockout` | - |
| `WebProofs` | `TypeCorrect` | types | - |
| | `CacheIsOnesOwn` | `NothingOfOthers`, which sets aside the histories of `kicked` and `crossed` | - |
| | `LiveSessionsServe` | `LiveSessionServes` | - |
| | `LinksTyped` | types | - |
| | `GhostsAreDoomed` | `GhostIsDoomed`, for the pages that are not `excused` | - |
| | `RestIsServer` | `SettledIsServer`, for the pages and links that are not `excused` | - |

Few of these are inductive by themselves (`OneProbe` and `CountsAreExact` are, with
the types). What the invariants add, and why:

- **IdAllocator.** Every block that exists - held by a process, or in an answer on its
  way - is a whole block below the sequence, the blocks of different processes are
  different, and what a process has yet to hand out is not in the log. The
  refinement follows from the same invariant: a step hands out an id that is fresh
  and in range, or stutters. That no block is burned needs `Sharing`: the promise in
  `refill` is there exactly while its query is under way, so a second caller finds it.
- **CircuitBreaker.** For the stragglers, that a call which is no probe has run at
  least as long as the breaker has been open, because none starts while it is open:
  it is over, by its timeout, before the half-open state (`CallMs < OpenMs`, an
  assumption). For the threshold, that the failures the breaker keeps are a suffix of
  those that happened, whose ages fall along the sequence, so the window cuts both at
  the same place (`History`, `Matching`, `Room`).
- **LinkCreation.** `permute` multiplies by a key that no prime factor of the base
  divides, hence is invertible (Bezout, from `PrimesAssumption` and `KeysAssumption`);
  reversing digits loses nothing, because a number below base^length is its digits. Both are
  recursive functions, reasoned about digit by digit with the least-element principle
  on a set of numbers in place of an induction scheme. That distinct ids have
  distinct codes is therefore proved, no longer assumed. The invariant then says
  that an id in hand is in no row and in no other hand, and that the rows a request
  has met are as many as its attempts, all aliases, with the codes of ids before
  the one in hand.
- **ClickPipeline.** The counters are exact because the statement counts the rows it
  really inserted. That nothing vanishes needs more: the batch of a run that committed,
  and of a job that is done, is stored (`Committed`); a click is in a buffer, in an
  enqueue, in a job, or among those dropped, lost or abandoned on record (`Accounted`); a
  process that is not up has an empty buffer (`Flushed`). A job that will run has an
  attempt left (`AttemptLeft`).
- **AuthSession.** A refresh grants the token of the row it has read, so what is said of
  the tokens is said of that row too: a token that was not replaced is its
  session's current one (`Named`), and the time in a row is not later than the rotation
  (`Rotated`). That two tabs alone do not look like theft is an argument about time. Two tabs
  of a session that has not strayed hold its current token and the one before,
  no older ones (`InUse`), and nobody rotates the current token while the other tab
  has still to do with the previous one (`InTurn`). `TwoTabs` is the case the code's
  comment speaks of; three tabs are a finding. `Prompt` says that three deliveries fit in
  the grace, and four in the life of an access token and in that of a session (30 s,
  15 minutes and 30 days in the code).
- **LinkCache.** Before a value of an old row is in Redis it was read by a load, then
  under way in a SET: each has a DEL that comes after it (`Covered`), so a DEL that was
  sent is not enough, and a second one must be due later than anything read before can
  arrive - which is what `DOUBLE_DELETE_DELAY_MS` is for. `Spaced` is that order: twice
  the latency below the delay of 2 s, and a latency within the purge grace of 30 days.
  The purge sends no DEL: by then every value of the row is gone and no command can
  bring it (`ReadInTime`), or the owner has just renewed it (`Selected`). `NoneLost`:
  no command is skipped or lost and no process dies; keys may be evicted, commands may
  time out, queries may fail. With lost commands the property is false.
  `BoundedStaleness` needs more than some DEL to come: each change has its own,
  whose time is known (`Bounded`: told to Redis within a latency, due a delay after
  that, there a latency later), so a value that is still held is of a version
  replaced no longer ago than that. The other two hold whatever fails, because values end:
  what was read at a time was the link's then (`LinkSince`, `GoneSince`), it is in
  Redis a latency later or never, and lives a TTL. `OldTargetGone` adds that the row a
  value names is there until the value ends (`Target`): a deleted row is kept for the
  grace of 30 days, a value for a day (`Lasting`). `Lasting` also leaves out links with an
  expiry: one that is renewed between the two steps of the purge is the
  counterexample, told among the findings. The types across the death of a process need
  that a GET is in the pipe of the instance its request is at (`Home`), and what is left of a
  pipe is a recursive function (`AllUnawaited`), reasoned about like the digits of
  `LinkCreation`.
- **RateLimiter.** What a store has let through is what its counters say or less: in
  memory the same, in Redis a request may be counted whose answer is yet to come or
  never came (`Counted`); no counter goes while its window still matters (`Kept`). So the
  burst is about the counters alone (`Weighed`): a hit that passes leaves at most the
  limit, at the place in the window where it was sent, which is never later than
  where the window is now (`Placed`), and the weight only shrinks. For the scanners
  (`Scanned`): the misses of a process are counted, or its client is blocked for longer
  than this window, and who has spent the budget is about to place the block. That
  refusals end (`Calm`) is an argument about what a refusal is on account of: a memory
  refuses for requests it let through itself, or for a block that began with them, so
  after a pause of two windows and a block it lets requests through. Until then, and
  no longer, Redis may count requests whose answers are lost and which a memory then
  refuses; what it counts later is answered, or let through by the memory, or belongs
  to a command that was given up before. So Redis too lets requests through after one
  more pause: twice a pause is the bound.
- **WebSession.** What each request still knows to be true (`SlotOk`: whose session its
  cookies and its answer name), and of the rest: the server's sessions have users
  (`Made`), someone logged in is leaving the login page (`Guarded`), nobody signs in or
  out before /auth/me is answered, unless the two cross (`MeFirst`), and whose the
  cookies and the cache are (`Orderly`).
- **WebLinks.** Each step is one of three kinds (`Classified`). The answer of a mutation
  that succeeded, or of a delete in any case, invalidates every page: what was read
  before is then known to be old or is `excused`, and nothing has to be known of the
  state before (`AllInvalid`); this is why a rollback may restore any old page. Or a
  delete is under way afterwards, whose answer will do the same. Or no delete is, no
  link goes, and each page goes on by itself: it is fetched anew, or its fetch
  takes one step (`Ordinary`). The invariant `LinksInv` then says, for an ordinary state, that
  a row of a link that is gone is not in a fetch that has read, either (`GhostsReadToo`); and that,
  unless a mutation has written and has yet to tell the cache (`Telling`), a fetch has
  read, and a fresh page shows, what the API holds (`ListsTrue`). The
  lost answer of a create or of a PATCH tells nothing: all pages are `excused`. A PATCH
  whose read back finds the link gone tells nothing either, but the delete does. The
  page of one link is its own argument, since a PATCH stores its own answer there:
  either a step leaves it and the link alone, or a mutation of the link is still to be
  answered, or what it shows is true after the step (`DetailsTrue`); a fetch of a link that a
  later write overtook is `excused` as it arrives. The types need that totals stay in
  range through optimistic removals, and that no link is written more often than
  asked: the writes of a link and the mutations yet to be written are together at most
  the mutations there were, and one (`Table`). `NoDataAssumption` says that "undefined" is
  no page and no link.

What is only model-checked:

- every liveness property (`CallsEnd`, `RequestsEnd`, `Recovers`, `PendingEnds`,
  `RefreshEnds`, `WaitingEnds`, `GuestLeaves`, `DeletedRowLeaves`): liveness under
  fairness is out of the prover's reach. Every other property of a passing run is
  stated by a theorem above.

## What is not modelled

- The recent links of guests and the list of time zones: planned above.
- Statistics: read-only aggregates of rows that `ClickPipeline` keeps.
- The time of the shutdown: `Kill` may come at any moment of a stop, so whether ten
  seconds are enough for the drain is not asked. Requests that outlive the drain.
- The retention purge of old clicks: it deletes rows of `clicks` and leaves
  `click_count`, so `CountsAreExact` speaks of the clicks within retention. A job run
  again by hand after its clicks were purged would count twice.
- In the web client: requests that the browser gives up and the API runs later, the
  collection of queries nobody looks at, pausing while offline, the form values of
  the dialogs, several tabs (their cookies are in `AuthSession`), the statistics panel.
- Passwords, input schemas, headers, logs, metrics, layout and wording: no state that
  interacts. Deployment, generated code and build files.
