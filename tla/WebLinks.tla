------------------------------- MODULE WebLinks --------------------------------
(***************************************************************************)
(* A user's links in one browser tab: the query cache behind the list, its *)
(* pages and the page of one link, and the mutations that change them.     *)
(*   apps/web/src/hooks/urls/*.ts, lib/queryClient.ts,                     *)
(*   apps/web/src/components/urls/*.tsx,                                   *)
(*   apps/api/src/services/urlManagement.service.ts                        *)
(*                                                                         *)
(* A key is a page of the list or one link.  Requests run in the API some  *)
(* time after they are sent and their answers arrive in any order.  What a *)
(* link holds is abstracted to the number of its last write: two answers   *)
(* differ when they were read on different sides of a write.  TanStack     *)
(* Query is modelled as version 5 behaves: a refetch replaces the fetch    *)
(* under way only when the query has data, otherwise it joins it.          *)
(***************************************************************************)
EXTENDS Integers, FiniteSets

CONSTANTS
    ListPages,  \* the pages of the list that are looked at
    Limit,      \* links per page, 20
    Initial,    \* links the user has when the tab is opened
    MaxCode,    \* bound: links there ever are
    MaxOps,     \* bound: creates, edits and deletes
    MaxTurns,   \* bound: navigations and retries by hand
    MaxLosses,  \* bound: requests that fail or whose answer is lost
    NoData      \* "undefined"

ASSUME PagesAssumption == 1 \in ListPages /\ ListPages \subseteq Nat \ {0} /\ Limit \in Nat \ {0}
ASSUME LinksAssumption == {MaxCode, MaxOps, MaxTurns, MaxLosses} \subseteq Nat /\ Initial \in 0..MaxCode

Code == 1..MaxCode                      \* in the order of createdAt
Lists   == {<<"list", p>> : p \in ListPages}
Details == {<<"detail", c>> : c \in Code}
Key     == Lists \cup Details

VARIABLES
    links,   \* the table: per code the number of its last write, and whether it is live
    cache,   \* the QueryClient: per key its data, flags and fetch
    screen,  \* the key that is mounted
    muts,    \* mutations whose answer has not arrived
    ops, turns, losses,
    excused  \* history: keys whose data may be old in a way the tab cannot know

linkVars == <<links, cache, screen, muts, ops, turns, losses, excused>>

Link   == [ver : 0..MaxOps + 1, live : BOOLEAN]
Total  == -MaxOps..MaxCode
Urls   == UNION {[S -> 1..MaxOps + 1] : S \in SUBSET Code}
Page   == [urls : Urls, total : Total, hasMore : BOOLEAN]
Detail == [ver : 1..MaxOps + 1]
(* "undefined" is no answer. *)
ASSUME NoDataAssumption == NoData \notin Page \cup Detail

Answers(k) == (IF k \in Lists THEN Page ELSE Detail) \cup {NoData}
Fetch(k) == [pc : {"none", "asked"}] \cup [pc : {"paged"}, urls : Urls]
            \cup [pc : {"answered"}, data : Answers(k)]
Query(k) == [data : Answers(k), invalid : BOOLEAN, error : {"none", "failed", "missing"}, fetch : Fetch(k)]
Mut    == [n : 1..MaxOps, kind : {"create", "status", "expiresAt", "delete"}, code : 0..MaxCode,
           pc : {"sent", "written", "done", "failed"}, ver : 0..MaxOps + 1, here : BOOLEAN,
           snapshot : [Lists -> Page \cup {NoData}]]

LinksTypeOK ==
    /\ links \in [Code -> Link]
    /\ DOMAIN cache = Key
    /\ \A k \in Key : cache[k] \in Query(k)
    /\ screen \in Key
    /\ \A m \in muts : m \in Mut
    /\ ops \in 0..MaxOps /\ turns \in 0..MaxTurns /\ losses \in 0..MaxLosses
    /\ excused \subseteq Key

Exists(c) == links[c].live

--------------------------------------------------------------------------------
(* urlManagement.service.ts: the user's rows, newest first. *)

Newer(c) == {d \in Code : Exists(d) /\ d > c}
(* findMany(): the rows of page p. *)
PageOf(p) ==
    [c \in {d \in Code : Exists(d) /\ Cardinality(Newer(d)) \div Limit = p - 1} |-> links[c].ver]

(* count() *)
CountAll == Cardinality({c \in Code : Exists(c)})

WithTotal(p, urls) == [urls |-> urls, total |-> CountAll, hasMore |-> p * Limit < CountAll]

(* What a fetch of this key would answer now. *)
Server(k) == IF k \in Lists THEN WithTotal(k[2], PageOf(k[2]))
             ELSE IF Exists(k[2]) THEN [ver |-> links[k[2]].ver] ELSE NoData

--------------------------------------------------------------------------------
(* TanStack Query *)

NoFetch == [pc |-> "none"]
Asked   == [pc |-> "asked"]
Empty   == [data |-> NoData, invalid |-> FALSE, error |-> "none", fetch |-> NoFetch]

Fetching(q) == q.fetch.pc # "none"

(* Query.setData(): data from outside a fetch counts as fresh. *)
WithData(q, data) == [q EXCEPT !.data = data, !.invalid = FALSE, !.error = "none"]

(* A fetch begins; without data the query is pending again. *)
Refetched(q) == [q EXCEPT !.fetch = Asked, !.error = IF q.data = NoData THEN "none" ELSE @]

(* Mutant: the keys are marked, nothing is fetched (refetchType: "none"). *)
OnlyMarked(k, q) == [q EXCEPT !.invalid = TRUE]

(* invalidateQueries(): an active query is fetched again at once. *)
Invalidated(k, q) ==
    LET marked == [q EXCEPT !.invalid = TRUE] IN
    IF k # screen \/ (Fetching(q) /\ q.data = NoData) THEN marked ELSE Refetched(marked)

(* A fetch that read before the change and is not replaced: its answer passes for fresh. *)
Outlives(k, q) == (k # screen \/ q.data = NoData) /\ q.fetch.pc \notin {"none", "asked"}

(* invalidateQueries({ queryKey: lists }) on the cache c. *)
InvalidateLists(c, crossed) ==
    /\ cache' = [k \in Key |-> IF k \in Lists THEN Invalidated(k, c[k]) ELSE c[k]]
    /\ excused' = ((excused \cup crossed) \ {k \in Lists : k = screen}) \cup {k \in Lists : Outlives(k, c[k])}

(* A query is mounted: fetched unless it has fresh data.  "old": staleTime passed. *)
Mounted(k, old) ==
    LET q == cache[k] IN
    IF ~Fetching(q) /\ (q.data = NoData \/ q.invalid \/ old)
    THEN [cache EXCEPT ![k] = Refetched(q)]
    ELSE cache

LinksInit ==
    /\ links = [c \in Code |-> IF c <= Initial THEN [ver |-> 1, live |-> TRUE]
                               ELSE [ver |-> 0, live |-> FALSE]]
    /\ screen = <<"list", 1>>
    /\ cache = [k \in Key |-> IF k = <<"list", 1>> THEN [Empty EXCEPT !.fetch = Asked] ELSE Empty]
    /\ muts = {} /\ ops = 0 /\ turns = 0 /\ losses = 0 /\ excused = {}

Turn  == turns < MaxTurns /\ turns' = turns + 1
Fault == losses < MaxLosses /\ losses' = losses + 1

(* The API reads the page ... *)
ReadPage(k) ==
    /\ cache[k].fetch = Asked /\ k \in Lists
    /\ cache' = [cache EXCEPT ![k].fetch = [pc |-> "paged", urls |-> PageOf(k[2])]]
    /\ UNCHANGED <<links, screen, muts, ops, turns, losses, excused>>

(* ... and the total.  One transaction, at READ COMMITTED: two snapshots. *)
ReadTotal(k) ==
    /\ cache[k].fetch.pc = "paged"
    /\ cache' = [cache EXCEPT ![k].fetch = [pc |-> "answered", data |-> WithTotal(k[2], @.urls)]]
    /\ UNCHANGED <<links, screen, muts, ops, turns, losses, excused>>

(* getUrl() *)
ReadDetail(k) ==
    /\ cache[k].fetch = Asked /\ k \in Details
    /\ cache' = [cache EXCEPT ![k].fetch = [pc |-> "answered", data |-> Server(k)]]
    /\ UNCHANGED <<links, screen, muts, ops, turns, losses, excused>>

(* The answer about one link that a later write has overtaken on its way. *)
Overtaken(k, data) == {e \in {k} : k \in Details /\ data # Server(k)}

(* The fetch succeeds, or ends with "Link not found". *)
FetchEnds(k) ==
    /\ cache[k].fetch.pc = "answered"
    /\ LET data == cache[k].fetch.data IN
       IF data = NoData
       THEN /\ cache' = [cache EXCEPT ![k].fetch = NoFetch, ![k].error = "missing", ![k].invalid = TRUE]
            /\ UNCHANGED excused
       ELSE /\ cache' = [cache EXCEPT ![k] = [WithData(@, data) EXCEPT !.fetch = NoFetch]]
            /\ excused' = (excused \ {e \in {k} : k \in Details}) \cup Overtaken(k, data)
    /\ UNCHANGED <<links, screen, muts, ops, turns, losses>>

(* No answer, or a 5xx to the last retry: the error is on the query, its data stays. *)
FetchFails(k) ==
    /\ Fetching(cache[k])
    /\ cache' = [cache EXCEPT ![k].fetch = NoFetch, ![k].error = "failed", ![k].invalid = TRUE]
    /\ Fault
    /\ UNCHANGED <<links, screen, muts, ops, turns, excused>>
--------------------------------------------------------------------------------
(* The pages: LinksList, LinkDetail and the dialogs of a row *)

(* useMyUrls(): the page that is shown.  While one loads for the first time, it  *)
(* is the one before it (keepPreviousData), from which the browser comes.        *)
Standing(p) ==
    LET before == <<"list", p - 1>> IN
    IF cache[<<"list", p>>].data = NoData /\ before \in Lists THEN before ELSE <<"list", p>>

(* What LinksList puts on the screen: skeleton, error, empty state or table.     *)
ListScreen(p) ==
    LET error == cache[<<"list", p>>].error
        data  == cache[Standing(p)].data IN
    CASE error # "none"                    -> "error"
      [] error = "none" /\ data = NoData -> "skeleton"
      [] OTHER -> IF DOMAIN data.urls = {} /\ p = 1 THEN "empty" ELSE "table"

RowsOf(k) == IF cache[k].data = NoData THEN {} ELSE DOMAIN cache[k].data.urls

(* LinkDetail: until its own answer comes, a row of a cached page stands in for it. *)
DetailScreen(c) ==
    LET q == cache[<<"detail", c>>] IN
    CASE q.error # "none"                                    -> "error"
      [] q.error = "none" /\ q.data = NoData /\ c \notin UNION {RowsOf(k) : k \in Lists} -> "skeleton"
      [] OTHER                                               -> "link"

(* The links whose menu (LinkActions) is on the screen. *)
Offered(c) ==
    IF screen \in Details THEN c = screen[2] /\ DetailScreen(c) = "link"
    ELSE ListScreen(screen[2]) = "table" /\ c \in RowsOf(Standing(screen[2]))

(* The pages the buttons of Pagination lead to from the page that is shown; it   *)
(* hides when one page holds all.                                                *)
Pagination(p) ==
    LET shown == Standing(p)
        data  == cache[shown].data IN
    IF ListScreen(p) # "table" \/ (ListScreen(p) = "table" /\ data.total <= Limit) THEN {}
    ELSE {n \in ListPages \ {p} : n = shown[2] - 1 \/ (n = shown[2] + 1 /\ data.hasMore)}

LeadsTo(k) ==
    IF k \in Details THEN screen \in Lists /\ Offered(k[2])
    ELSE IF screen \in Details THEN k[2] = 1 ELSE k[2] \in Pagination(screen[2])

(* A component that is unmounted forgets that its mutation is pending; the form  *)
(* stays while the pages of the list are turned.                                  *)
Left(m, k) == IF m.kind = "create" /\ {k, screen} \subseteq Lists THEN m ELSE [m EXCEPT !.here = FALSE]

(* A page is opened: Pagination's buttons, a row's link, "Links", or the list     *)
(* when the router takes effect after a delete on the link's own page.           *)
Open(k, old) ==
    /\ LeadsTo(k) /\ Turn
    /\ screen' = k
    /\ cache' = Mounted(k, old)
    /\ muts' = {Left(m, k) : m \in muts}
    /\ excused' = IF cache[k].fetch # cache'[k].fetch THEN excused \ {k} ELSE excused
    /\ UNCHANGED <<links, ops, losses>>

(* "Try again" of ErrorState: refetch(); not offered for a link that is not found. *)
Retry ==
    /\ cache[screen].error = "failed" /\ ~Fetching(cache[screen]) /\ Turn
    /\ cache' = [cache EXCEPT ![screen] = Refetched(@)]
    /\ excused' = excused \ {screen}
    /\ UNCHANGED <<links, screen, muts, ops, losses>>

NoSnapshot == [k \in Lists |-> NoData]

Mutation(kind, c, snapshot) ==
    [n |-> ops + 1, kind |-> kind, code |-> c, pc |-> "sent", ver |-> 0, here |-> TRUE, snapshot |-> snapshot]

Op == ops < MaxOps /\ ops' = ops + 1

(* update.isPending, create.isPending: the button is off. *)
IsPending(kind, c) == \E m \in muts : m.here /\ m.kind = kind /\ (kind = "create" \/ m.code = c)

(* ShortenForm's submit on the dashboard. *)
AskShorten ==
    /\ screen \in Lists /\ ~IsPending("create", 0) /\ Op
    /\ links[MaxCode].ver = 0
    /\ muts' = muts \cup {Mutation("create", 0, NoSnapshot)}
    /\ UNCHANGED <<links, cache, screen, turns, losses, excused>>

(* useUpdateUrl().mutate() *)
AskUpdate(c, kind) ==
    /\ Offered(c) /\ ~IsPending(kind, c) /\ Op
    /\ muts' = muts \cup {Mutation(kind, c, NoSnapshot)}
    /\ UNCHANGED <<links, cache, screen, turns, losses, excused>>

(* LinkActions: the menu of a row, "Disable link" or "Enable link" in it. *)
AskToggle(c) == AskUpdate(c, "status")

(* EditLinkDialog: "Save" or "Remove expiry". *)
AskExpiry(c) == AskUpdate(c, "expiresAt")

(* The updater of setQueriesData(): the page without the row. *)
WithoutRow(q, c) ==
    IF q.data = NoData THEN q
    ELSE WithData(q, [q.data EXCEPT !.urls = [d \in DOMAIN @ \ {c} |-> @[d]], !.total = @ - 1])

Cancelled(q) == [q EXCEPT !.fetch = NoFetch]

(* The menu of a mutation's link goes with the page, or with the row.            *)
Unmounts(m, c, k) == k # screen \/ (screen \in Lists /\ m.code = c)

(* onMutate() of useDeleteUrl(), after which page k is on the screen. *)
OnMutate(c, k) ==
    LET after == [e \in Key |-> IF e \in Lists THEN WithoutRow(Cancelled(cache[e]), c) ELSE cache[e]]
        asked == Mutation("delete", c, [e \in Lists |-> cache[e].data])
    IN
    /\ Offered(c) /\ Op
    /\ screen' = k
    /\ cache' = IF k # screen /\ after[k].data = NoData THEN [after EXCEPT ![k] = Refetched(@)] ELSE after
    /\ muts' = {IF Unmounts(m, c, k) THEN Left(m, k) ELSE m : m \in muts} \cup {asked}
    /\ UNCHANGED <<links, turns, losses, excused>>

(* confirm() of DeleteLinkDialog: from the link's own page the router leads back *)
(* to the list, at once or later (Open).                                         *)
AskDelete(c) ==
    \/ OnMutate(c, screen)
    \/ screen \in Details /\ OnMutate(c, <<"list", 1>>)

--------------------------------------------------------------------------------
(* The API runs a mutation, and its answer arrives *)

Becomes(m, n) == muts' = (muts \ {m}) \cup {n}

(* The INSERT of a create, the updateMany() of a PATCH or a DELETE. *)
Write(m) ==
    /\ m.pc = "sent"
    /\ IF m.kind = "create"
       THEN \E c \in Code : /\ links[c].ver = 0 /\ \A d \in 1..c - 1 : links[d].ver > 0
                            /\ links' = [links EXCEPT ![c] = [ver |-> 1, live |-> TRUE]]
                            /\ Becomes(m, [m EXCEPT !.pc = "done", !.code = c, !.ver = 1])
       ELSE IF ~Exists(m.code) THEN UNCHANGED links /\ Becomes(m, [m EXCEPT !.pc = "failed"])
       ELSE /\ links' = [links EXCEPT ![m.code] = [ver |-> @.ver + 1, live |-> m.kind # "delete"]]
            /\ Becomes(m, [m EXCEPT !.pc = IF m.kind = "delete" THEN "done" ELSE "written"])
    /\ UNCHANGED <<cache, screen, ops, turns, losses, excused>>

(* updateUrl() answers with what getUrl() reads after invalidateUrl(). *)
ReadBack(m) ==
    /\ m.pc = "written"
    /\ Becomes(m, IF Exists(m.code) THEN [m EXCEPT !.pc = "done", !.ver = links[m.code].ver]
                  ELSE [m EXCEPT !.pc = "failed"])
    /\ UNCHANGED <<links, cache, screen, ops, turns, losses, excused>>

(* The request, or its answer, is lost; a mutation is not repeated. *)
MutationLost(m) ==
    /\ m.pc # "failed" /\ Fault
    /\ Becomes(m, [m EXCEPT !.pc = "failed"])
    /\ excused' = IF m.pc = "sent" \/ m.kind = "delete" THEN excused
                  ELSE excused \cup Lists \cup {k \in Details : k[2] = m.code}
    /\ UNCHANGED <<links, cache, screen, ops, turns>>

Settled(m) == muts' = muts \ {m} /\ UNCHANGED <<links, screen, ops, turns, losses>>

(* useCreateShortUrl(): onSuccess. *)
CreateAnswered(m) ==
    /\ m.kind = "create" /\ Settled(m)
    /\ IF m.pc = "done" THEN InvalidateLists(cache, {}) ELSE m.pc = "failed" /\ UNCHANGED <<cache, excused>>

(* Mutant: the answer of a PATCH is not stored; a failed one is. *)
UpdateNotStored(m) ==
    /\ m.kind \in {"status", "expiresAt"} /\ Settled(m)
    /\ IF m.pc = "done" THEN InvalidateLists(cache, {}) ELSE m.pc = "failed" /\ UNCHANGED <<cache, excused>>
UpdateSettled(m) ==
    /\ m.kind \in {"status", "expiresAt"} /\ m.pc \in {"done", "failed"} /\ Settled(m)
    /\ InvalidateLists([cache EXCEPT ![<<"detail", m.code>>] = WithData(@, [ver |-> m.ver])], {})

(* useUpdateUrl(): onSuccess, onError. *)
UpdateAnswered(m) ==
    LET k == <<"detail", m.code>> IN
    /\ m.kind \in {"status", "expiresAt"} /\ Settled(m)
    /\ \/ /\ m.pc = "done"
          /\ InvalidateLists([cache EXCEPT ![k] = WithData(@, [ver |-> m.ver])],
                             Overtaken(k, [ver |-> m.ver]))
       \/ m.pc = "failed" /\ UNCHANGED <<cache, excused>>

(* onError of useDeleteUrl(): each page goes back to what it was in onMutate. *)
RolledBack(m) ==
    [k \in Key |-> IF k \in Lists /\ m.snapshot[k] # NoData THEN WithData(cache[k], m.snapshot[k])
                   ELSE cache[k]]

(* removeQueries(): a page that shows the link asks for it again when it renders. *)
Removed(c, k, rendered) == [c EXCEPT ![k] = IF k = screen /\ rendered THEN Refetched(Empty) ELSE Empty]

(* Mutant: the lists are invalidated in onSuccess, not in onSettled. *)
DeleteNotSettled(m) ==
    /\ m.kind = "delete" /\ m.pc \in {"done", "failed"} /\ Settled(m)
    /\ IF m.pc = "done" THEN InvalidateLists(Removed(cache, <<"detail", m.code>>, FALSE), {})
       ELSE cache' = Removed(RolledBack(m), <<"detail", m.code>>, FALSE) /\ UNCHANGED excused

(* useDeleteUrl(): onSuccess or onError, then onSettled. *)
DeleteAnswered(m) ==
    /\ m.kind = "delete" /\ m.pc \in {"done", "failed"} /\ Settled(m)
    /\ \E rendered \in BOOLEAN :
          InvalidateLists(Removed(IF m.pc = "done" THEN cache ELSE RolledBack(m),
                                  <<"detail", m.code>>, rendered), {})
--------------------------------------------------------------------------------
Using ==
    \/ AskShorten
    \/ \E c \in Code : AskToggle(c) \/ AskExpiry(c) \/ AskDelete(c)
    \/ \E k \in Key, old \in BOOLEAN : Open(k, old)
    \/ Retry

Answering ==
    \/ \E k \in Key : ReadPage(k) \/ ReadTotal(k) \/ ReadDetail(k) \/ FetchEnds(k)
    \/ \E m \in muts : Write(m) \/ ReadBack(m) \/ CreateAnswered(m) \/ UpdateAnswered(m) \/ DeleteAnswered(m)

Losing == (\E k \in Key : FetchFails(k)) \/ (\E m \in muts : MutationLost(m))

LinksNext == Using \/ Answering \/ Losing

LinksSpec == LinksInit /\ [][LinksNext]_linkVars

(* The API answers what is sent to it and promises are continued; the user need  *)
(* not do anything.                                                              *)
LinksFairness == WF_linkVars(Answering)

FairLinksSpec == LinksSpec /\ LinksFairness

--------------------------------------------------------------------------------
Holds(k, c) == cache[k].data # NoData /\ c \in DOMAIN cache[k].data.urls

(* What will still correct a page: a mutation to settle, a fetch that has not    *)
(* read yet or read after the link went, the next visit, or the error screen.    *)
Corrected(k, c) ==
    \/ \E m \in muts : m.kind = "delete"
    \/ cache[k].invalid
    \/ LET f == cache[k].fetch IN
       \/ f.pc = "asked"
       \/ f.pc = "paged" /\ c \notin DOMAIN f.urls
       \/ f.pc = "answered" /\ c \notin DOMAIN f.data.urls

(* The rollback of one failed delete restores a snapshot in which a link that    *)
(* was deleted meanwhile is listed, and a refetch of one mutation can bring back *)
(* the row of another: in a cached page that is not `excused`, a link that is    *)
(* gone is about to be corrected.  Excused, and left out here, are               *)
(*   - a page whose fetch read before the delete and outlives the invalidation,  *)
(*     because the page is not on the screen or has no data yet (Outlives): its  *)
(*     answer brings the row back and counts as fresh, and nothing corrects it   *)
(*     before its staleTime has passed;                                          *)
(*   - every page after a create or a PATCH was done and its answer lost.        *)
GhostIsDoomed ==
    \A k \in Lists, c \in Code : Holds(k, c) /\ ~Exists(c) => Corrected(k, c) \/ k \in excused

Quiet(k) == muts = {} /\ ~Fetching(cache[k]) /\ ~cache[k].invalid /\ cache[k].data # NoData

(* Once every answer is there, a page and a link show what the API would answer: *)
(* rows, order, total and what the links hold, after optimistic removals,        *)
(* rollbacks, crossing refetches and lost answers of deletes.  It sets aside the *)
(* excused keys: the two kinds above, and a link whose answer a later write has  *)
(* overtaken on its way (Overtaken).                                             *)
SettledIsServer == \A k \in Key \ excused : Quiet(k) => cache[k].data = Server(k)

(* "The row disappears at once": the row of a deleted link does not stay on the  *)
(* screen, whether its answer came or was lost.  Shows leaves out a page that is *)
(* excused: there a fetch that outlived the invalidation shows the row again.    *)
Shows(c) == screen \in Lists /\ screen \notin excused /\ cache[screen].error = "none" /\ Holds(screen, c)
DeletedRowLeaves ==
    \A c \in Code : links[c].ver > 0 /\ ~Exists(c) ~> ~Shows(c)
================================================================================
