------------------------------- MODULE WebSession ------------------------------
(***************************************************************************)
(* The session of one browser tab: what it believes about its user, the    *)
(* cookies, the API client that refreshes them, and the pages that follow. *)
(*   apps/web/src/lib/api.ts, store/*.ts, hooks/auth/*.ts,                 *)
(*   components/auth/*.tsx, components/urls/ShortenForm.tsx                *)
(*                                                                         *)
(* A request has a slot from its sending to the end of its promise: one    *)
(* for each kind of the auth routes, and a few for the routes of links.    *)
(* The server is what AuthSession shows of it: a session lives until its   *)
(* logout or its end, and a refresh of a live one succeeds.                *)
(***************************************************************************)
EXTENDS Naturals, FiniteSets

CONSTANTS
    Users,
    Former,     \* the user of this browser so far
    Data,       \* slots for requests of links
    MaxSid,     \* bound: logins
    MaxExpiry,  \* bound: access tokens that end
    MaxMoves,   \* bound: navigations and requests of links
    MaxFaults,  \* bound: requests that fail or are lost, and sessions that end
    Nobody      \* no user

ASSUME UsersAssumption ==
    Nobody \notin Users /\ Former \in Users
ASSUME BoundsAssumption == MaxSid \in Nat \ {0} /\ {MaxExpiry, MaxMoves, MaxFaults} \subseteq Nat
ASSUME SlotsAssumption == Data \cap {"me", "session", "refresh"} = {}

Sids  == 1..MaxSid
Slots == Data \cup {"me", "session", "refresh"}
Pages == {"home", "login", "dashboard"}

VARIABLES
    sessions,  \* the server: per session its user, and whether it lives
    sids,      \* sessions made so far
    jar,       \* the cookies: the session's refresh token, and the access token
    auth,      \* the auth store
    page,      \* the page that is mounted
    going,     \* the router: the page it is on its way to, or "none"
    cached,    \* the user whose links are in the query cache
    reqs,      \* per slot the request under way
    expiries, moves, faults,
    kicked,    \* history: a session was given up without a logout
    crossed    \* history: a login crossed the answer of /auth/me or of a refresh

vars == <<sessions, sids, jar, auth, page, going, cached, reqs,
          expiries, moves, faults, kicked, crossed>>

Session == [user : Users \cup {Nobody}, live : BOOLEAN]
Jar     == [sid : 0..MaxSid, access : {"none", "valid", "expired"}]
Auth    == [status : {"loading", "authenticated", "guest"}, user : Users \cup {Nobody},
            reason : {"none", "anonymous", "logout"}]
Request == [kind : {"none", "me", "login", "register", "logout", "refresh", "list", "create"},
            pc : {"idle", "sent", "answered", "waiting"}, cookies : Jar, user : Users \cup {Nobody},
            status : {"none", "ok", "401", "500", "lost"}, sid : 0..MaxSid,
            retried : BOOLEAN, orphan : BOOLEAN, since : 0..MaxExpiry]

TypeOK ==
    /\ sessions \in [Sids -> Session] /\ sids \in 0..MaxSid
    /\ jar \in Jar /\ auth \in Auth
    /\ auth.status = "authenticated" <=> auth.user # Nobody
    /\ auth.status = "guest" <=> auth.reason # "none"
    /\ page \in Pages /\ going \in Pages \cup {"none"}
    /\ cached \in Users \cup {Nobody}
    /\ reqs \in [Slots -> Request]
    /\ expiries \in 0..MaxExpiry /\ moves \in 0..MaxMoves /\ faults \in 0..MaxFaults
    /\ kicked \in BOOLEAN /\ crossed \in BOOLEAN

Live(sid) == sid # 0 /\ sessions[sid].live
NoCookies == [sid |-> 0, access |-> "none"]
Idle == [kind |-> "none", pc |-> "idle", cookies |-> NoCookies, user |-> Nobody, status |-> "none",
         sid |-> 0, retried |-> FALSE, orphan |-> FALSE, since |-> 0]

Loading     == [status |-> "loading", user |-> Nobody, reason |-> "none"]
(* Mutant: setGuest() changes the status alone. *)
SetStatus(r) == [status |-> "guest", user |-> auth.user, reason |-> r]

(* setUser(), setGuest() *)
SetUser(u)  == [status |-> "authenticated", user |-> u, reason |-> "none"]
SetGuest(r) == [status |-> "guest", user |-> Nobody, reason |-> r]

Sent(kind, u) == [kind |-> kind, pc |-> "sent", cookies |-> jar, user |-> u, status |-> "none",
                  sid |-> 0, retried |-> FALSE, orphan |-> FALSE, since |-> expiries]

(* The tab is opened at home or on the dashboard: the login page is a visit away. *)
Init ==
    /\ sids = 1
    /\ sessions = [s \in Sids |-> IF s = 1 THEN [user |-> Former, live |-> TRUE]
                                 ELSE [user |-> Nobody, live |-> FALSE]]
    /\ jar \in [sid : {0, 1}, access : {"none", "valid", "expired"}] /\ (jar.sid = 0 => jar.access = "none")
    /\ auth = Loading /\ page \in Pages \ {"login"} /\ going = "none" /\ cached = Nobody
    /\ expiries = 0 /\ moves = 0 /\ faults = 0
    /\ reqs = [s \in Slots |-> IF s = "me" THEN Sent("me", Nobody) ELSE Idle]
    /\ kicked = FALSE /\ crossed = FALSE

Move == moves < MaxMoves /\ moves' = moves + 1

--------------------------------------------------------------------------------
(* The pages.  An effect of a page asks the router for another one. *)

(* ProtectedRoute: guests go to the login page, except after a logout. *)
Protected(a) == a.status = "guest" /\ a.reason # "logout"

(* PublicOnly: someone logged in goes on to "next". *)
Public(a) == a.status = "authenticated"

(* The effects of page p when the store becomes a, the router being on its way to g. *)
Effects(p, a, g) ==
    CASE p = "dashboard" /\ Protected(a) -> "login"
      [] p = "login" /\ Public(a)        -> "dashboard"
      [] OTHER                           -> g

(* The store changes; its effects come after what the caller asks of the router. *)
Become(a, g) == auth' = a /\ going' = IF a = auth THEN g ELSE Effects(page, a, g)

(* Mutant: the effects follow the store, and do not run on a new page. *)
ArriveOnly ==
    /\ going # "none"
    /\ page' = going /\ going' = "none"
    /\ UNCHANGED <<sessions, sids, jar, auth, cached, reqs, expiries, moves, faults, kicked, crossed>>

(* The router arrives, and the effects of the new page run. *)
Arrive ==
    /\ going # "none"
    /\ page' = going /\ going' = Effects(going, auth, "none")
    /\ UNCHANGED <<sessions, sids, jar, auth, cached, reqs, expiries, moves, faults, kicked, crossed>>

(* A link of SiteHeader or AppHeader, or the browser's Back, leads to p. *)
Visit(p) ==
    /\ p # page /\ going = "none" /\ Move
    /\ going' = p
    /\ UNCHANGED <<sessions, sids, jar, auth, page, cached, reqs, expiries, faults, kicked, crossed>>

--------------------------------------------------------------------------------
(* What the user asks for *)

Ask(s, kind, u) ==
    /\ reqs[s].pc = "idle"
    /\ reqs' = [reqs EXCEPT ![s] = Sent(kind, u)]
    /\ UNCHANGED <<sessions, sids, jar, auth, page, going, cached, expiries, faults, kicked>>
    /\ crossed' = (crossed \/ (kind \in {"login", "register"} /\ reqs["me"].pc # "idle"))

(* A request of links takes a free slot; which one makes no difference. *)
AskData(kind) ==
    /\ \E d \in Data : reqs[d].pc = "idle"
    /\ Ask(CHOOSE d \in Data : reqs[d].pc = "idle", kind, Nobody) /\ Move

(* Mounting or refetching the links, and what changes them, on the dashboard. *)
AskList ==
    /\ page = "dashboard" /\ auth.status = "authenticated"
    /\ AskData("list")

(* ShortenForm's submit, on the home page and the dashboard: for guests too. *)
AskCreate ==
    /\ page # "login" /\ (page = "dashboard" => auth.status = "authenticated")
    /\ \A d \in Data : reqs[d].kind # "create"
    /\ AskData("create")

(* LoginForm's submit; the button is off while it is pending, and nobody submits *)
(* the form while the router is leaving it.                                      *)
AskLogin(u) ==
    /\ page = "login" /\ going = "none" /\ sids < MaxSid
    /\ \E s \in 1..sids : sessions[s].user = u
    /\ Ask("session", "login", u) /\ UNCHANGED moves

(* RegisterForm's submit. *)
AskRegister(u) ==
    /\ page = "login" /\ going = "none" /\ sids < MaxSid
    /\ \A s \in 1..sids : sessions[s].user # u
    /\ Ask("session", "register", u) /\ UNCHANGED moves

(* "Log out" of UserMenu. *)
AskLogout ==
    /\ auth.user # Nobody /\ page # "login"
    /\ Ask("session", "logout", Nobody) /\ UNCHANGED moves

--------------------------------------------------------------------------------
(* The server, and time *)

Answer(s, status, user, sid) ==
    reqs' = [reqs EXCEPT ![s] = [@ EXCEPT !.pc = "answered", !.status = status, !.user = user, !.sid = sid,
                                          !.cookies = NoCookies]]

Valid(cookies) == cookies.access = "valid" /\ Live(cookies.sid)

(* authenticate, and optionalAuth for a create: no access cookie is nobody. *)
ServeData(s) ==
    LET r == reqs[s] IN
    /\ r.kind \in {"me", "list", "create"} /\ r.pc = "sent"
    /\ IF Valid(r.cookies) THEN Answer(s, "ok", sessions[r.cookies.sid].user, 0)
       ELSE IF r.kind = "create" /\ r.cookies.access = "none" THEN Answer(s, "ok", Nobody, 0)
       ELSE Answer(s, "401", Nobody, r.cookies.sid)
    /\ UNCHANGED <<sessions, sids>>

(* loginHandler, registerHandler *)
ServeSignIn ==
    LET r == reqs["session"] IN
    /\ r.kind \in {"login", "register"} /\ r.pc = "sent"
    /\ sids' = sids + 1
    /\ sessions' = [sessions EXCEPT ![sids + 1] = [user |-> r.user, live |-> TRUE]]
    /\ Answer("session", "ok", r.user, sids + 1)

(* logoutHandler: the session of either cookie. *)
ServeLogout ==
    LET r == reqs["session"] IN
    /\ r.kind = "logout" /\ r.pc = "sent"
    /\ sessions' = [sid \in Sids |-> IF sid = r.cookies.sid THEN [sessions[sid] EXCEPT !.live = FALSE]
                                     ELSE sessions[sid]]
    /\ Answer("session", "ok", Nobody, 0)
    /\ UNCHANGED sids

(* refreshHandler *)
ServeRefresh ==
    LET r == reqs["refresh"] IN
    /\ r.pc = "sent"
    /\ Answer("refresh", IF Live(r.cookies.sid) THEN "ok" ELSE "401", Nobody, r.cookies.sid)
    /\ UNCHANGED <<sessions, sids>>

Serve ==
    /\ (\E s \in Slots : ServeData(s)) \/ ServeSignIn \/ ServeLogout \/ ServeRefresh
    /\ UNCHANGED <<jar, auth, page, going, cached, expiries, moves, faults, kicked, crossed>>

(* The request or its answer is lost: NETWORK_ERROR.  A handler that fails is the *)
(* same to the tab, but for a refresh.                                            *)
Fail(s) ==
    /\ reqs[s].pc \in {"sent", "answered"} /\ faults < MaxFaults /\ faults' = faults + 1
    /\ \/ Answer(s, "lost", Nobody, 0)
       \/ s = "refresh" /\ reqs[s].pc = "sent" /\ Answer(s, "500", Nobody, 0)
    /\ UNCHANGED <<sessions, sids, jar, auth, page, going, cached, expiries, moves, kicked, crossed>>

(* A session that a cookie still names reaches its end, or is ended for the reuse *)
(* of a token.                                                                   *)
End(sid) ==
    /\ Live(sid) /\ sid \in {jar.sid} \cup {reqs[s].cookies.sid : s \in Slots}
    /\ faults < MaxFaults /\ faults' = faults + 1
    /\ sessions' = [sessions EXCEPT ![sid].live = FALSE]
    /\ UNCHANGED <<sids, jar, auth, page, going, cached, reqs, expiries, moves, kicked, crossed>>

(* The access token ends, also on the requests that carry it, and its cookie goes *)
(* at about the same time.                                                        *)
Aged(cookies) == [cookies EXCEPT !.access = IF @ = "valid" THEN "expired" ELSE @]

Expire ==
    /\ jar.access = "valid" /\ expiries < MaxExpiry /\ expiries' = expiries + 1
    /\ \E access \in {"expired", "none"} : jar' = [jar EXCEPT !.access = access]
    /\ reqs' = [s \in Slots |-> [reqs[s] EXCEPT !.cookies = Aged(@)]]
    /\ UNCHANGED <<sessions, sids, auth, page, going, cached, moves, faults, kicked, crossed>>

--------------------------------------------------------------------------------
(* An answer reaches the tab *)

(* setAuthCookies(), clearAuthCookies(): a refresh that fails clears them too. *)
Cookies(r) ==
    CASE r.status = "ok" /\ r.kind \in {"login", "register", "refresh"} -> [sid |-> r.sid, access |-> "valid"]
      [] r.status = "ok" /\ r.kind = "logout"                -> NoCookies
      [] r.kind = "refresh" /\ r.status \in {"401", "500"}   -> NoCookies
      [] OTHER                                               -> jar

Answered(s, kinds) ==
    /\ reqs[s].pc = "answered" /\ reqs[s].kind \in kinds
    /\ jar' = Cookies(reqs[s])
    /\ UNCHANGED <<sessions, sids, page, expiries, moves, faults>>

Done(s) == reqs' = [reqs EXCEPT ![s] = Idle]

(* AuthLoader: the answer of /auth/me becomes the session state; a 401 of the    *)
(* auth routes is not refreshed.                                                 *)
MeAnswered ==
    LET r == reqs["me"] IN
    /\ Answered("me", {"me"}) /\ Done("me")
    /\ IF r.orphan THEN UNCHANGED <<auth, going>>
       ELSE Become(IF r.status = "ok" THEN SetUser(r.user) ELSE SetGuest("anonymous"), going)
    /\ UNCHANGED <<cached, kicked, crossed>>

(* useLogin(), useRegister(): onSuccess. *)
SignedIn(kind) ==
    LET r == reqs["session"] IN
    /\ Answered("session", {kind}) /\ Done("session")
    /\ IF r.status = "ok" THEN Become(SetUser(r.user), "dashboard") ELSE UNCHANGED <<auth, going>>
    /\ crossed' = (crossed \/ reqs["refresh"].pc # "idle")
    /\ UNCHANGED <<cached, kicked>>

LoggedIn   == SignedIn("login")
Registered == SignedIn("register")

(* Mutant: the query cache is not cleared. *)
LoggedOutOnly ==
    /\ Answered("session", {"logout"}) /\ Done("session")
    /\ Become(SetGuest("logout"), "home")
    /\ cached' = cached /\ kicked' = FALSE
    /\ UNCHANGED crossed

(* useLogout(): onSettled.  clear() leaves the queries under way without a place. *)
LoggedOut ==
    /\ Answered("session", {"logout"})
    /\ reqs' = [s \in Slots |-> IF s = "session" THEN Idle
                                ELSE IF reqs[s].kind \in {"me", "list"} THEN [reqs[s] EXCEPT !.orphan = TRUE]
                                ELSE reqs[s]]
    /\ Become(SetGuest("logout"), "home")
    /\ cached' = Nobody /\ kicked' = FALSE
    /\ UNCHANGED crossed

(* Mutant: a 401 that finds a refresh under way fails. *)
RefusedAlone(d) ==
    LET r == reqs[d] IN
    /\ Answered(d, {"list", "create"}) /\ r.status = "401" /\ ~r.retried
    /\ reqs' = IF reqs["refresh"].pc = "idle"
               THEN [reqs EXCEPT ![d].pc = "waiting", ![d].retried = TRUE, !["refresh"] = Sent("refresh", Nobody)]
               ELSE [reqs EXCEPT ![d] = Idle]
    /\ UNCHANGED <<auth, going, cached, kicked, crossed>>

(* The interceptor: a first 401 waits for the refresh that is under way, or starts it. *)
Refused(d) ==
    LET r == reqs[d] IN
    /\ Answered(d, {"list", "create"}) /\ r.status = "401" /\ ~r.retried
    /\ reqs' = [reqs EXCEPT ![d].pc = "waiting", ![d].retried = TRUE,
                            !["refresh"] = IF @.pc = "idle" THEN Sent("refresh", Nobody) ELSE @]
    /\ UNCHANGED <<auth, going, cached, kicked, crossed>>

(* Any other failure is an ApiError of the caller. *)
Rejected(d) ==
    LET r == reqs[d] IN
    /\ Answered(d, {"list", "create"}) /\ Done(d)
    /\ r.status \in {"500", "lost"} \/ (r.status = "401" /\ r.retried)
    /\ UNCHANGED <<auth, going, cached, kicked, crossed>>

(* The page of links is in the cache, unless that was cleared meanwhile. *)
Listed(d) ==
    LET r == reqs[d] IN
    /\ Answered(d, {"list"}) /\ r.status = "ok" /\ Done(d)
    /\ cached' = IF r.orphan THEN cached ELSE r.user
    /\ UNCHANGED <<auth, going, kicked, crossed>>

(* useCreateShortUrl(): onSuccess. *)
Created(d) ==
    /\ Answered(d, {"create"}) /\ reqs[d].status = "ok" /\ Done(d)
    /\ UNCHANGED <<auth, going, cached, kicked, crossed>>

(* Mutant: the 401 of the refresh itself waits for the refresh under way. *)
RefreshedByItself ==
    LET r       == reqs["refresh"]
        waiting == {s \in Slots : reqs[s].pc = "waiting"}
    IN
    /\ Answered("refresh", {"refresh"})
    /\ IF r.status = "ok"
       THEN /\ reqs' = [s \in Slots |->
                           IF s = "refresh" THEN Idle
                           ELSE IF s \in waiting
                                THEN [reqs[s] EXCEPT !.pc = "sent", !.cookies = jar', !.status = "none", !.sid = 0]
                                ELSE reqs[s]]
            /\ UNCHANGED <<auth, going, kicked>>
       ELSE IF r.status = "401"
       THEN reqs' = [reqs EXCEPT !["refresh"].pc = "waiting"] /\ UNCHANGED <<auth, going, kicked>>
       ELSE /\ reqs' = [s \in Slots |-> IF s \in waiting \cup {"refresh"} THEN Idle ELSE reqs[s]]
            /\ Become(SetGuest("anonymous"), going)
            /\ kicked' = TRUE
    /\ UNCHANGED <<cached, crossed>>

(* The refresh is answered: who waits for it is replayed with the new cookies, or *)
(* fails, and the tab is a guest's.                                               *)
Refreshed ==
    LET r       == reqs["refresh"]
        waiting == {s \in Slots : reqs[s].pc = "waiting"}
    IN
    /\ Answered("refresh", {"refresh"})
    /\ IF r.status = "ok"
       THEN /\ reqs' = [s \in Slots |->
                           IF s = "refresh" THEN Idle
                           ELSE IF s \in waiting
                                THEN [reqs[s] EXCEPT !.pc = "sent", !.cookies = jar', !.status = "none", !.sid = 0]
                                ELSE reqs[s]]
            /\ UNCHANGED <<auth, going, kicked>>
       ELSE /\ reqs' = [s \in Slots |-> IF s \in waiting \cup {"refresh"} THEN Idle ELSE reqs[s]]
            /\ Become(SetGuest("anonymous"), going)
            /\ kicked' = TRUE
    /\ UNCHANGED <<cached, crossed>>

--------------------------------------------------------------------------------
Asking ==
    \/ AskList \/ AskCreate
    \/ \E u \in Users : AskLogin(u) \/ AskRegister(u)
    \/ AskLogout \/ \E p \in Pages : Visit(p)

Handle ==
    \/ MeAnswered \/ LoggedIn \/ Registered \/ LoggedOut \/ Refreshed
    \/ \E d \in Data : Refused(d) \/ Rejected(d) \/ Listed(d) \/ Created(d)

Next ==
    \/ Asking \/ Serve \/ Handle \/ Arrive \/ Expire
    \/ \E s \in Slots : Fail(s)
    \/ \E sid \in Sids : End(sid)

Spec == Init /\ [][Next]_vars

(* The server answers, promises are continued and the router arrives. *)
Fairness == WF_vars(Serve) /\ WF_vars(Handle) /\ WF_vars(Arrive)

FairSpec == Spec /\ Fairness

--------------------------------------------------------------------------------
(* "Every concurrent 401 waits on the same refresh": while its session lives and *)
(* nothing fails, no request of the tab fails with a 401 and the user is not made *)
(* a guest, however many requests find the access token ended; only one whose    *)
(* token ends while it is under way is.                                          *)
Fails401(d) ==
    /\ reqs[d].pc # "idle" /\ reqs'[d].pc = "idle" /\ reqs[d].status = "401"
    /\ Live(reqs[d].sid) /\ Live(jar.sid) /\ reqs[d].since = expiries

MadeGuest == auth.status = "authenticated" /\ auth'.status = "guest" /\ auth'.reason # "logout" /\ Live(jar.sid)

LiveSessionServes ==
    [][faults = 0 /\ ~crossed => ~MadeGuest /\ \A d \in Data : ~Fails401(d)]_vars

(* A user who logs out leaves nothing for the next one at this browser: the      *)
(* links in the query cache are those of the user who is logged in, also when    *)
(* their answers come after the logout's clear().  It speaks of users who leave  *)
(* by the logout.  A refresh that fails makes a guest too (setGuest() of the     *)
(* interceptor), which clears nothing: its user's links are there for the next   *)
(* who logs in, until a logout (kicked).  And a login that crosses the answer of *)
(* /auth/me or of a refresh may leave the cookies and the store at odds          *)
(* (crossed).                                                                    *)
NothingOfOthers ==
    ~crossed /\ ~kicked => cached \in {Nobody, auth.user}

(* Whoever waits for a refresh is sent again or fails, also when the refresh fails *)
(* or its own answer is a 401: it never waits for itself.                          *)
Waiting == {s \in Slots : reqs[s].pc = "waiting"}
WaitingEnds == Waiting # {} ~> Waiting = {}

(* An anonymous guest, and one of a logout whom useLogout() is taking home, does *)
(* not stay on the dashboard ("a deliberate logout must not bounce the user to   *)
(* the login page").  Left out is the guest of a logout whom nobody takes home,  *)
(* as after the browser's Back: ProtectedRoute.tsx:21 exempts the reason, and    *)
(* that guest stays.                                                             *)
Astray == page = "dashboard" /\ auth.status = "guest" /\ (auth.reason = "anonymous" \/ going = "home")
GuestLeaves == Astray ~> ~Astray
================================================================================
