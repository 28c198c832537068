------------------------------ MODULE AuthSession ------------------------------
(***************************************************************************)
(* Login sessions: apps/api/src/services/auth.service.ts with its          *)
(* controller, middleware/authenticate.ts and the cookies of utils/auth,   *)
(* and the browser of apps/web/src/lib/api.ts, whose tabs share one cookie *)
(* jar.  A thief may hold a copy of the refresh cookie.                    *)
(*                                                                         *)
(* A session row names one current refresh token, by its jti, and the one  *)
(* it replaced.  A refresh reads the row, and then rotates the token,      *)
(* grants the current one to a holder of the replaced one for a short time,*)
(* or ends the session.  Other refreshes run between its two statements.   *)
(***************************************************************************)
EXTENDS Naturals, FiniteSets

CONSTANTS
    Tabs,       \* tabs of one browser; a late 401 in a tab counts as one more
    Thieves,    \* holders of a copied refresh cookie
    Grace,      \* ROTATION_GRACE_MS, 30 s
    AccessTtl,  \* ACCESS_TOKEN_TTL_MS, 15 min
    SessionTtl, \* REFRESH_TOKEN_TTL_MS, 30 days
    Latency,    \* the longest time a request, or its answer, is under way
    Faults,     \* "db": a query may fail; "lost": an answer may not arrive
    MaxSid,     \* bound: logins
    MaxJti,     \* bound: refresh tokens made
    MaxNow      \* bound: the clock

ASSUME TimesAssumption == /\ Grace \in Nat /\ AccessTtl \in Nat
                          /\ SessionTtl \in Nat /\ Latency \in Nat
ASSUME BoundsAssumption == MaxSid \in Nat /\ MaxJti \in Nat /\ MaxNow \in Nat
ASSUME ClientsAssumption == Tabs \cap Thieves = {} /\ IsFiniteSet(Tabs) /\ IsFiniteSet(Thieves)
ASSUME FaultsAssumption == Faults \subseteq {"db", "lost"}

Clients == Tabs \cup Thieves
Sids    == 1..MaxSid
Never   == MaxNow + 1

(* A refresh token; NoToken: no cookie, or an answer that clears it. *)
Token   == [sid : Sids, jti : 1..MaxJti]
NoToken == [sid |-> 0, jti |-> 0]
Tokens  == Token \cup {NoToken}

VARIABLES
    now,
    rows,       \* the table sessions
    sids, jtis, \* rows and refresh tokens made so far
    jar,        \* the browser's refresh cookie; when its access token and cookie end
    stolen,     \* per thief: its refresh token
    req,        \* per client: the request under way
    replacedAt, \* history, per jti: when another one took its place
    strayed,    \* history: the sessions with a copied token used, or a new one lost with an answer
    alarms      \* history: the sessions ended by the detection of reuse

database == <<rows, sids, jtis, replacedAt, alarms>>
vars == <<now, database, jar, stolen, req, strayed>>

Row == [exists : BOOLEAN, jti : 0..MaxJti, prev : 0..MaxJti,
        rotated : 0..MaxNow, expires : 0..MaxNow + SessionTtl]

(* sent: a refresh on its way to its SELECT; read: between SELECT and      *)
(* UPDATE or DELETE; answered: the answer is under way; refused: a 401 is. *)
Request == [pc : {"idle", "refused", "sent", "read", "answered", "anonymous"},
            token : Tokens, since : 0..MaxNow, row : Row, answer : Tokens]

NoRow  == [exists |-> FALSE, jti |-> 0, prev |-> 0, rotated |-> 0, expires |-> 0]
Idle   == [pc |-> "idle", token |-> NoToken, since |-> 0, row |-> NoRow, answer |-> NoToken]

TypeOK ==
    /\ now \in 0..MaxNow
    /\ rows \in [Sids -> Row]
    /\ sids \in 0..MaxSid /\ jtis \in 0..MaxJti
    /\ jar \in [token : Tokens, jwtUntil : Nat, cookieUntil : Nat]
    /\ stolen \in [Thieves -> Tokens]
    /\ req \in [Clients -> Request]
    /\ replacedAt \in [1..MaxJti -> 0..Never]
    /\ strayed \subseteq Sids /\ alarms \subseteq Sids

Init ==
    /\ now = 0
    /\ rows = [s \in Sids |-> NoRow]
    /\ sids = 0 /\ jtis = 0
    /\ jar = [token |-> NoToken, jwtUntil |-> 0, cookieUntil |-> 0]
    /\ stolen = [h \in Thieves |-> NoToken]
    /\ req = [c \in Clients |-> Idle]
    /\ replacedAt = [k \in 1..MaxJti |-> Never]
    /\ strayed = {} /\ alarms = {}

(* What authenticate and refresh ask of a row. *)
Live(row) == row.exists /\ now < row.expires

SessionOf(token) == IF token = NoToken THEN NoRow ELSE rows[token.sid]

(* The bound on tokens is felt where a request starts, never in its middle. *)
Spare == jtis + Cardinality({c \in Clients : req[c].pc \in {"sent", "read"}}) < MaxJti

--------------------------------------------------------------------------------
(***************************************************************************)
(* The server.                                                             *)
(***************************************************************************)

Answer(c, token) ==
    req' = [req EXCEPT ![c].pc = "answered", ![c].answer = token,
                       ![c].since = now, ![c].row = NoRow]

(* register() or login(): startSession(). *)
Login(t) ==
    /\ req[t].pc = "idle" /\ sids < MaxSid /\ Spare
    /\ sids' = sids + 1 /\ jtis' = jtis + 1
    /\ rows' = [rows EXCEPT ![sids + 1] =
                   [exists |-> TRUE, jti |-> jtis + 1, prev |-> 0,
                    rotated |-> 0, expires |-> now + SessionTtl]]
    /\ Answer(t, [sid |-> sids + 1, jti |-> jtis + 1])
    /\ UNCHANGED <<now, jar, stolen, replacedAt, strayed, alarms>>

(* logout(): by the session of either cookie. *)
Logout(t) ==
    /\ req[t].pc = "idle" /\ jar.token # NoToken
    /\ rows' = [rows EXCEPT ![jar.token.sid] = NoRow]
    /\ Answer(t, NoToken)
    /\ UNCHANGED <<now, sids, jtis, jar, stolen, replacedAt, strayed, alarms>>

(* refresh(): findUnique(). *)
Read(c) ==
    LET row == SessionOf(req[c].token) IN
    /\ req[c].pc = "sent"
    /\ \/ Live(row) /\ req' = [req EXCEPT ![c].pc = "read", ![c].row = row]
       \/ ~Live(row) /\ Answer(c, NoToken)
    /\ UNCHANGED <<now, database, jar, stolen, strayed>>

(* Mutant: the update names the session only. *)
CurrentById(c) == rows[req[c].token.sid].exists

(* "where: { id: session.id, refreshJti: payload.jti }" *)
Current(c) ==
    LET row == rows[req[c].token.sid] IN row.exists /\ row.jti = req[c].token.jti

(* Mutant: the session slides from its old end, not from now. *)
SlidesFromEnd(end, at) == end + SessionTtl

(* The new end of a session, given its old one: "sliding session". *)
Slides(end, at) == at + SessionTtl

(* The token is the one that was read as current: updateMany(). *)
Replace(c, at) ==
    LET token == req[c].token IN
    /\ token.jti = req[c].row.jti /\ Current(c)
    /\ jtis' = jtis + 1
    /\ rows' = [rows EXCEPT ![token.sid] =
                   [@ EXCEPT !.jti = jtis + 1, !.prev = token.jti,
                             !.rotated = at, !.expires = Slides(@, at)]]
    /\ replacedAt' = [replacedAt EXCEPT ![token.jti] = now]
    /\ UNCHANGED <<sids, alarms>>

Rotate(c, at) ==
    /\ Replace(c, at)
    /\ Answer(c, [sid |-> req[c].token.sid, jti |-> jtis + 1])

(* Mutant: the retry goes on with the row it has. *)
RetryUnread(c) ==
    /\ req[c].token.jti = req[c].row.jti /\ ~Current(c)
    /\ UNCHANGED <<database, req>>

(* "count" is 0: refresh() again. *)
Retry(c) ==
    /\ req[c].token.jti = req[c].row.jti /\ ~Current(c)
    /\ req' = [req EXCEPT ![c].pc = "sent", ![c].row = NoRow]
    /\ UNCHANGED database

(* Mutant: the replaced token is accepted whenever it comes. *)
GraceForEver(c, at) == req[c].token.jti = req[c].row.prev

(* Mutant: a replaced token is never accepted. *)
NoGrace(c, at) == FALSE

WithinGrace(c, at) ==
    req[c].token.jti = req[c].row.prev /\ at < req[c].row.rotated + Grace

Grant(c, at) ==
    /\ req[c].token.jti # req[c].row.jti /\ WithinGrace(c, at)
    /\ Answer(c, [sid |-> req[c].token.sid, jti |-> req[c].row.jti])
    /\ UNCHANGED database

(* Reuse of an old refresh token: deleteMany(). *)
Revoke(c, at) ==
    LET sid == req[c].token.sid IN
    /\ req[c].token.jti # req[c].row.jti /\ ~WithinGrace(c, at)
    /\ rows' = [rows EXCEPT ![sid] = NoRow]
    /\ alarms' = IF rows[sid].exists THEN alarms \cup {sid} ELSE alarms
    /\ Answer(c, NoToken)
    /\ UNCHANGED <<sids, jtis, replacedAt>>

(* What follows the read; "now" was taken at some moment in between. *)
Decide(c) ==
    /\ req[c].pc = "read"
    /\ \E at \in req[c].since..now :
          Rotate(c, at) \/ Retry(c) \/ Grant(c, at) \/ Revoke(c, at)
    /\ UNCHANGED <<now, jar, stolen, strayed>>

(* A query of the refresh fails: errorHandler clears the cookies too. *)
QueryFails(c) ==
    /\ "db" \in Faults /\ req[c].pc \in {"sent", "read"}
    /\ Answer(c, NoToken)
    /\ UNCHANGED <<now, database, jar, stolen, strayed>>

(* The UPDATE is committed, and its answer lost: the refresh fails, the     *)
(* cookies are cleared, and nobody is told the new token.  (A DELETE of     *)
(* which this is true is Revoke: its refresh fails in any case.)           *)
UpdateUnanswered(c) ==
    /\ "db" \in Faults /\ req[c].pc = "read"
    /\ \E at \in req[c].since..now : Replace(c, at)
    /\ Answer(c, NoToken)
    /\ strayed' = strayed \cup {req[c].token.sid}
    /\ UNCHANGED <<now, jar, stolen>>

(* purgeExpiredSessions(), for one of them. *)
PurgeExpired(s) ==
    /\ rows[s].exists /\ rows[s].expires < now
    /\ rows' = [rows EXCEPT ![s] = NoRow]
    /\ UNCHANGED <<now, sids, jtis, replacedAt, alarms, jar, stolen, req, strayed>>

--------------------------------------------------------------------------------
(***************************************************************************)
(* The browser and the thieves.                                            *)
(***************************************************************************)

(* The access cookie is sent, its token has not ended, its session exists. *)
Sends         == now < jar.cookieUntil
Authenticated == Sends /\ now < jar.jwtUntil /\ Live(SessionOf(jar.token))

(* A request that needs a user is answered 401. *)
Refused(t) ==
    /\ req[t].pc = "idle" /\ jar.token # NoToken /\ ~Authenticated
    /\ req' = [req EXCEPT ![t].pc = "refused", ![t].since = now]
    /\ UNCHANGED <<now, database, jar, stolen, strayed>>

(* POST /urls without an access cookie: optionalAuth lets it pass, as      *)
(* nobody's.  "row" keeps the session of the browser's refresh cookie.     *)
CreateAnonymously(t) ==
    /\ req[t].pc = "idle" /\ jar.token # NoToken /\ ~Sends
    /\ req' = [req EXCEPT ![t].pc = "anonymous", ![t].since = now,
                          ![t].row = SessionOf(jar.token)]
    /\ UNCHANGED <<now, database, jar, stolen, strayed>>

Created(t) ==
    /\ req[t].pc = "anonymous"
    /\ req' = [req EXCEPT ![t] = Idle]
    /\ UNCHANGED <<now, database, jar, stolen, strayed>>

(* The interceptor: GET /auth/refresh with the cookie of this moment. *)
Send(t) ==
    /\ req[t].pc = "refused"
    /\ \/ /\ jar.token # NoToken /\ Spare
          /\ req' = [req EXCEPT ![t].pc = "sent", ![t].since = now, ![t].token = jar.token]
       \/ jar.token = NoToken /\ Answer(t, NoToken)
    /\ UNCHANGED <<now, database, jar, stolen, strayed>>

(* The answer: its cookies are stored, or cleared. *)
Receive(t) ==
    LET token == req[t].answer IN
    /\ req[t].pc = "answered"
    /\ jar' = IF token = NoToken
              THEN [token |-> NoToken, jwtUntil |-> 0, cookieUntil |-> 0]
              ELSE [token |-> token, jwtUntil |-> req[t].since + AccessTtl,
                    cookieUntil |-> now + AccessTtl]
    /\ req' = [req EXCEPT ![t] = Idle]
    /\ UNCHANGED <<now, database, stolen, strayed>>

(* The answer does not arrive: the cookies stay as they are. *)
AnswerLost(t) ==
    /\ "lost" \in Faults /\ req[t].pc = "answered"
    /\ req' = [req EXCEPT ![t] = Idle]
    /\ strayed' = strayed \cup ({req[t].answer.sid} \ {0})
    /\ UNCHANGED <<now, database, jar, stolen>>

(* The refresh cookie is copied. *)
Steal(h) ==
    /\ jar.token # NoToken /\ stolen[h] = NoToken /\ req[h].pc = "idle"
    /\ stolen' = [stolen EXCEPT ![h] = jar.token]
    /\ UNCHANGED <<now, database, jar, req, strayed>>

StealUses(h) ==
    /\ req[h].pc = "idle" /\ stolen[h] # NoToken /\ Spare
    /\ req' = [req EXCEPT ![h].pc = "sent", ![h].since = now, ![h].token = stolen[h]]
    /\ strayed' = strayed \cup {stolen[h].sid}
    /\ UNCHANGED <<now, database, jar, stolen>>

StealReceives(h) ==
    /\ req[h].pc = "answered"
    /\ stolen' = [stolen EXCEPT ![h] = req[h].answer]
    /\ req' = [req EXCEPT ![h] = Idle]
    /\ UNCHANGED <<now, database, jar, strayed>>

(* Nothing is under way for longer than Latency. *)
Tick ==
    /\ now < MaxNow
    /\ \A c \in Clients : req[c].pc # "idle" => now < req[c].since + Latency
    /\ now' = now + 1
    /\ UNCHANGED <<database, jar, stolen, req, strayed>>

--------------------------------------------------------------------------------
Next ==
    \/ \E t \in Tabs :
          \/ Login(t) \/ Logout(t) \/ Refused(t) \/ Send(t) \/ Receive(t) \/ AnswerLost(t)
          \/ CreateAnonymously(t) \/ Created(t)
    \/ \E h \in Thieves : Steal(h) \/ StealUses(h) \/ StealReceives(h)
    \/ \E c \in Clients : Read(c) \/ Decide(c) \/ QueryFails(c) \/ UpdateUnanswered(c)
    \/ \E s \in Sids : PurgeExpired(s)
    \/ Tick

Spec == Init /\ [][Next]_vars

(* The server answers what it has received; browser and network deliver. *)
Fairness == /\ \A c \in Clients : WF_vars(Read(c)) /\ WF_vars(Decide(c))
            /\ \A t \in Tabs : WF_vars(Send(t)) /\ WF_vars(Receive(t))
            /\ \A h \in Thieves : WF_vars(StealReceives(h))

FairSpec == Spec /\ Fairness

--------------------------------------------------------------------------------
Replaced(jti) == replacedAt[jti] # Never

(* Tokens somebody holds, or will when an answer arrives. *)
Out == ({jar.token} \cup {stolen[h] : h \in Thieves} \cup
        {req[c].answer : c \in Clients} \cup {req[c].token : c \in Clients}) \ {NoToken}

(* "Only one of two concurrent refreshes can move refreshJti away from this *)
(* value": no token that was handed out is ever forgotten by a session that *)
(* exists; it is current until a refresh that presents it replaces it.      *)
(* And a replaced token buys new ones for the grace period only, plus the   *)
(* time a request takes: also when the row changes between two statements.  *)
CurrentThenGrace ==
    /\ \A token \in Out :
        rows[token.sid].exists /\ ~Replaced(token.jti) => rows[token.sid].jti = token.jti
    /\ \A c \in Clients :
        req[c].pc = "answered" /\ req[c].token # NoToken /\ req[c].answer # NoToken
            => req[c].since <= replacedAt[req[c].token.jti] + Grace + Latency

(* "Presenting a replaced token means it was copied ... except within a     *)
(* short grace window, where it's almost certainly two tabs refreshing at   *)
(* once": a session that is ended for reuse had a copied token presented, or *)
(* an answer with a new token lost, and then its user presents the replaced *)
(* one without any thief.  Two tabs whose answers arrive never end theirs   *)
(* by refreshing, as long as three deliveries take less than the grace      *)
(* period, four less than an access token lasts.                            *)
(* With three refreshes at once it is not so: two of them rotate the token  *)
(* one after the other, and the third presents the last but one.            *)
OnlyStrayedRevoked == alarms \subseteq strayed

(* A refresh ends, although it starts again when it loses the race for the  *)
(* row: a token that was replaced is never current again.                   *)
RefreshEnds == \A c \in Clients : req[c].pc = "sent" ~> req[c].pc = "idle"

(* "A cookie that's present and expired is a 401, NOT anonymous: otherwise  *)
(* an expired session would silently create an anonymous link": not so. The *)
(* browser removes the access cookie when its token ends, while the session *)
(* and its refresh cookie go on, and a link is created as nobody's.         *)
ExpiredIsNotAnonymous ==
    \A t \in Tabs : req[t].pc = "anonymous" => ~Live(req[t].row)
================================================================================
