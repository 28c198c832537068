--------------------------- MODULE AuthSessionProofs ---------------------------
(***************************************************************************)
(* Refresh tokens, for any number of tabs, thieves, sessions, tokens and   *)
(* any times: CurrentThenGrace, and, for two tabs and prompt deliveries,   *)
(* OnlyStrayedRevoked.                                                     *)
(*                                                                         *)
(* Neither is inductive.  A refresh grants the token of the row it has     *)
(* read, so CurrentThenGrace has to say of that row what it says of the    *)
(* tokens (Named), and when its token was replaced (Rotated).              *)
(*                                                                         *)
(* OnlyStrayedRevoked is an argument about time.  Two tabs of a session    *)
(* that has not strayed hold its current token and the one before, no older *)
(* ones (InUse): a tab that rotates the current token would make the one   *)
(* before too old for the other tab, but who starts with the current token *)
(* was refused, and by the time its access token has ended the other tab   *)
(* has long had its answer (InTurn).  A third tab may have been refused    *)
(* earlier: then all this is false, and TLC shows how.                     *)
(***************************************************************************)
EXTENDS AuthSession, FiniteSetTheorems, TLAPS

(* A row of a session, also as it was read. *)
Formed(row) ==
    /\ row.jti \in 1..jtis /\ row.prev < row.jti
    /\ row.rotated <= now /\ row.expires <= now + SessionTtl
    /\ row.prev # 0 => row.expires = row.rotated + SessionTtl

Made(token) == token # NoToken => token.sid <= sids /\ token.jti <= jtis

Asking(c) == req[c].pc \in {"sent", "read"}

(* The tokens still to be made do not pass the bound. *)
Askers == {c \in Clients : Asking(c)}
Budget == jtis + Cardinality(Askers) <= MaxJti

(* Rows and tokens that exist were made; who asks has a token. *)
Exist ==
    /\ \A s \in Sids : rows[s].exists => s <= sids /\ Formed(rows[s])
    /\ Made(jar.token)
    /\ \A h \in Thieves : Made(stolen[h])
    /\ \A c \in Clients : /\ Made(req[c].token) /\ Made(req[c].answer)
                          /\ Asking(c) => req[c].token # NoToken
                          /\ req[c].pc = "read" => req[c].row.exists /\ Formed(req[c].row)

(* Nothing is under way for longer than Latency. *)
Timely == \A c \in Clients : /\ req[c].since <= now
                             /\ req[c].pc # "idle" => now <= req[c].since + Latency

Base == TypeOK /\ Budget /\ Exist /\ Timely

(* A token that was not replaced is the current one of its session. *)
Named(sid, jti) == rows[sid].exists /\ ~Replaced(jti) => rows[sid].jti = jti

AllNamed ==
    /\ jar.token # NoToken => Named(jar.token.sid, jar.token.jti)
    /\ \A h \in Thieves : stolen[h] # NoToken => Named(stolen[h].sid, stolen[h].jti)
    /\ \A c \in Clients :
          /\ req[c].token # NoToken => Named(req[c].token.sid, req[c].token.jti)
          /\ req[c].answer # NoToken => Named(req[c].answer.sid, req[c].answer.jti)
          /\ req[c].pc = "read" => Named(req[c].token.sid, req[c].row.jti)

Cleared == \A c \in Clients : req[c].pc = "idle" => req[c].token = NoToken

(* The time in a row is not later than that of the rotation. *)
Rotated(row) == row.exists /\ row.prev # 0 => row.rotated <= replacedAt[row.prev]

AllRotated ==
    /\ \A s \in Sids : Rotated(rows[s])
    /\ \A c \in Clients : req[c].pc = "read" => Rotated(req[c].row)
    /\ \A c \in Clients :
          req[c].pc = "answered" /\ req[c].token # NoToken /\ req[c].answer # NoToken
              => req[c].since <= replacedAt[req[c].token.jti] + Grace + Latency

(* Deliveries are fast, compared with the times of the tokens. *)
Prompt == 3 * Latency < Grace /\ 4 * Latency < AccessTtl /\ 4 * Latency < SessionTtl

TwoTabs == \A a, b, c \in Tabs : a = b \/ b = c \/ a = c

(* What a thief asks with, and is told, is of sessions that have strayed. *)
Stray(token) == token # NoToken => token.sid \in strayed
Thievish == \A h \in Thieves : Stray(req[h].token) /\ Stray(req[h].answer)

(* A session that exists and has not strayed. *)
Own(s) == rows[s].exists /\ s \notin strayed

AsksCurrent(t, s) == Asking(t) /\ req[t].token.sid = s /\ req[t].token.jti = rows[s].jti
AsksPrevious(t, s) == Asking(t) /\ req[t].token.sid = s /\ req[t].token.jti = rows[s].prev
Brings(t, s) == req[t].pc = "answered" /\ req[t].answer.sid = s

(* rows[s].expires - SessionTtl is the time of the rotation, or of the login. *)
NoLaterThan(time, s, k) == time + SessionTtl <= rows[s].expires + k * Latency

(* The tokens in use, and since when they can be. *)
InUse == \A s \in Sids : Own(s) =>
    /\ jar.token.sid = s =>
          \/ /\ jar.token.jti = rows[s].jti
             /\ rows[s].expires + AccessTtl <= jar.jwtUntil + SessionTtl
             /\ rows[s].expires + AccessTtl <= jar.cookieUntil + SessionTtl
          \/ /\ jar.token.jti = rows[s].prev
             /\ \E t \in Tabs : Brings(t, s) /\ NoLaterThan(req[t].since, s, 1)
    /\ \A t \in Tabs :
          /\ Asking(t) /\ req[t].token.sid = s => AsksCurrent(t, s) \/ AsksPrevious(t, s)
          /\ AsksPrevious(t, s) => NoLaterThan(req[t].since, s, 2)
          /\ Brings(t, s) => /\ req[t].answer.jti = rows[s].jti
                             /\ NoLaterThan(req[t].since, s, 3)
                             /\ rows[s].expires <= req[t].since + SessionTtl

(* Nobody rotates the current token while another tab still has to do with *)
(* the previous one, or brings the current one.                            *)
Behind(t, s) == AsksPrevious(t, s) \/ Brings(t, s)
InTurn == \A s \in Sids : Own(s) =>
    /\ \A t \in Tabs : AsksCurrent(t, s) => ~(jar.token.sid = s /\ jar.token.jti = rows[s].prev)
    /\ \A t, u \in Tabs : t # u /\ Behind(t, s) =>
          /\ ~AsksCurrent(u, s)
          /\ req[u].pc = "refused" => ~(jar.token.sid = s /\ jar.token.jti = rows[s].jti)

(* Who has read a row will not end the session, nor grant a token that is no *)
(* longer the current one.                                                   *)
ReadInTime == \A t \in Tabs : req[t].pc = "read" /\ req[t].token.sid \notin strayed =>
    \/ req[t].token.jti = req[t].row.jti
    \/ /\ req[t].token.jti = req[t].row.prev
       /\ req[t].since + Latency < req[t].row.rotated + Grace
       /\ rows[req[t].token.sid].exists => rows[req[t].token.sid].jti = req[t].row.jti

IInv == Base /\ AllNamed /\ Cleared /\ AllRotated
TabsInv == Base /\ Thievish /\ InUse /\ InTurn /\ ReadInTime /\ OnlyStrayedRevoked

--------------------------------------------------------------------------------
(***************************************************************************)
(* What the steps do, request by request.                                  *)
(***************************************************************************)

(* Only the request of c changes, and becomes x. *)
Only(c, x) == /\ req' = [req EXCEPT ![c] = x]
              /\ x \in Request

LEMMA OnlyOne ==
    ASSUME req \in [Clients -> Request], NEW c \in Clients, NEW x, Only(c, x)
    PROVE  /\ req' \in [Clients -> Request] /\ req'[c] = x
           /\ \A d \in Clients : d # c => req'[d] = req[d]
BY DEF Only

LEMMA IdleIsRequest == Idle \in Request /\ NoRow \in Row /\ NoToken \in Tokens
BY TimesAssumption, BoundsAssumption DEF Idle, NoToken, NoRow, Request, Row, Tokens

Reply(c, token) == [req[c] EXCEPT !.pc = "answered", !.answer = token, !.since = now, !.row = NoRow]

LEMMA AnswerIsReply ==
    ASSUME TypeOK, NEW c \in Clients, NEW token \in Tokens, Answer(c, token)
    PROVE  /\ Only(c, Reply(c, token))
           /\ Reply(c, token).pc = "answered" /\ Reply(c, token).token = req[c].token
           /\ Reply(c, token).answer = token /\ Reply(c, token).since = now
<1>1. req \in [Clients -> Request] /\ req[c] \in Request /\ now \in 0..MaxNow
  BY DEF TypeOK
<1>2. req' = [req EXCEPT ![c] = Reply(c, token)]
  BY <1>1 DEF Answer, Reply
<1>3. /\ Reply(c, token) \in Request
      /\ Reply(c, token).pc = "answered" /\ Reply(c, token).token = req[c].token
      /\ Reply(c, token).answer = token /\ Reply(c, token).since = now
  BY <1>1, IdleIsRequest DEF Reply, Request
<1> QED
  BY <1>2, <1>3 DEF Only

LEMMA ClientsFinite == IsFiniteSet(Clients)
BY ClientsAssumption, FS_Union DEF Clients

(* How many tokens are still to be made, when one request changes. *)
LEMMA AskersMove ==
    ASSUME req \in [Clients -> Request], NEW c \in Clients, NEW x, Only(c, x)
    PROVE  /\ Cardinality(Askers) \in Nat /\ Cardinality(Askers') \in Nat
           /\ Cardinality(Askers') <= Cardinality(Askers) + 1
           /\ x.pc \notin {"sent", "read"} \/ Asking(c) => Cardinality(Askers') <= Cardinality(Askers)
           /\ x.pc \notin {"sent", "read"} /\ Asking(c) => Cardinality(Askers') < Cardinality(Askers)
<1>1. IsFiniteSet(Askers) /\ Cardinality(Askers) \in Nat
  BY ClientsFinite, FS_Subset, FS_CardinalityType DEF Askers
<1>2. \A d \in Clients : Asking(d)' <=> IF d = c THEN x.pc \in {"sent", "read"} ELSE Asking(d)
  BY OnlyOne DEF Asking
<1>3. CASE x.pc \in {"sent", "read"}
  <2>1. Askers' = Askers \cup {c}
    BY <1>2, <1>3 DEF Askers
  <2>2. Cardinality(Askers') = IF c \in Askers THEN Cardinality(Askers) ELSE Cardinality(Askers) + 1
    BY <1>1, <2>1, FS_AddElement
  <2> QED
    BY <1>1, <1>3, <2>2 DEF Askers
<1>4. CASE x.pc \notin {"sent", "read"}
  <2>1. Askers' = Askers \ {c}
    BY <1>2, <1>4 DEF Askers
  <2>2. IsFiniteSet(Askers \ {c}) /\ Cardinality(Askers \ {c}) \in Nat
    BY <1>1, FS_RemoveElement, FS_CardinalityType
  <2>3. Cardinality(Askers') = IF c \in Askers THEN Cardinality(Askers) - 1 ELSE Cardinality(Askers)
    BY <1>1, <2>1, FS_RemoveElement
  <2>4. c \in Askers <=> Asking(c)
    BY DEF Askers
  <2>5. Cardinality(Askers') \in Nat
    BY <2>1, <2>2
  <2> QED
    BY <1>1, <1>4, <2>3, <2>4, <2>5
<1> QED
  BY <1>3, <1>4

(* Steps of the server.  A row is ended, made, or gets a new token. *)
Ended(s)     == rows' = [rows EXCEPT ![s] = NoRow]
Begun(s)     == [exists |-> TRUE, jti |-> jtis + 1, prev |-> 0, rotated |-> 0, expires |-> now + SessionTtl]
Turned(s, at) == [rows[s] EXCEPT !.jti = jtis + 1, !.prev = rows[s].jti,
                                 !.rotated = at, !.expires = at + SessionTtl]

LEMMA LoginDoes ==
    ASSUME Base, NEW t \in Tabs, Login(t)
    PROVE  /\ sids + 1 \in Sids /\ jtis + 1 \in 1..MaxJti /\ sids' = sids + 1 /\ jtis' = jtis + 1
           /\ rows' = [rows EXCEPT ![sids + 1] = Begun(sids + 1)] /\ Begun(sids + 1) \in Row
           /\ req[t].pc = "idle"
           /\ Only(t, Reply(t, [sid |-> sids + 1, jti |-> jtis + 1]))
           /\ [sid |-> sids + 1, jti |-> jtis + 1] \in Token
           /\ jtis + 1 + Cardinality(Askers) <= MaxJti
           /\ UNCHANGED <<now, jar, stolen, replacedAt, strayed, alarms>>
<1>1. t \in Clients /\ sids \in 0..MaxSid /\ jtis \in 0..MaxJti /\ now \in 0..MaxNow
  BY DEF Clients, Base, TypeOK
<1>2. IsFiniteSet(Askers) /\ Cardinality(Askers) \in Nat
  BY ClientsFinite, FS_Subset, FS_CardinalityType DEF Askers
<1>3. jtis + Cardinality(Askers) < MaxJti /\ sids < MaxSid
  BY DEF Login, Spare, Askers, Asking
<1>4. sids + 1 \in Sids /\ jtis + 1 \in 1..MaxJti /\ jtis + 1 + Cardinality(Askers) <= MaxJti
  BY <1>1, <1>2, <1>3, BoundsAssumption DEF Sids
<1>5. [sid |-> sids + 1, jti |-> jtis + 1] \in Token
  BY <1>4 DEF Token
<1>6. Begun(sids + 1) \in Row
  BY <1>1, <1>4, TimesAssumption, BoundsAssumption DEF Begun, Row
<1>7. Only(t, Reply(t, [sid |-> sids + 1, jti |-> jtis + 1]))
  BY <1>1, <1>5, AnswerIsReply DEF Login, Base, Tokens
<1> QED
  BY <1>4, <1>5, <1>6, <1>7 DEF Login, Begun

(* The session of a request that was read is one of the table. *)
LEMMA AskerHasToken ==
    ASSUME Base, NEW c \in Clients, Asking(c)
    PROVE  /\ req[c].token \in Token /\ req[c].token.sid \in Sids /\ req[c].token.jti \in 1..MaxJti
           /\ req[c].token.sid <= sids /\ req[c].token.jti <= jtis
<1>1. req[c].token \in Tokens /\ req[c].token # NoToken /\ Made(req[c].token)
  BY DEF Base, TypeOK, Exist, Request
<1> QED
  BY <1>1 DEF Tokens, Token, Made, Sids

LEMMA ReplaceDoes ==
    ASSUME Base, NEW c \in Clients, req[c].pc = "read", NEW at \in req[c].since..now, Replace(c, at)
    PROVE  LET s == req[c].token.sid IN
           /\ rows[s].exists /\ rows[s].jti = req[c].token.jti
           /\ jtis + 1 \in 1..MaxJti /\ jtis' = jtis + 1
           /\ rows' = [rows EXCEPT ![s] = Turned(s, at)] /\ Turned(s, at) \in Row
           /\ replacedAt' = [replacedAt EXCEPT ![req[c].token.jti] = now]
           /\ [sid |-> s, jti |-> jtis + 1] \in Token
           /\ at \in 0..now /\ now <= at + Latency
           /\ UNCHANGED <<sids, alarms>>
<1> DEFINE s == req[c].token.sid
<1>1. s \in Sids /\ req[c].token.jti \in 1..MaxJti
  BY AskerHasToken DEF Asking
<1>2. /\ now \in 0..MaxNow /\ jtis \in 0..MaxJti /\ req[c] \in Request
      /\ rows \in [Sids -> Row] /\ rows[s] \in Row
  BY <1>1 DEF Base, TypeOK
<1>3. IsFiniteSet(Askers) /\ Cardinality(Askers) \in Nat /\ c \in Askers
  BY ClientsFinite, FS_Subset, FS_CardinalityType DEF Askers, Asking
<1>4. Cardinality(Askers) # 0
  BY <1>3, FS_EmptySet
<1>5. jtis + 1 \in 1..MaxJti
  BY <1>2, <1>3, <1>4, BoundsAssumption DEF Base, Budget
<1>6. [sid |-> s, jti |-> jtis + 1] \in Token
  BY <1>1, <1>5 DEF Token
<1>7. at \in 0..now /\ now <= at + Latency
  <2>1. req[c].since \in Nat /\ now \in Nat /\ now <= req[c].since + Latency
    BY <1>2 DEF Base, Timely, Request
  <2> QED
    BY <2>1, TimesAssumption
<1>8. rows[s].exists /\ rows[s].jti = req[c].token.jti
  BY DEF Replace, Current
<1>9. rows' = [rows EXCEPT ![s] = Turned(s, at)]
  BY <1>1, <1>2, <1>8 DEF Replace, Turned, Slides, Row
<1>10. Turned(s, at) \in Row
  <2>1. at \in 0..MaxNow /\ at + SessionTtl \in 0..MaxNow + SessionTtl
    BY <1>2, <1>7, TimesAssumption, BoundsAssumption
  <2>2. jtis + 1 \in 0..MaxJti /\ rows[s].jti \in 0..MaxJti
    BY <1>2, <1>5 DEF Row
  <2> QED
    BY <1>2, <2>1, <2>2 DEF Turned, Row
<1> QED
  BY <1>5, <1>6, <1>7, <1>8, <1>9, <1>10 DEF Replace

LEMMA RotateDoes ==
    ASSUME Base, NEW c \in Clients, req[c].pc = "read", NEW at \in req[c].since..now, Rotate(c, at)
    PROVE  LET s == req[c].token.sid IN
           /\ rows[s].exists /\ rows[s].jti = req[c].token.jti
           /\ jtis + 1 \in 1..MaxJti /\ jtis' = jtis + 1
           /\ rows' = [rows EXCEPT ![s] = Turned(s, at)] /\ Turned(s, at) \in Row
           /\ replacedAt' = [replacedAt EXCEPT ![req[c].token.jti] = now]
           /\ [sid |-> s, jti |-> jtis + 1] \in Token
           /\ at \in 0..now /\ now <= at + Latency
           /\ UNCHANGED <<sids, alarms>>
BY ReplaceDoes DEF Rotate

Ask(c, token) == [req[c] EXCEPT !.pc = "sent", !.since = now, !.token = token]

(* Send(t) with a cookie, and StealUses(h). *)
LEMMA AskDoes ==
    ASSUME Base, NEW c \in Clients, NEW token \in Token, Spare,
           req' = [req EXCEPT ![c].pc = "sent", ![c].since = now, ![c].token = token]
    PROVE  /\ Only(c, Ask(c, token))
           /\ Ask(c, token).pc = "sent" /\ Ask(c, token).token = token
           /\ Ask(c, token).since = now /\ Ask(c, token).answer = req[c].answer
           /\ jtis + Cardinality(Askers) < MaxJti
<1>1. req \in [Clients -> Request] /\ req[c] \in Request /\ now \in 0..MaxNow
  BY DEF Base, TypeOK
<1>2. Ask(c, token) \in Request
  BY <1>1 DEF Ask, Request, Tokens
<1>3. req' = [req EXCEPT ![c] = Ask(c, token)]
  BY <1>1 DEF Ask
<1>4. jtis + Cardinality(Askers) < MaxJti
  BY DEF Spare, Askers, Asking
<1> QED
  BY <1>1, <1>2, <1>3, <1>4 DEF Only, Ask, Request

(* A step of one client keeps Base, if what it makes has its parts. *)
LEMMA BaseOfOne ==
    ASSUME Base, NEW c \in Clients, NEW x, Only(c, x), now' = now,
           x.since <= now, x.pc # "idle" => now <= x.since + Latency,
           sids' \in sids..MaxSid, jtis' \in jtis..MaxJti,
           jtis' + Cardinality(Askers') <= MaxJti,
           rows' \in [Sids -> Row],
           \A s \in Sids : rows'[s].exists => s <= sids' /\ Formed(rows[s])',
           x.token # NoToken => x.token.sid <= sids' /\ x.token.jti <= jtis',
           x.answer # NoToken => x.answer.sid <= sids' /\ x.answer.jti <= jtis',
           x.pc \in {"sent", "read"} => x.token # NoToken,
           x.pc = "read" => x.row.exists /\ Formed(x.row),
           jar' \in [token : Tokens, jwtUntil : Nat, cookieUntil : Nat], Made(jar.token)',
           stolen' \in [Thieves -> Tokens], \A h \in Thieves : Made(stolen[h])',
           replacedAt' \in [1..MaxJti -> 0..Never], strayed' \subseteq Sids, alarms' \subseteq Sids
    PROVE  Base'
<1>1. /\ req' \in [Clients -> Request] /\ req'[c] = x
      /\ \A d \in Clients : d # c => req'[d] = req[d]
  BY OnlyOne DEF Base, TypeOK
<1>2. sids \in 0..MaxSid /\ jtis \in 0..MaxJti /\ sids <= sids' /\ jtis <= jtis'
      /\ sids' \in 0..MaxSid /\ jtis' \in 0..MaxJti
  BY BoundsAssumption DEF Base, TypeOK
<1>3. TypeOK'
  BY <1>1, <1>2 DEF Base, TypeOK
<1>4. Budget'
  BY DEF Budget
<1>5. Timely'
  BY <1>1 DEF Base, Timely
<1>6. ASSUME NEW token \in Tokens, Made(token) PROVE token # NoToken => token.sid <= sids' /\ token.jti <= jtis'
  BY <1>2, <1>6 DEF Made, Tokens, Token, Sids
<1>7. ASSUME NEW row, Formed(row) PROVE row.jti \in 1..jtis'
  BY <1>2, <1>7 DEF Formed
<1>8. \A d \in Clients : /\ req[d].token \in Tokens /\ req[d].answer \in Tokens
                         /\ Made(req[d].token) /\ Made(req[d].answer)
                         /\ Asking(d) => req[d].token # NoToken
                         /\ req[d].pc = "read" => req[d].row.exists /\ Formed(req[d].row)
  BY DEF Base, TypeOK, Exist, Request
<1>9. ASSUME NEW d \in Clients
      PROVE  /\ Made(req[d].token)' /\ Made(req[d].answer)'
             /\ Asking(d)' => req'[d].token # NoToken
             /\ req'[d].pc = "read" => req'[d].row.exists /\ Formed(req[d].row)'
  <2>1. CASE d = c
    BY <1>1, <1>7, <2>1 DEF Made, Asking, Formed
  <2>2. CASE d # c
    BY <1>1, <1>6, <1>7, <1>8, <2>2 DEF Made, Asking, Formed
  <2> QED
    BY <2>1, <2>2
<1>10. Exist'
  BY <1>9 DEF Exist
<1> QED
  BY <1>3, <1>4, <1>5, <1>10 DEF Base

(* Rows and tokens stay as they are, or a row ends. *)
LEMMA BaseWithRows ==
    ASSUME Base, NEW c \in Clients, NEW x, Only(c, x), UNCHANGED <<now, sids, jtis, replacedAt>>,
           x.since <= now, x.pc # "idle" => now <= x.since + Latency,
           jtis + Cardinality(Askers') <= MaxJti,
           rows' = rows \/ \E s \in Sids : rows' = [rows EXCEPT ![s] = NoRow],
           Made(x.token), Made(x.answer),
           x.pc \in {"sent", "read"} => x.token # NoToken,
           x.pc = "read" => x.row.exists /\ Formed(x.row),
           jar' \in [token : Tokens, jwtUntil : Nat, cookieUntil : Nat], Made(jar'.token),
           stolen' \in [Thieves -> Tokens], \A h \in Thieves : Made(stolen'[h]),
           strayed' \subseteq Sids, alarms' \subseteq Sids
    PROVE  Base'
<1>1. /\ rows \in [Sids -> Row] /\ sids \in 0..MaxSid /\ jtis \in 0..MaxJti
      /\ replacedAt \in [1..MaxJti -> 0..Never]
      /\ \A s \in Sids : rows[s].exists => s <= sids /\ Formed(rows[s])
  BY DEF Base, TypeOK, Exist
<1>2. /\ rows' \in [Sids -> Row]
      /\ \A s \in Sids : rows'[s] = rows[s] \/ rows'[s] = NoRow
  BY <1>1, IdleIsRequest
<1>3. \A s \in Sids : rows'[s].exists => s <= sids' /\ Formed(rows[s])'
  BY <1>1, <1>2 DEF NoRow, Formed
<1>4. sids' \in sids..MaxSid /\ jtis' \in jtis..MaxJti
  BY <1>1, BoundsAssumption
<1>5. Made(jar.token)' /\ \A h \in Thieves : Made(stolen[h])'
  BY DEF Made
<1> QED
  BY <1>1, <1>2, <1>3, <1>4, <1>5, BaseOfOne DEF Made

(* What Base says of one client and of the tokens in hand. *)
LEMMA BaseSays ==
    ASSUME Base, NEW c \in Clients
    PROVE  /\ now \in 0..MaxNow /\ now <= now + Latency
           /\ req \in [Clients -> Request] /\ req[c] \in Request
           /\ req[c].since \in Nat /\ req[c].since <= now
           /\ req[c].pc # "idle" => now <= req[c].since + Latency
           /\ Made(req[c].token) /\ Made(req[c].answer) /\ Made(jar.token) /\ Made(NoToken)
           /\ req[c].token \in Tokens /\ req[c].answer \in Tokens /\ req[c].row \in Row
           /\ jar \in [token : Tokens, jwtUntil : Nat, cookieUntil : Nat]
           /\ jar.token \in Tokens
           /\ stolen \in [Thieves -> Tokens] /\ \A h \in Thieves : Made(stolen[h])
           /\ strayed \subseteq Sids /\ alarms \subseteq Sids
           /\ jtis + Cardinality(Askers) <= MaxJti
           /\ rows \in [Sids -> Row] /\ sids \in 0..MaxSid /\ jtis \in 0..MaxJti
<1>1. now \in Nat /\ now <= now + Latency
  BY TimesAssumption DEF Base, TypeOK
<1> QED
  BY <1>1 DEF Base, TypeOK, Exist, Timely, Budget, Made, Request

(* A step that answers, ends or only marks a request. *)
LEMMA BaseOfQuiet ==
    ASSUME Base, NEW c \in Clients, NEW x, Only(c, x),
           x.pc \notin {"sent", "read"} \/ Asking(c),
           UNCHANGED <<now, sids, jtis, replacedAt>>,
           x.since <= now, x.pc # "idle" => now <= x.since + Latency,
           rows' = rows \/ \E s \in Sids : rows' = [rows EXCEPT ![s] = NoRow],
           Made(x.token), Made(x.answer),
           x.pc \in {"sent", "read"} => x.token # NoToken,
           x.pc = "read" => x.row.exists /\ Formed(x.row),
           jar' \in [token : Tokens, jwtUntil : Nat, cookieUntil : Nat], Made(jar'.token),
           stolen' \in [Thieves -> Tokens], \A h \in Thieves : Made(stolen'[h]),
           strayed' \subseteq Sids, alarms' \subseteq Sids
    PROVE  Base'
<1>1. Cardinality(Askers') <= Cardinality(Askers) /\ Cardinality(Askers') \in Nat
      /\ Cardinality(Askers) \in Nat
  BY AskersMove DEF Base, TypeOK
<1>2. jtis + Cardinality(Askers') <= MaxJti
  BY <1>1, BaseSays, BoundsAssumption
<1> QED
  BY <1>2, BaseWithRows

LEMMA BaseOfReply ==
    ASSUME Base, NEW c \in Clients, Answer(c, NoToken),
           UNCHANGED <<now, sids, jtis, replacedAt, jar, stolen, strayed>>,
           rows' = rows \/ \E s \in Sids : rows' = [rows EXCEPT ![s] = NoRow],
           alarms' \subseteq Sids
    PROVE  Base'
<1>1. /\ Only(c, Reply(c, NoToken)) /\ Reply(c, NoToken).pc = "answered"
      /\ Reply(c, NoToken).token = req[c].token /\ Reply(c, NoToken).answer = NoToken
      /\ Reply(c, NoToken).since = now
  BY AnswerIsReply, IdleIsRequest DEF Base
<1> HIDE DEF Reply
<1>2. now <= now
  BY BaseSays
<1> QED
  BY <1>1, <1>2, BaseSays, BaseOfQuiet

LEMMA BaseServer ==
    ASSUME Base,
           \/ \E t \in Tabs : Login(t) \/ Logout(t)
           \/ \E c \in Clients : Read(c) \/ Decide(c) \/ QueryFails(c) \/ UpdateUnanswered(c)
    PROVE  Base'
<1>1. ASSUME NEW t \in Tabs, Login(t) PROVE Base'
  <2> DEFINE token == [sid |-> sids + 1, jti |-> jtis + 1]
             x == Reply(t, token)
  <2>0. t \in Clients
    BY DEF Clients
  <2>1. /\ sids + 1 \in Sids /\ jtis + 1 \in 1..MaxJti /\ sids' = sids + 1 /\ jtis' = jtis + 1
        /\ rows' = [rows EXCEPT ![sids + 1] = Begun(sids + 1)] /\ Begun(sids + 1) \in Row
        /\ req[t].pc = "idle" /\ Only(t, x) /\ token \in Token
        /\ jtis + 1 + Cardinality(Askers) <= MaxJti
        /\ UNCHANGED <<now, jar, stolen, replacedAt, strayed, alarms>>
    BY <1>1, LoginDoes
  <2>2. /\ x.pc = "answered" /\ x.token = req[t].token /\ x.answer = token /\ x.since = now
    BY <1>1, <2>0, <2>1, AnswerIsReply DEF Login, Base, Tokens
  <2>3. token.sid = sids + 1 /\ token.jti = jtis + 1
    OBVIOUS
  <2> HIDE DEF x, token
  <2>4. /\ Cardinality(Askers) \in Nat /\ Cardinality(Askers') \in Nat
        /\ Cardinality(Askers') <= Cardinality(Askers)
    BY <2>0, <2>1, <2>2, AskersMove DEF Base, TypeOK
  <2>5. jtis' + Cardinality(Askers') <= MaxJti
    BY <2>0, <2>1, <2>4, BaseSays, BoundsAssumption
  <2>6. /\ sids' \in sids..MaxSid /\ jtis' \in jtis..MaxJti
        /\ sids \in Nat /\ jtis \in Nat /\ now <= now
    BY <2>0, <2>1, BaseSays, BoundsAssumption DEF Sids
  <2>7. rows' \in [Sids -> Row]
    BY <2>0, <2>1, BaseSays
  <2>8. ASSUME NEW s \in Sids, rows'[s].exists PROVE s <= sids' /\ Formed(rows[s])'
    <3>1. CASE s = sids + 1
      <4>1. rows'[s] = Begun(sids + 1)
        BY <2>0, <2>1, <3>1, BaseSays
      <4>2. jtis + 1 \in 1..jtis' /\ 0 <= now /\ now + SessionTtl <= now + SessionTtl /\ 0 < jtis + 1
        BY <2>0, <2>1, BaseSays, TimesAssumption
      <4> QED
        BY <2>1, <2>6, <3>1, <4>1, <4>2 DEF Begun, Formed
    <3>2. CASE s # sids + 1
      <4>1. rows'[s] = rows[s]
        BY <2>0, <2>1, <3>2, BaseSays
      <4> QED
        BY <2>1, <2>6, <2>8, <4>1 DEF Base, Exist, Formed, Sids
    <3> QED
      BY <3>1, <3>2
  <2>9. x.token # NoToken => x.token.sid <= sids' /\ x.token.jti <= jtis'
    BY <2>0, <2>1, <2>2, <2>6, BaseSays DEF Made, Tokens, Token, Sids
  <2>10. /\ jar' \in [token : Tokens, jwtUntil : Nat, cookieUntil : Nat]
         /\ stolen' \in [Thieves -> Tokens]
         /\ replacedAt' \in [1..MaxJti -> 0..Never] /\ strayed' \subseteq Sids /\ alarms' \subseteq Sids
    BY <2>1 DEF Base, TypeOK
  <2>11. Made(jar.token)' /\ \A h \in Thieves : Made(stolen[h])'
    <3>1. \A token2 \in Tokens : Made(token2) /\ token2 # NoToken => token2.sid <= sids' /\ token2.jti <= jtis'
      BY <2>1, <2>6 DEF Made, Tokens, Token, Sids
    <3> QED
      BY <2>0, <2>1, <3>1, BaseSays DEF Made
  <2>12. x.answer.sid <= sids' /\ x.answer.jti <= jtis'
    BY <2>1, <2>2, <2>3, <2>6
  <2>13. x.since <= now /\ now <= x.since + Latency
    BY <2>0, <2>2, <2>6, BaseSays
  <2> QED
    BY <2>0, <2>1, <2>2, <2>5, <2>6, <2>7, <2>8, <2>9, <2>10, <2>11, <2>12, <2>13, BaseOfOne
<1>2. ASSUME NEW t \in Tabs, Logout(t) PROVE Base'
  <2>1. jar.token.sid \in Sids
    BY <1>2 DEF Logout, Base, TypeOK, Tokens, Token
  <2> QED
    BY <1>2, <2>1, BaseOfReply DEF Logout, Clients, Base, TypeOK
<1>3. ASSUME NEW c \in Clients, Read(c) PROVE Base'
  <2> DEFINE row == SessionOf(req[c].token)
             x == [req[c] EXCEPT !.pc = "read", !.row = row]
  <2>1. Asking(c)
    BY <1>3 DEF Read, Asking
  <2>2. req[c].token # NoToken /\ row = rows[req[c].token.sid] /\ req[c].token.sid \in Sids
    BY <2>1, AskerHasToken DEF SessionOf, Token, NoToken, Sids
  <2>3. CASE Live(row) /\ req' = [req EXCEPT ![c].pc = "read", ![c].row = row]
    <3>1. row \in Row /\ row.exists /\ Formed(row)
      BY <2>2, <2>3 DEF Live, Base, TypeOK, Exist
    <3> HIDE DEF row
    <3>2. /\ x \in Request /\ x.pc = "read" /\ x.row = row /\ x.token = req[c].token
          /\ x.answer = req[c].answer /\ x.since = req[c].since
      BY <3>1, BaseSays DEF Request
    <3>3. Only(c, x)
      BY <2>3, <3>2, BaseSays DEF Only
    <3>4. /\ UNCHANGED <<now, sids, jtis, replacedAt>>
          /\ UNCHANGED <<rows, jar, stolen, strayed, alarms>> /\ req[c].pc # "idle"
      BY <1>3 DEF Read, database
    <3> HIDE DEF x
    <3> QED
      BY <2>1, <2>2, <3>1, <3>2, <3>3, <3>4, BaseSays, BaseOfQuiet
  <2>4. CASE Answer(c, NoToken)
    BY <1>3, <2>4, BaseOfReply DEF Read, database, Base, TypeOK
  <2> QED
    BY <1>3, <2>3, <2>4 DEF Read
<1>4. ASSUME NEW c \in Clients, QueryFails(c) PROVE Base'
  BY <1>4, BaseOfReply DEF QueryFails, database, Base, TypeOK
<1>5. ASSUME NEW c \in Clients, req[c].pc = "read", NEW at \in req[c].since..now, Replace(c, at),
             NEW token \in {NoToken, [sid |-> req[c].token.sid, jti |-> jtis + 1]}, Answer(c, token),
             UNCHANGED <<now, jar, stolen>>, strayed' \subseteq Sids
      PROVE  Base'
  <2> DEFINE s == req[c].token.sid
             x == Reply(c, token)
  <2>1. /\ rows[s].exists /\ rows[s].jti = req[c].token.jti
        /\ jtis + 1 \in 1..MaxJti /\ jtis' = jtis + 1
        /\ rows' = [rows EXCEPT ![s] = Turned(s, at)] /\ Turned(s, at) \in Row
        /\ replacedAt' = [replacedAt EXCEPT ![req[c].token.jti] = now]
        /\ token \in Tokens /\ at \in 0..now /\ now <= at + Latency
        /\ UNCHANGED <<sids, alarms>>
    BY <1>5, ReplaceDoes, IdleIsRequest DEF Tokens
  <2>2. Only(c, x) /\ x.pc = "answered" /\ x.token = req[c].token /\ x.answer = token /\ x.since = now
    BY <1>5, <2>1, AnswerIsReply DEF Base
  <2>3. token # NoToken => token.sid = s /\ token.jti = jtis + 1
    BY <1>5
  <2>4. s \in Sids /\ req[c].token.jti \in 1..MaxJti /\ s <= sids
    BY <1>5, AskerHasToken DEF Asking
  <2> HIDE DEF x, s
  <2>5. /\ Cardinality(Askers) \in Nat /\ Cardinality(Askers') \in Nat
        /\ Cardinality(Askers') < Cardinality(Askers)
    BY <1>5, <2>1, <2>2, AskersMove DEF Asking, Base, TypeOK
  <2>6. jtis' + Cardinality(Askers') <= MaxJti
    BY <2>1, <2>5, BaseSays, BoundsAssumption
  <2>7. /\ sids' \in sids..MaxSid /\ jtis' \in jtis..MaxJti
        /\ sids \in Nat /\ jtis \in Nat /\ now <= now
    BY <2>1, BaseSays, BoundsAssumption
  <2>8. rows' \in [Sids -> Row]
    BY <2>1, BaseSays
  <2>9. ASSUME NEW q \in Sids, rows'[q].exists PROVE q <= sids' /\ Formed(rows[q])'
    <3>1. CASE q = s
      <4>1. rows'[q] = Turned(s, at) /\ rows[s] \in Row
        BY <2>1, <2>4, <3>1, BaseSays
      <4>2. Formed(rows[s]) /\ s <= sids
        BY <2>1, <2>4 DEF Base, Exist
      <4>3. jtis + 1 \in 1..jtis' /\ rows[s].jti < jtis + 1 /\ at <= now
            /\ at + SessionTtl <= now + SessionTtl
        BY <2>1, <2>7, <4>2, BaseSays, TimesAssumption DEF Formed
      <4>4. /\ Turned(s, at).jti = jtis + 1 /\ Turned(s, at).prev = rows[s].jti
            /\ Turned(s, at).rotated = at /\ Turned(s, at).expires = at + SessionTtl
        BY <4>1 DEF Turned, Row
      <4> QED
        BY <1>5, <2>1, <3>1, <4>1, <4>2, <4>3, <4>4 DEF Formed
    <3>2. CASE q # s
      <4>1. rows'[q] = rows[q]
        BY <2>1, <3>2, BaseSays
      <4> QED
        BY <1>5, <2>1, <2>7, <2>9, <4>1 DEF Base, Exist, Formed, Sids
    <3> QED
      BY <3>1, <3>2
  <2>10. \A t \in Tokens : Made(t) /\ t # NoToken => t.sid <= sids' /\ t.jti <= jtis'
    BY <2>1, <2>7 DEF Made, Tokens, Token, Sids
  <2>11. /\ jar' \in [token : Tokens, jwtUntil : Nat, cookieUntil : Nat]
         /\ stolen' \in [Thieves -> Tokens] /\ strayed' \subseteq Sids /\ alarms' \subseteq Sids
    BY <1>5, <2>1 DEF Base, TypeOK
  <2>12. replacedAt' \in [1..MaxJti -> 0..Never]
    <3>1. now \in 0..Never
      BY <2>1, BaseSays, BoundsAssumption DEF Never
    <3> QED
      BY <2>1, <2>4, <3>1 DEF Base, TypeOK
  <2>13. Made(jar.token)' /\ \A h \in Thieves : Made(stolen[h])'
    BY <1>5, <2>10, BaseSays DEF Made
  <2>14. x.token # NoToken => x.token.sid <= sids' /\ x.token.jti <= jtis'
    BY <2>2, <2>10, BaseSays
  <2>15. x.answer # NoToken => x.answer.sid <= sids' /\ x.answer.jti <= jtis'
    BY <2>1, <2>2, <2>3, <2>4, <2>7
  <2>16. x.since <= now /\ now <= x.since + Latency
    BY <2>2, <2>7, BaseSays
  <2> QED
    BY <1>5, <2>2, <2>1, <2>6, <2>7, <2>8, <2>9, <2>11, <2>12, <2>13, <2>14, <2>15, <2>16, BaseOfOne
<1>6. ASSUME NEW c \in Clients, req[c].pc = "read", Retry(c), UNCHANGED <<now, jar, stolen, strayed>>
      PROVE  Base'
  <2> DEFINE x == [req[c] EXCEPT !.pc = "sent", !.row = NoRow]
  <2>1. /\ x \in Request /\ x.pc = "sent" /\ x.token = req[c].token
        /\ x.answer = req[c].answer /\ x.since = req[c].since
    BY BaseSays, IdleIsRequest DEF Request
  <2>2. Only(c, x)
    BY <1>6, <2>1, BaseSays DEF Retry, Only
  <2>3. Asking(c) /\ req[c].pc # "idle" /\ req[c].token # NoToken
    BY <1>6 DEF Asking, Base, Exist
  <2>4. UNCHANGED <<rows, sids, jtis, replacedAt, alarms>>
    BY <1>6 DEF Retry, database
  <2> HIDE DEF x
  <2> QED
    BY <1>6, <2>1, <2>2, <2>3, <2>4, BaseSays, BaseOfQuiet
<1>7. ASSUME NEW c \in Clients, req[c].pc = "read", NEW at \in req[c].since..now, Grant(c, at),
             UNCHANGED <<now, jar, stolen, strayed>>
      PROVE  Base'
  <2> DEFINE token == [sid |-> req[c].token.sid, jti |-> req[c].row.jti]
             x == Reply(c, token)
  <2>1. Asking(c)
    BY <1>7 DEF Asking
  <2>2. /\ req[c].token.sid \in Sids /\ req[c].token.sid <= sids
        /\ req[c].row.jti \in 1..jtis
    BY <1>7, <2>1, AskerHasToken DEF Base, Exist, Formed
  <2>3. token \in Tokens /\ Made(token)
    <3>1. req[c].row.jti \in 1..MaxJti /\ req[c].row.jti <= jtis
      BY <2>2, BaseSays, BoundsAssumption
    <3> QED
      BY <2>2, <3>1 DEF Tokens, Token, Made
  <2>4. /\ Only(c, x) /\ x.pc = "answered" /\ x.token = req[c].token /\ x.answer = token /\ x.since = now
    BY <1>7, <2>3, AnswerIsReply DEF Grant, Base
  <2>5. UNCHANGED <<rows, sids, jtis, replacedAt, alarms>>
    BY <1>7 DEF Grant, database
  <2>6. now <= now
    BY BaseSays
  <2> HIDE DEF x, token
  <2> QED
    BY <1>7, <2>3, <2>4, <2>5, <2>6, BaseSays, BaseOfQuiet
<1>8. ASSUME NEW c \in Clients, req[c].pc = "read", NEW at \in req[c].since..now, Revoke(c, at),
             UNCHANGED <<now, jar, stolen, strayed>>
      PROVE  Base'
  <2>1. req[c].token.sid \in Sids
    BY <1>8, AskerHasToken DEF Asking
  <2> QED
    BY <1>8, <2>1, BaseOfReply DEF Revoke, Base, TypeOK
<1>9. ASSUME NEW c \in Clients, req[c].pc = "read", NEW at \in req[c].since..now, Rotate(c, at),
             UNCHANGED <<now, jar, stolen, strayed>>
      PROVE  Base'
  <2>1. PICK token : token = [sid |-> req[c].token.sid, jti |-> jtis + 1]
    OBVIOUS
  <2> QED
    BY <1>5, <1>9, <2>1, BaseSays DEF Rotate
<1>10. ASSUME NEW c \in Clients, UpdateUnanswered(c) PROVE Base'
  <2>1. PICK at \in req[c].since..now : req[c].pc = "read" /\ Replace(c, at)
    BY <1>10 DEF UpdateUnanswered
  <2>2. strayed' \subseteq Sids
    BY <1>10, <2>1, AskerHasToken, BaseSays DEF UpdateUnanswered, Asking
  <2> QED
    BY <1>5, <1>10, <2>1, <2>2 DEF UpdateUnanswered
<1> QED
  BY <1>1, <1>2, <1>3, <1>4, <1>6, <1>7, <1>8, <1>9, <1>10 DEF Decide

(* A request is marked, or its slot is free again. *)
Marked(c, pc, row) == [req[c] EXCEPT !.pc = pc, !.since = now, !.row = row]

LEMMA MarkDoes ==
    ASSUME Base, NEW c \in Clients, NEW pc \in {"refused", "anonymous"}, NEW row \in Row,
           req' = [req EXCEPT ![c] = Marked(c, pc, row)]
    PROVE  /\ Only(c, Marked(c, pc, row))
           /\ Marked(c, pc, row).pc = pc /\ Marked(c, pc, row).since = now
           /\ Marked(c, pc, row).token = req[c].token /\ Marked(c, pc, row).answer = req[c].answer
BY BaseSays DEF Only, Marked, Request

LEMMA SessionIsRow == ASSUME Base, NEW token \in Tokens PROVE SessionOf(token) \in Row
BY IdleIsRequest DEF Base, TypeOK, SessionOf, Tokens, Token

LEMMA RefusedDoes ==
    ASSUME Base, NEW t \in Tabs, Refused(t)
    PROVE  LET x == Marked(t, "refused", req[t].row) IN
           /\ Only(t, x)
           /\ x.pc = "refused" /\ x.since = now /\ x.token = req[t].token /\ x.answer = req[t].answer
           /\ UNCHANGED <<now, database, jar, stolen, strayed>>
<1>1. t \in Clients
  BY DEF Clients
<1>2. req' = [req EXCEPT ![t] = Marked(t, "refused", req[t].row)]
  BY <1>1, BaseSays DEF Refused, Marked, Request
<1>3. req[t].row \in Row
  BY <1>1, BaseSays
<1> QED
  BY <1>1, <1>2, <1>3, MarkDoes DEF Refused

LEMMA CreateDoes ==
    ASSUME Base, NEW t \in Tabs, CreateAnonymously(t)
    PROVE  LET x == Marked(t, "anonymous", SessionOf(jar.token)) IN
           /\ Only(t, x)
           /\ x.pc = "anonymous" /\ x.since = now /\ x.token = req[t].token /\ x.answer = req[t].answer
           /\ UNCHANGED <<now, database, jar, stolen, strayed>>
<1>1. t \in Clients
  BY DEF Clients
<1>2. req' = [req EXCEPT ![t] = Marked(t, "anonymous", SessionOf(jar.token))]
  BY <1>1, BaseSays DEF CreateAnonymously, Marked, Request
<1>3. SessionOf(jar.token) \in Row
  BY <1>1, BaseSays, SessionIsRow
<1> QED
  BY <1>1, <1>2, <1>3, MarkDoes DEF CreateAnonymously

LEMMA FreeDoes ==
    ASSUME NEW c \in Clients, req' = [req EXCEPT ![c] = Idle]
    PROVE  /\ Only(c, Idle) /\ Idle.pc = "idle" /\ Idle.token = NoToken /\ Idle.answer = NoToken
           /\ Idle.since = 0 /\ Made(NoToken)
BY IdleIsRequest DEF Only, Idle, Made

LEMMA BaseBrowser ==
    ASSUME Base, NEW t \in Tabs,
           \/ Refused(t) \/ Send(t) \/ Receive(t) \/ AnswerLost(t)
           \/ CreateAnonymously(t) \/ Created(t)
    PROVE  Base'
<1>0. t \in Clients /\ 0 <= now /\ now <= now
  BY BaseSays DEF Clients
<1>1. CASE Refused(t)
  <2>1. UNCHANGED <<now, sids, jtis, replacedAt, rows, jar, stolen, strayed, alarms>>
    BY <1>1 DEF Refused, database
  <2> DEFINE x == Marked(t, "refused", req[t].row)
  <2>2. Only(t, x) /\ x.pc = "refused" /\ x.since = now /\ x.token = req[t].token /\ x.answer = req[t].answer
    BY <1>1, RefusedDoes
  <2> HIDE DEF x
  <2> QED
    BY <1>0, <2>1, <2>2, BaseSays, BaseOfQuiet
<1>2. CASE CreateAnonymously(t)
  <2>1. UNCHANGED <<now, sids, jtis, replacedAt, rows, jar, stolen, strayed, alarms>>
    BY <1>2 DEF CreateAnonymously, database
  <2> DEFINE x == Marked(t, "anonymous", SessionOf(jar.token))
  <2>2. Only(t, x) /\ x.pc = "anonymous" /\ x.since = now /\ x.token = req[t].token /\ x.answer = req[t].answer
    BY <1>2, CreateDoes
  <2> HIDE DEF x
  <2> QED
    BY <1>0, <2>1, <2>2, BaseSays, BaseOfQuiet
<1>3. CASE Created(t)
  <2>1. UNCHANGED <<now, sids, jtis, replacedAt, rows, jar, stolen, strayed, alarms>>
    BY <1>3 DEF Created, database
  <2> QED
    BY <1>0, <1>3, <2>1, FreeDoes, BaseSays, BaseOfQuiet DEF Created
<1>4. CASE Send(t)
  <2>1. UNCHANGED <<now, sids, jtis, replacedAt, rows, jar, stolen, strayed, alarms>>
    BY <1>4 DEF Send, database
  <2>2. CASE Answer(t, NoToken)
    BY <1>0, <2>1, <2>2, BaseOfReply DEF Base, TypeOK
  <2>3. CASE /\ jar.token # NoToken /\ Spare
             /\ req' = [req EXCEPT ![t].pc = "sent", ![t].since = now, ![t].token = jar.token]
    <3> DEFINE x == Ask(t, jar.token)
    <3>1. jar.token \in Token
      BY <1>0, <2>3, BaseSays DEF Tokens
    <3>2. /\ Only(t, x) /\ x.pc = "sent" /\ x.token = jar.token /\ x.since = now
          /\ x.answer = req[t].answer /\ jtis + Cardinality(Askers) < MaxJti
      BY <1>0, <2>3, <3>1, AskDoes
    <3> HIDE DEF x
    <3>3. jtis + Cardinality(Askers') <= MaxJti
      <4>1. Cardinality(Askers) \in Nat /\ Cardinality(Askers') \in Nat
            /\ Cardinality(Askers') <= Cardinality(Askers) + 1
        BY <1>0, <3>2, AskersMove, BaseSays
      <4> QED
        BY <1>0, <3>2, <4>1, BaseSays, BoundsAssumption
    <3> QED
      BY <1>0, <2>1, <2>3, <3>2, <3>3, BaseSays, BaseWithRows
  <2> QED
    BY <1>4, <2>2, <2>3 DEF Send
<1>5. CASE Receive(t)
  <2>1. UNCHANGED <<now, sids, jtis, replacedAt, rows, stolen, strayed, alarms>>
    BY <1>5 DEF Receive, database
  <2>2. /\ jar' \in [token : Tokens, jwtUntil : Nat, cookieUntil : Nat]
        /\ jar'.token = req[t].answer
    <3>1. req[t].since + AccessTtl \in Nat /\ now + AccessTtl \in Nat
      BY <1>0, BaseSays, TimesAssumption
    <3> QED
      BY <1>0, <1>5, <3>1, BaseSays, IdleIsRequest DEF Receive
  <2> QED
    BY <1>0, <1>5, <2>1, <2>2, FreeDoes, BaseSays, BaseOfQuiet DEF Receive
<1>6. CASE AnswerLost(t)
  <2>1. UNCHANGED <<now, sids, jtis, replacedAt, rows, jar, stolen, alarms>>
    BY <1>6 DEF AnswerLost, database
  <2>2. strayed' \subseteq Sids
    BY <1>0, <1>6, BaseSays DEF AnswerLost, Tokens, Token, NoToken
  <2> QED
    BY <1>0, <1>6, <2>1, <2>2, FreeDoes, BaseSays, BaseOfQuiet DEF AnswerLost
<1> QED
  BY <1>1, <1>2, <1>3, <1>4, <1>5, <1>6

LEMMA BaseThief ==
    ASSUME Base, NEW h \in Thieves, Steal(h) \/ StealUses(h) \/ StealReceives(h)
    PROVE  Base'
<1>0. h \in Clients /\ 0 <= now /\ now <= now
  BY BaseSays DEF Clients
<1>1. CASE Steal(h)
  <2> DEFINE x == req[h]
  <2>1. Only(h, x) /\ UNCHANGED <<now, sids, jtis, replacedAt, rows, jar, alarms>>
    BY <1>0, <1>1, BaseSays DEF Steal, database, Only
  <2>2. strayed' \subseteq Sids
    BY <1>0, <1>1, BaseSays DEF Steal
  <2>3. stolen' \in [Thieves -> Tokens] /\ \A k \in Thieves : Made(stolen'[k])
    BY <1>0, <1>1, BaseSays DEF Steal
  <2>4. x.pc = "idle"
    BY <1>1 DEF Steal
  <2>5. x.since <= now /\ Made(x.token) /\ Made(x.answer)
    BY <1>0, BaseSays
  <2> HIDE DEF x
  <2> QED
    BY <1>0, <2>1, <2>2, <2>3, <2>4, <2>5, BaseSays, BaseOfQuiet
<1>2. CASE StealUses(h)
  <2>1. UNCHANGED <<now, sids, jtis, replacedAt, rows, jar, stolen, alarms>>
    BY <1>2 DEF StealUses, database
  <2> DEFINE x == Ask(h, stolen[h])
  <2>2. stolen[h] \in Token /\ stolen[h] # NoToken
    BY <1>0, <1>2, BaseSays DEF StealUses, Tokens
  <2>3. /\ Only(h, x) /\ x.pc = "sent" /\ x.token = stolen[h] /\ x.since = now
        /\ x.answer = req[h].answer /\ jtis + Cardinality(Askers) < MaxJti
    BY <1>0, <1>2, <2>2, AskDoes DEF StealUses
  <2> HIDE DEF x
  <2>4. jtis + Cardinality(Askers') <= MaxJti
    <3>1. Cardinality(Askers) \in Nat /\ Cardinality(Askers') \in Nat
          /\ Cardinality(Askers') <= Cardinality(Askers) + 1
      BY <1>0, <2>3, AskersMove, BaseSays
    <3> QED
      BY <1>0, <2>3, <3>1, BaseSays, BoundsAssumption
  <2>5. strayed' \subseteq Sids
    BY <1>0, <1>2, <2>2, BaseSays DEF StealUses, Token
  <2> QED
    BY <1>0, <2>1, <2>2, <2>3, <2>4, <2>5, BaseSays, BaseWithRows
<1>3. CASE StealReceives(h)
  <2>1. UNCHANGED <<now, sids, jtis, replacedAt, rows, jar, strayed, alarms>>
    BY <1>3 DEF StealReceives, database
  <2>2. stolen' \in [Thieves -> Tokens] /\ \A k \in Thieves : Made(stolen'[k])
    BY <1>0, <1>3, BaseSays DEF StealReceives
  <2> QED
    BY <1>0, <1>3, <2>1, <2>2, FreeDoes, BaseSays, BaseOfQuiet DEF StealReceives
<1> QED
  BY <1>1, <1>2, <1>3

LEMMA BaseTime ==
    ASSUME Base, Tick \/ \E s \in Sids : PurgeExpired(s)
    PROVE  Base'
<1>1. ASSUME NEW s \in Sids, PurgeExpired(s) PROVE Base'
  <2>1. /\ rows' = [rows EXCEPT ![s] = NoRow]
        /\ UNCHANGED <<now, sids, jtis, replacedAt, alarms, jar, stolen, req, strayed>>
    BY <1>1 DEF PurgeExpired
  <2>2. \A q \in Sids : rows'[q] = rows[q] \/ rows'[q] = NoRow
    BY <2>1 DEF Base, TypeOK
  <2>3. TypeOK'
    BY <2>1, IdleIsRequest DEF Base, TypeOK
  <2>4. Budget' /\ Timely'
    BY <2>1 DEF Base, Budget, Timely, Askers, Asking
  <2>5. Exist'
    BY <2>1, <2>2 DEF Base, Exist, Formed, Made, Asking, NoRow
  <2> QED
    BY <2>3, <2>4, <2>5 DEF Base
<1>2. CASE Tick
  <2>1. /\ now < MaxNow /\ now' = now + 1
        /\ \A c \in Clients : req[c].pc # "idle" => now < req[c].since + Latency
        /\ UNCHANGED <<rows, sids, jtis, replacedAt, alarms, jar, stolen, req, strayed>>
    BY <1>2 DEF Tick, database
  <2>2. now \in 0..MaxNow /\ now' \in 0..MaxNow
    BY <2>1, BoundsAssumption DEF Base, TypeOK
  <2>3. TypeOK'
    BY <2>1, <2>2 DEF Base, TypeOK
  <2>4. Budget'
    BY <2>1 DEF Base, Budget, Askers, Asking
  <2>5. Timely'
    <3> SUFFICES ASSUME NEW c \in Clients
                 PROVE  /\ req[c].since <= now + 1
                        /\ req[c].pc # "idle" => now + 1 <= req[c].since + Latency
      BY <2>1 DEF Timely
    <3>1. req[c].since \in Nat /\ req[c].since <= now
      BY BaseSays
    <3> QED
      BY <2>1, <2>2, <3>1, TimesAssumption
  <2>6. ASSUME NEW row \in Row, Formed(row) PROVE Formed(row)'
    <3>1. row.rotated \in Nat /\ row.expires \in Nat
      BY DEF Row
    <3> QED
      BY <2>1, <2>2, <2>6, <3>1, TimesAssumption DEF Formed
  <2>7. /\ \A s \in Sids : rows[s] \in Row
        /\ \A c \in Clients : req[c].row \in Row
    BY DEF Base, TypeOK, Request
  <2>8. Exist'
    BY <2>1, <2>6, <2>7 DEF Base, Exist, Made, Asking, Formed
  <2> QED
    BY <2>3, <2>4, <2>5, <2>8 DEF Base
<1> QED
  BY <1>1, <1>2

LEMMA InitBase == Init => Base
<1> SUFFICES ASSUME Init PROVE Base
  OBVIOUS
<1>1. \A c \in Clients : req[c] = Idle
  BY DEF Init
<1>2. Askers = {} /\ Cardinality({}) = 0
  BY <1>1, FS_EmptySet DEF Askers, Asking, Idle
<1>3. TypeOK
  BY BoundsAssumption, IdleIsRequest DEF Init, TypeOK, Never
<1>4. Budget
  BY <1>2, BoundsAssumption DEF Init, Budget
<1>5. Exist /\ Timely
  BY <1>1 DEF Init, Exist, Timely, Made, NoRow, Idle, Asking
<1> QED
  BY <1>3, <1>4, <1>5 DEF Base

LEMMA BaseStep == Base /\ [Next]_vars => Base'
<1>1. ASSUME Base, UNCHANGED vars PROVE Base'
  <2>1. UNCHANGED <<now, rows, sids, jtis, replacedAt, alarms, jar, stolen, req, strayed>>
    BY <1>1 DEF vars, database
  <2> QED
    BY <1>1, <2>1 DEF Base, TypeOK, Budget, Exist, Timely, Askers, Asking, Made, Formed
<1> QED
  BY <1>1, BaseServer, BaseBrowser, BaseThief, BaseTime DEF Next

--------------------------------------------------------------------------------
(***************************************************************************)
(* What may have happened to a row, a request or a cookie in a step.       *)
(***************************************************************************)

(* The four kinds of change to the rows. *)
RowsStay  == UNCHANGED <<rows, sids, jtis, replacedAt>>
RowEnds   == \E s \in Sids : rows' = [rows EXCEPT ![s] = NoRow] /\ UNCHANGED <<sids, jtis, replacedAt>>
RowBegins == \E t \in Tabs : Login(t)
RowTurns  == \E c \in Clients : \E at \in req[c].since..now : req[c].pc = "read" /\ Replace(c, at)

LEMMA RowsMove ==
    ASSUME Base, Next
    PROVE  RowsStay \/ RowEnds \/ RowBegins \/ RowTurns
<1>1. ASSUME NEW t \in Tabs, Logout(t) PROVE RowEnds
  <2>1. jar.token.sid \in Sids
    BY <1>1 DEF Logout, Base, TypeOK, Tokens, Token
  <2> QED
    BY <1>1, <2>1 DEF Logout, RowEnds
<1>2. ASSUME NEW t \in Tabs,
             \/ Refused(t) \/ Send(t) \/ Receive(t) \/ AnswerLost(t) \/ CreateAnonymously(t) \/ Created(t)
      PROVE  RowsStay
  BY <1>2 DEF Refused, Send, Receive, AnswerLost, CreateAnonymously, Created, database, RowsStay
<1>3. ASSUME NEW h \in Thieves, Steal(h) \/ StealUses(h) \/ StealReceives(h) PROVE RowsStay
  BY <1>3 DEF Steal, StealUses, StealReceives, database, RowsStay
<1>4. ASSUME NEW c \in Clients, Read(c) \/ QueryFails(c) PROVE RowsStay
  BY <1>4 DEF Read, QueryFails, database, RowsStay
<1>5. ASSUME NEW c \in Clients, req[c].pc = "read", NEW at \in req[c].since..now,
             Retry(c) \/ Grant(c, at) PROVE RowsStay
  BY <1>5 DEF Retry, Grant, database, RowsStay
<1>6. ASSUME NEW c \in Clients, req[c].pc = "read", NEW at \in req[c].since..now, Revoke(c, at)
      PROVE  RowEnds
  <2>1. req[c].token.sid \in Sids
    BY <1>6, AskerHasToken DEF Asking
  <2> QED
    BY <1>6, <2>1 DEF Revoke, RowEnds
<1>7. ASSUME NEW s \in Sids, PurgeExpired(s) PROVE RowEnds
  BY <1>7 DEF PurgeExpired, RowEnds
<1>8. Tick => RowsStay
  BY DEF Tick, database, RowsStay
<1> QED
  BY <1>1, <1>2, <1>3, <1>4, <1>5, <1>6, <1>7, <1>8
     DEF Next, Decide, Rotate, UpdateUnanswered, RowBegins, RowTurns

(* The kinds of change to the request of c. *)
Stops(c) == req'[c] = Idle
Waits(c) == /\ req'[c].pc \in {"refused", "anonymous"}
            /\ req'[c].token = req[c].token /\ req'[c].answer = req[c].answer
Asks(c)  == /\ req'[c].pc = "sent" /\ req'[c].answer = req[c].answer
            /\ req'[c].token \in {req[c].token, jar.token} \cup {stolen[h] : h \in Thieves}
Reads(c) == /\ req'[c].pc = "read" /\ RowsStay
            /\ req'[c].token = req[c].token /\ req'[c].answer = req[c].answer
            /\ req'[c].row = rows[req[c].token.sid] /\ req[c].token \in Token

Told(c, token) == /\ req'[c].pc = "answered" /\ req'[c].since = now
                  /\ req'[c].token = req[c].token /\ req'[c].answer = token

Refuses(c)  == Told(c, NoToken)
LogsIn(c)   == c \in Tabs /\ Login(c) /\ Told(c, [sid |-> sids + 1, jti |-> jtis + 1])
Rotates(c)  == \E at \in req[c].since..now :
                  /\ req[c].pc = "read" /\ Rotate(c, at)
                  /\ Told(c, [sid |-> req[c].token.sid, jti |-> jtis + 1])
Granted(c)  == [sid |-> req[c].token.sid, jti |-> req[c].row.jti]
Grants(c)   == \E at \in req[c].since..now :
                  req[c].pc = "read" /\ Grant(c, at) /\ Told(c, Granted(c))

Changes(c) == \/ Stops(c) \/ Waits(c) \/ Asks(c) \/ Reads(c)
              \/ Refuses(c) \/ LogsIn(c) \/ Rotates(c) \/ Grants(c)

(* One request changes at most, in one of these ways. *)
Moves(c) == Changes(c) /\ \A d \in Clients : d # c => req'[d] = req[d]

LEMMA ToldIsReply ==
    ASSUME Base, NEW c \in Clients, NEW token \in Tokens, Answer(c, token)
    PROVE  Told(c, token) /\ \A d \in Clients : d # c => req'[d] = req[d]
<1>1. /\ Only(c, Reply(c, token)) /\ Reply(c, token).pc = "answered"
      /\ Reply(c, token).token = req[c].token /\ Reply(c, token).answer = token
      /\ Reply(c, token).since = now
  BY AnswerIsReply DEF Base
<1> HIDE DEF Reply
<1> QED
  BY <1>1, OnlyOne, BaseSays DEF Told

(* The answer of a grant names the row that was read. *)
LEMMA GrantedIsToken ==
    ASSUME Base, NEW c \in Clients, req[c].pc = "read"
    PROVE  Granted(c) \in Token /\ Granted(c).sid = req[c].token.sid /\ Granted(c).jti = req[c].row.jti
<1>1. req[c].token.sid \in Sids /\ req[c].row.jti \in 1..jtis
  BY AskerHasToken DEF Asking, Base, Exist, Formed
<1>2. req[c].row.jti \in 1..MaxJti
  BY <1>1, BaseSays, BoundsAssumption
<1> QED
  BY <1>1, <1>2 DEF Granted, Token

LEMMA ServerMoves ==
    ASSUME Base,
           \/ \E t \in Tabs : Login(t) \/ Logout(t)
           \/ \E c \in Clients : Read(c) \/ Decide(c) \/ QueryFails(c) \/ UpdateUnanswered(c)
    PROVE  \E c \in Clients : Moves(c)
<1>0. Tabs \subseteq Clients /\ NoToken \in Tokens /\ Token \subseteq Tokens
  BY IdleIsRequest DEF Clients, Tokens
<1>1. ASSUME NEW t \in Tabs, Login(t) PROVE Moves(t)
  <2> DEFINE token == [sid |-> sids + 1, jti |-> jtis + 1]
  <2>1. token \in Tokens /\ Answer(t, token)
    BY <1>0, <1>1, LoginDoes DEF Login
  <2>2. Told(t, token) /\ \A d \in Clients : d # t => req'[d] = req[d]
    BY <1>0, <2>1, ToldIsReply
  <2> QED
    BY <1>1, <2>2 DEF Moves, Changes, LogsIn
<1>2. ASSUME NEW c \in Clients, Answer(c, NoToken) PROVE Moves(c)
  BY <1>0, <1>2, ToldIsReply DEF Moves, Changes, Refuses
<1>3. ASSUME NEW c \in Clients, Read(c) PROVE Moves(c)
  <2> DEFINE row == SessionOf(req[c].token)
             x == [req[c] EXCEPT !.pc = "read", !.row = row]
  <2>1. req[c].token \in Token /\ req[c].token # NoToken /\ row = rows[req[c].token.sid]
    BY <1>3, AskerHasToken DEF Read, Asking, SessionOf, Token, NoToken, Sids
  <2>2. CASE req' = [req EXCEPT ![c].pc = "read", ![c].row = row]
    <3>1. /\ req'[c].pc = "read" /\ req'[c].row = row /\ req'[c].token = req[c].token
          /\ req'[c].answer = req[c].answer /\ \A d \in Clients : d # c => req'[d] = req[d]
      BY <2>2, BaseSays DEF Request
    <3>2. RowsStay
      BY <1>3 DEF Read, database, RowsStay
    <3> QED
      BY <2>1, <3>1, <3>2 DEF Moves, Changes, Reads
  <2> QED
    BY <1>2, <1>3, <2>2 DEF Read
<1>4. ASSUME NEW c \in Clients, req[c].pc = "read", NEW at \in req[c].since..now, Rotate(c, at)
      PROVE  Moves(c)
  <2> DEFINE token == [sid |-> req[c].token.sid, jti |-> jtis + 1]
  <2>1. token \in Tokens /\ Answer(c, token)
    BY <1>0, <1>4, RotateDoes DEF Rotate
  <2>2. Told(c, token) /\ \A d \in Clients : d # c => req'[d] = req[d]
    BY <2>1, ToldIsReply
  <2> QED
    BY <1>4, <2>2 DEF Moves, Changes, Rotates
<1>5. ASSUME NEW c \in Clients, req[c].pc = "read", Retry(c) PROVE Moves(c)
  <2>1. /\ req'[c].pc = "sent" /\ req'[c].token = req[c].token /\ req'[c].answer = req[c].answer
        /\ \A d \in Clients : d # c => req'[d] = req[d]
    BY <1>5, BaseSays DEF Retry, Request
  <2> QED
    BY <2>1 DEF Moves, Changes, Asks
<1>6. ASSUME NEW c \in Clients, req[c].pc = "read", NEW at \in req[c].since..now, Grant(c, at)
      PROVE  Moves(c)
  <2>1. Granted(c) \in Tokens /\ Answer(c, Granted(c))
    BY <1>0, <1>6, GrantedIsToken DEF Grant, Granted
  <2>2. Told(c, Granted(c)) /\ \A d \in Clients : d # c => req'[d] = req[d]
    BY <2>1, ToldIsReply
  <2> QED
    BY <1>6, <2>2 DEF Moves, Changes, Grants
<1> QED
  BY <1>0, <1>1, <1>2, <1>3, <1>4, <1>5, <1>6 DEF Logout, Decide, QueryFails, UpdateUnanswered, Revoke

LEMMA ClientMoves ==
    ASSUME Base,
           \/ \E t \in Tabs : \/ Refused(t) \/ Send(t) \/ Receive(t) \/ AnswerLost(t)
                              \/ CreateAnonymously(t) \/ Created(t)
           \/ \E h \in Thieves : Steal(h) \/ StealUses(h) \/ StealReceives(h)
    PROVE  req' = req \/ \E c \in Clients : Moves(c)
<1>0. Tabs \subseteq Clients /\ Thieves \subseteq Clients /\ NoToken \in Tokens
  BY IdleIsRequest DEF Clients
<1>1. ASSUME NEW c \in Clients, req' = [req EXCEPT ![c] = Idle] PROVE Moves(c)
  BY <1>1, BaseSays DEF Moves, Changes, Stops
<1>2. ASSUME NEW c \in Clients, NEW token,
             token \in {req[c].token, jar.token} \cup {stolen[h] : h \in Thieves},
             req' = [req EXCEPT ![c].pc = "sent", ![c].since = now, ![c].token = token]
      PROVE  Moves(c)
  <2>1. /\ req'[c].pc = "sent" /\ req'[c].token = token /\ req'[c].answer = req[c].answer
        /\ \A d \in Clients : d # c => req'[d] = req[d]
    BY <1>2, BaseSays DEF Request
  <2> QED
    BY <1>2, <2>1 DEF Moves, Changes, Asks
<1>3. ASSUME NEW t \in Tabs, Refused(t) PROVE Moves(t)
  <2>1. /\ req'[t].pc = "refused" /\ req'[t].token = req[t].token /\ req'[t].answer = req[t].answer
        /\ \A d \in Clients : d # t => req'[d] = req[d]
    BY <1>0, <1>3, BaseSays DEF Refused, Request
  <2> QED
    BY <2>1 DEF Moves, Changes, Waits
<1>4. ASSUME NEW t \in Tabs, CreateAnonymously(t) PROVE Moves(t)
  <2>1. /\ req'[t].pc = "anonymous" /\ req'[t].token = req[t].token /\ req'[t].answer = req[t].answer
        /\ \A d \in Clients : d # t => req'[d] = req[d]
    BY <1>0, <1>4, BaseSays DEF CreateAnonymously, Request
  <2> QED
    BY <2>1 DEF Moves, Changes, Waits
<1>5. ASSUME NEW t \in Tabs, Send(t) PROVE Moves(t)
  <2>1. CASE Answer(t, NoToken)
    BY <1>0, <2>1, ToldIsReply DEF Moves, Changes, Refuses
  <2> QED
    BY <1>0, <1>2, <1>5, <2>1 DEF Send
<1>6. ASSUME NEW h \in Thieves, StealUses(h) PROVE Moves(h)
  <2>1. /\ req' = [req EXCEPT ![h].pc = "sent", ![h].since = now, ![h].token = stolen[h]]
        /\ stolen[h] \in {req[h].token, jar.token} \cup {stolen[k] : k \in Thieves}
    BY <1>6 DEF StealUses
  <2> QED
    BY <1>0, <1>2, <2>1
<1> QED
  BY <1>0, <1>1, <1>3, <1>4, <1>5, <1>6 DEF Receive, AnswerLost, Created, Steal, StealReceives

LEMMA RequestsMove ==
    ASSUME Base, Next
    PROVE  \A c \in Clients : req'[c] = req[c] \/ Changes(c)
<1>1. CASE Tick \/ \E s \in Sids : PurgeExpired(s)
  BY <1>1 DEF Tick, PurgeExpired
<1> QED
  BY <1>1, ServerMoves, ClientMoves DEF Next, Moves

(* What the state of a request says of its last change. *)
LEMMA StateOfMove ==
    ASSUME Base, Next, NEW c \in Clients, req'[c] # req[c]
    PROVE  /\ req'[c].pc = "idle" => req'[c] = Idle
           /\ req'[c].pc = "read" => Reads(c)
           /\ req'[c].pc = "answered" => Refuses(c) \/ LogsIn(c) \/ Rotates(c) \/ Grants(c)
           /\ \/ req'[c].token \in {req[c].token, jar.token, NoToken}
              \/ \E h \in Thieves : req'[c].token = stolen[h]
           /\ \/ req'[c].answer \in {req[c].answer, NoToken}
              \/ LogsIn(c) \/ Rotates(c) \/ Grants(c)
<1>1. Changes(c)
  BY RequestsMove
<1>2. CASE Stops(c)
  BY <1>2 DEF Stops, Idle
<1>3. CASE Waits(c)
  BY <1>3 DEF Waits
<1>4. CASE Asks(c)
  BY <1>4 DEF Asks
<1>5. CASE Reads(c)
  BY <1>5 DEF Reads
<1>6. CASE Refuses(c)
  BY <1>6 DEF Refuses, Told
<1>7. CASE LogsIn(c)
  BY <1>7 DEF LogsIn, Told
<1>8. CASE Rotates(c)
  BY <1>8 DEF Rotates, Told
<1>9. CASE Grants(c)
  BY <1>9 DEF Grants, Told
<1> QED
  BY <1>1, <1>2, <1>3, <1>4, <1>5, <1>6, <1>7, <1>8, <1>9 DEF Changes

(* Cookies come from answers, and a thief's also from the browser. *)
LEMMA CookiesMove ==
    ASSUME Base, Next
    PROVE  /\ jar'.token \in {jar.token, NoToken} \cup {req[t].answer : t \in Tabs}
           /\ \A h \in Thieves : stolen'[h] \in {stolen[h], jar.token, req[h].answer}
<1>1. ASSUME NEW t \in Tabs, Receive(t) PROVE jar'.token = req[t].answer /\ stolen' = stolen
  BY <1>1 DEF Receive
<1>2. ASSUME NEW h \in Thieves, Steal(h) \/ StealReceives(h)
      PROVE  jar' = jar /\ \A k \in Thieves : stolen'[k] \in {stolen[k], jar.token, req[k].answer}
  BY <1>2 DEF Steal, StealReceives, Base, TypeOK
<1>3. CASE jar' = jar /\ stolen' = stolen
  BY <1>3
<1> QED
  BY <1>1, <1>2, <1>3 DEF Next, Login, Logout, Refused, Send, AnswerLost, CreateAnonymously, Created,
                          StealUses, Read, Decide, QueryFails, UpdateUnanswered, PurgeExpired, Tick

--------------------------------------------------------------------------------
(***************************************************************************)
(* CurrentThenGrace.                                                       *)
(***************************************************************************)

(* A token that was made stays the current one of its session, or replaced. *)
LEMMA NamedStays ==
    ASSUME Base, Next, NEW s \in Sids, NEW k \in 1..MaxJti, s <= sids, Named(s, k)
    PROVE  Named(s, k)'
<1>1. rows \in [Sids -> Row] /\ sids \in Nat /\ now \in Nat /\ now # Never
      /\ replacedAt \in [1..MaxJti -> 0..Never]
  BY BoundsAssumption DEF Base, TypeOK, Never
<1>2. CASE RowsStay
  BY <1>2 DEF Named, Replaced, RowsStay
<1>3. CASE RowEnds
  <2>1. (rows'[s] = rows[s] \/ ~rows'[s].exists) /\ replacedAt' = replacedAt
    BY <1>1, <1>3 DEF RowEnds, NoRow
  <2> QED
    BY <2>1 DEF Named, Replaced
<1>4. CASE RowBegins
  <2>1. rows' = [rows EXCEPT ![sids + 1] = Begun(sids + 1)] /\ replacedAt' = replacedAt
    BY <1>4, LoginDoes DEF RowBegins
  <2>2. s # sids + 1
    BY <1>1 DEF Sids
  <2>3. rows'[s] = rows[s]
    BY <1>1, <2>1, <2>2
  <2> QED
    BY <2>1, <2>3 DEF Named, Replaced
<1>5. ASSUME NEW c \in Clients, NEW at \in req[c].since..now, req[c].pc = "read", Replace(c, at)
      PROVE  Named(s, k)'
  <2> DEFINE q == req[c].token.sid
  <2>1. /\ rows[q].exists /\ rows[q].jti = req[c].token.jti
        /\ rows' = [rows EXCEPT ![q] = Turned(q, at)]
        /\ replacedAt' = [replacedAt EXCEPT ![req[c].token.jti] = now]
    BY <1>5, ReplaceDoes
  <2>2. q \in Sids /\ req[c].token.jti \in 1..MaxJti
    BY <1>5, AskerHasToken DEF Asking
  <2>3. Replaced(k) => Replaced(k)'
    BY <1>1, <2>1 DEF Replaced
  <2>4. CASE s # q
    BY <1>1, <2>1, <2>3, <2>4 DEF Named
  <2>5. CASE s = q
    <3>1. rows[s].jti = k \/ Replaced(k)
      BY <2>1, <2>5 DEF Named
    <3>2. rows[s].jti = k => Replaced(k)'
      BY <1>1, <2>1, <2>2, <2>5 DEF Replaced
    <3> QED
      BY <2>3, <3>1, <3>2 DEF Named
  <2> QED
    BY <2>4, <2>5
<1> QED
  BY <1>2, <1>3, <1>4, <1>5, RowsMove DEF RowTurns

(* The same of what a cookie or a request holds. *)
LEMMA TokenStays ==
    ASSUME Base, Next, NEW token \in Tokens, Made(token), token # NoToken => Named(token.sid, token.jti)
    PROVE  token # NoToken => Named(token.sid, token.jti)'
BY NamedStays DEF Made, Tokens, Token

(* What a request is told is the current token, or was when the row was read. *)
LEMMA NewIsNamed ==
    ASSUME Base, AllNamed, Next, NEW c \in Clients, LogsIn(c) \/ Rotates(c) \/ Grants(c),
           NEW token, token = req'[c].answer
    PROVE  Named(token.sid, token.jti)'
<1>1. CASE LogsIn(c)
  <2>1. token = [sid |-> sids + 1, jti |-> jtis + 1] /\ sids + 1 \in Sids
        /\ rows' = [rows EXCEPT ![sids + 1] = Begun(sids + 1)]
    BY <1>1, LoginDoes DEF LogsIn, Told
  <2>2. token.sid = sids + 1 /\ token.jti = jtis + 1 /\ rows'[token.sid].jti = jtis + 1
    BY <2>1 DEF Base, TypeOK, Begun
  <2> QED
    BY <2>2 DEF Named
<1>2. CASE Rotates(c)
  <2>1. PICK at \in req[c].since..now :
           /\ req[c].pc = "read" /\ Rotate(c, at)
           /\ Told(c, [sid |-> req[c].token.sid, jti |-> jtis + 1])
    BY <1>2 DEF Rotates
  <2>2. token.sid = req[c].token.sid /\ token.jti = jtis + 1 /\ token.sid \in Sids
    BY <2>1, AskerHasToken DEF Told, Asking
  <2>3. rows' = [rows EXCEPT ![token.sid] = Turned(token.sid, at)] /\ rows[token.sid] \in Row
    BY <2>1, <2>2, RotateDoes DEF Base, TypeOK
  <2>4. rows'[token.sid].jti = jtis + 1
    BY <2>2, <2>3 DEF Base, TypeOK, Turned, Row
  <2> QED
    BY <2>2, <2>4 DEF Named
<1>3. CASE Grants(c)
  <2>1. req[c].pc = "read" /\ token = Granted(c)
    BY <1>3 DEF Grants, Told
  <2>2. token \in Token /\ token.sid = req[c].token.sid /\ token.jti = req[c].row.jti
    BY <2>1, GrantedIsToken
  <2>3. Named(token.sid, token.jti) /\ token.sid <= sids
    BY <2>1, <2>2, AskerHasToken DEF AllNamed, Asking
  <2> QED
    BY <2>2, <2>3, NamedStays DEF Token
<1> QED
  BY <1>1, <1>2, <1>3

LEMMA NamedStep ==
    ASSUME Base, AllNamed, Next
    PROVE  AllNamed'
<1>1. /\ jar.token \in Tokens /\ Made(jar.token)
      /\ jar.token # NoToken => Named(jar.token.sid, jar.token.jti)
  BY DEF Base, TypeOK, Exist, AllNamed
<1>2. \A h \in Thieves : /\ stolen[h] \in Tokens /\ Made(stolen[h])
                         /\ stolen[h] # NoToken => Named(stolen[h].sid, stolen[h].jti)
  BY DEF Base, TypeOK, Exist, AllNamed
<1>3. \A c \in Clients :
         /\ req[c].token \in Tokens /\ Made(req[c].token)
         /\ req[c].token # NoToken => Named(req[c].token.sid, req[c].token.jti)
         /\ req[c].answer \in Tokens /\ Made(req[c].answer)
         /\ req[c].answer # NoToken => Named(req[c].answer.sid, req[c].answer.jti)
  BY BaseSays DEF AllNamed
<1>4. ASSUME NEW token, \/ token \in {jar.token, NoToken} \cup {stolen[h] : h \in Thieves}
                        \/ \E c \in Clients : token \in {req[c].token, req[c].answer}
      PROVE  token # NoToken => Named(token.sid, token.jti)'
  <2>1. CASE token = NoToken
    BY <2>1
  <2>2. CASE token # NoToken
    <3>1. token \in Tokens /\ Made(token) /\ (token # NoToken => Named(token.sid, token.jti))
      BY <1>1, <1>2, <1>3, <1>4, <2>2
    <3> QED
      BY <3>1, TokenStays
  <2> QED
    BY <2>1, <2>2
<1>5. Tabs \subseteq Clients /\ Thieves \subseteq Clients
  BY DEF Clients
<1>6. (jar.token # NoToken => Named(jar.token.sid, jar.token.jti))'
  <2>1. PICK token : token = jar'.token
    OBVIOUS
  <2>2. token # NoToken => Named(token.sid, token.jti)'
    BY <1>4, <1>5, <2>1, CookiesMove
  <2> QED
    BY <2>1, <2>2 DEF Named, Replaced
<1>7. ASSUME NEW h \in Thieves
      PROVE  (stolen[h] # NoToken => Named(stolen[h].sid, stolen[h].jti))'
  <2>1. PICK token : token = stolen'[h]
    OBVIOUS
  <2>2. token # NoToken => Named(token.sid, token.jti)'
    BY <1>4, <1>5, <2>1, CookiesMove
  <2> QED
    BY <2>1, <2>2 DEF Named, Replaced
<1>8. ASSUME NEW c \in Clients
      PROVE  (req[c].token # NoToken => Named(req[c].token.sid, req[c].token.jti))'
  <2>1. PICK token : token = req'[c].token
    OBVIOUS
  <2>2. \/ token \in {jar.token, NoToken} \cup {stolen[h] : h \in Thieves}
        \/ token = req[c].token
    BY <2>1, StateOfMove
  <2>3. token # NoToken => Named(token.sid, token.jti)'
    BY <1>4, <2>2
  <2> QED
    BY <2>1, <2>3 DEF Named, Replaced
<1>9. ASSUME NEW c \in Clients
      PROVE  (req[c].answer # NoToken => Named(req[c].answer.sid, req[c].answer.jti))'
  <2>1. PICK token : token = req'[c].answer
    OBVIOUS
  <2>2. \/ token = NoToken \/ token = req[c].answer
        \/ LogsIn(c) \/ Rotates(c) \/ Grants(c)
    BY <2>1, StateOfMove
  <2>3. token # NoToken => Named(token.sid, token.jti)'
    BY <1>4, <2>1, <2>2, NewIsNamed
  <2> QED
    BY <2>1, <2>3 DEF Named, Replaced
<1>10. ASSUME NEW c \in Clients
       PROVE  (req[c].pc = "read" => Named(req[c].token.sid, req[c].row.jti))'
  <2>1. CASE req'[c] = req[c] /\ req[c].pc = "read"
    <3>1. PICK s \in Sids, k \in 1..MaxJti : s = req[c].token.sid /\ k = req[c].row.jti /\ s <= sids
      BY <2>1, AskerHasToken, GrantedIsToken DEF Token, Asking
    <3>2. Named(s, k)'
      BY <2>1, <3>1, NamedStays DEF AllNamed
    <3> QED
      BY <2>1, <3>1, <3>2 DEF Named, Replaced
  <2>2. CASE Reads(c)
    BY <2>2 DEF Reads, RowsStay, Named
  <2>3. req'[c].pc # "read" \/ req'[c] = req[c] \/ Reads(c)
    BY StateOfMove
  <2> QED
    BY <2>1, <2>2, <2>3
<1> QED
  BY <1>6, <1>7, <1>8, <1>9, <1>10 DEF AllNamed

(* When a token was replaced changes only to this moment. *)
LEMMA ReplacedMoves ==
    ASSUME Base, Next, NEW k \in 1..MaxJti
    PROVE  /\ replacedAt[k] \in Nat /\ replacedAt'[k] \in Nat
           /\ replacedAt'[k] = replacedAt[k] \/ replacedAt'[k] = now
<1>1. replacedAt \in [1..MaxJti -> 0..Never] /\ now \in Nat
  BY DEF Base, TypeOK
<1>2. CASE replacedAt' = replacedAt
  BY <1>1, <1>2 DEF Never
<1>3. ASSUME NEW c \in Clients, NEW at \in req[c].since..now, req[c].pc = "read", Replace(c, at)
      PROVE  replacedAt'[k] = replacedAt[k] \/ replacedAt'[k] = now
  <2>1. replacedAt' = [replacedAt EXCEPT ![req[c].token.jti] = now]
    BY <1>3 DEF Replace
  <2> QED
    BY <1>1, <2>1
<1>4. RowsStay \/ RowEnds \/ RowBegins => replacedAt' = replacedAt
  BY DEF RowsStay, RowEnds, RowBegins, Login
<1>5. replacedAt[k] \in Nat
  BY <1>1
<1> QED
  BY <1>1, <1>2, <1>3, <1>4, <1>5, RowsMove DEF RowTurns

LEMMA RotatedStays ==
    ASSUME Base, Next, NEW row \in Row, Formed(row), Rotated(row)
    PROVE  Rotated(row)'
<1> SUFFICES ASSUME row.exists, row.prev # 0
             PROVE  row.rotated <= replacedAt'[row.prev]
  BY DEF Rotated
<1>1. row.prev \in 1..MaxJti /\ row.rotated <= now
  BY BoundsAssumption DEF Formed, Row, Base, TypeOK
<1>2. row.rotated <= replacedAt[row.prev]
  BY DEF Rotated
<1> QED
  BY <1>1, <1>2, ReplacedMoves

(* How long ago the token of an answered refresh may have been replaced. *)
GraceEnds(k) == replacedAt[k] + Grace + Latency

LEMMA NewIsInGrace ==
    ASSUME Base, Cleared, AllRotated, Next, NEW c \in Clients,
           LogsIn(c) \/ Rotates(c) \/ Grants(c), req'[c].token # NoToken
    PROVE  now <= GraceEnds(req[c].token.jti)'
<1>1. now \in Nat /\ replacedAt \in [1..MaxJti -> 0..Never]
  BY DEF Base, TypeOK
<1>2. CASE LogsIn(c)
  BY <1>2 DEF LogsIn, Login, Cleared, Told
<1>3. CASE Rotates(c)
  <2>1. PICK at \in req[c].since..now : req[c].pc = "read" /\ Rotate(c, at) /\ req'[c].token = req[c].token
    BY <1>3 DEF Rotates, Told
  <2>2. req[c].token.jti \in 1..MaxJti
    BY <2>1, AskerHasToken DEF Asking
  <2>3. replacedAt'[req'[c].token.jti] = now
    BY <1>1, <2>1, <2>2, RotateDoes
  <2> QED
    BY <1>1, <2>3, TimesAssumption DEF GraceEnds
<1>4. CASE Grants(c)
  <2>1. PICK at \in req[c].since..now : req[c].pc = "read" /\ Grant(c, at) /\ req'[c].token = req[c].token
    BY <1>4 DEF Grants, Told
  <2> DEFINE row == req[c].row
             k == req[c].token.jti
  <2>2. k \in 1..MaxJti /\ k = row.prev /\ at < row.rotated + Grace
    BY <2>1, AskerHasToken DEF Grant, WithinGrace, Asking
  <2>3. row.exists /\ row.rotated <= replacedAt[k] /\ row.rotated \in Nat
    BY <2>1, <2>2, BaseSays DEF Base, Exist, AllRotated, Rotated, Row
  <2>4. replacedAt' = replacedAt
    BY <2>1 DEF Grant, database
  <2>5. req[c].since \in Nat /\ now <= req[c].since + Latency
    BY <2>1, BaseSays
  <2>6. replacedAt[k] \in Nat
    BY <1>1, <2>2
  <2> HIDE DEF row, k
  <2>7. now <= replacedAt[k] + Grace + Latency
    BY <1>1, <2>2, <2>3, <2>5, <2>6, TimesAssumption
  <2> QED
    BY <2>1, <2>4, <2>7 DEF GraceEnds, k
<1> QED
  BY <1>2, <1>3, <1>4

LEMMA RotatedStep ==
    ASSUME Base, Cleared, AllRotated, Next
    PROVE  Cleared' /\ AllRotated'
<1>0. now \in Nat /\ rows \in [Sids -> Row]
  BY DEF Base, TypeOK
<1>1. Cleared'
  BY StateOfMove DEF Cleared, Idle
<1>2. ASSUME NEW s \in Sids PROVE Rotated(rows[s])'
  <2>1. CASE rows'[s] = rows[s]
    <3>1. PICK row \in Row : row = rows[s]
      BY <1>0
    <3>2. row.exists => Formed(row)
      BY <3>1 DEF Base, Exist
    <3>3. Rotated(row)'
      BY <3>1, <3>2, RotatedStays DEF AllRotated, Rotated
    <3> QED
      BY <2>1, <3>1, <3>3 DEF Rotated
  <2>2. CASE ~rows'[s].exists \/ rows'[s].prev = 0
    BY <2>2 DEF Rotated
  <2>3. ASSUME NEW c \in Clients, NEW at \in req[c].since..now, req[c].pc = "read", Replace(c, at),
               s = req[c].token.sid
        PROVE  Rotated(rows[s])'
    <3>0. at \in 0..now
      BY <2>3, ReplaceDoes
    <3>1. /\ rows' = [rows EXCEPT ![s] = Turned(s, at)] /\ rows[s].jti = req[c].token.jti
          /\ replacedAt' = [replacedAt EXCEPT ![req[c].token.jti] = now] /\ at <= now
      <4>1. /\ rows' = [rows EXCEPT ![s] = Turned(s, at)] /\ rows[s].jti = req[c].token.jti
            /\ replacedAt' = [replacedAt EXCEPT ![req[c].token.jti] = now]
        BY <2>3, ReplaceDoes
      <4>2. at <= now
        BY <1>0, <3>0
      <4> QED
        BY <4>1, <4>2
    <3>2. req[c].token.jti \in 1..MaxJti
      BY <2>3, AskerHasToken DEF Asking
    <3>3. rows'[s].rotated = at /\ rows'[s].prev = req[c].token.jti
      BY <1>0, <3>1 DEF Turned, Row
    <3>4. replacedAt'[req[c].token.jti] = now
      BY <3>1, <3>2 DEF Base, TypeOK
    <3> QED
      BY <3>1, <3>3, <3>4 DEF Rotated
  <2>4. CASE RowsStay \/ RowEnds
    BY <1>0, <2>1, <2>2, <2>4 DEF RowsStay, RowEnds, NoRow
  <2>5. CASE RowBegins
    <3>1. rows' = [rows EXCEPT ![sids + 1] = Begun(sids + 1)]
      BY <2>5, LoginDoes DEF RowBegins
    <3> QED
      BY <1>0, <2>1, <2>2, <3>1 DEF Begun
  <2>6. ASSUME NEW c \in Clients, NEW at \in req[c].since..now, req[c].pc = "read", Replace(c, at)
        PROVE  Rotated(rows[s])'
    BY <1>0, <2>1, <2>3, <2>6, ReplaceDoes
  <2> QED
    BY <2>4, <2>5, <2>6, RowsMove DEF RowTurns
<1>3. ASSUME NEW c \in Clients PROVE (req[c].pc = "read" => Rotated(req[c].row))'
  <2>1. CASE req'[c] = req[c] /\ req[c].pc = "read"
    <3>1. PICK row \in Row : row = req[c].row
      BY BaseSays
    <3>2. Rotated(row)'
      BY <2>1, <3>1, RotatedStays DEF AllRotated, Base, Exist
    <3> QED
      BY <2>1, <3>1, <3>2 DEF Rotated
  <2>2. CASE Reads(c)
    <3>1. PICK s \in Sids : s = req[c].token.sid
      BY <2>2 DEF Reads, Token
    <3>2. Rotated(rows[s])' /\ rows' = rows /\ req'[c].row = rows[s]
      BY <1>2, <2>2, <3>1 DEF Reads, RowsStay
    <3> QED
      BY <3>2 DEF Rotated
  <2>3. req'[c].pc # "read" \/ req'[c] = req[c] \/ Reads(c)
    BY StateOfMove
  <2> QED
    BY <2>1, <2>2, <2>3
<1>4. ASSUME NEW c \in Clients, req'[c].pc = "answered", req'[c].token # NoToken, req'[c].answer # NoToken
      PROVE  req'[c].since <= GraceEnds(req[c].token.jti)'
  <2>1. CASE req'[c] = req[c]
    <3>1. PICK k : k = req[c].token.jti
      OBVIOUS
    <3>2. k \in 1..MaxJti /\ req[c].since \in Nat /\ req[c].since <= now
      BY <1>4, <2>1, <3>1, BaseSays DEF Tokens, Token
    <3>3. req[c].since <= replacedAt[k] + Grace + Latency
      BY <1>4, <2>1, <3>1 DEF AllRotated
    <3>4. req[c].since <= replacedAt'[k] + Grace + Latency
      BY <1>0, <3>2, <3>3, ReplacedMoves, TimesAssumption
    <3> QED
      BY <2>1, <3>1, <3>4 DEF GraceEnds
  <2>2. CASE LogsIn(c) \/ Rotates(c) \/ Grants(c)
    BY <1>4, <2>2, NewIsInGrace DEF LogsIn, Rotates, Grants, Told
  <2> QED
    BY <1>4, <2>1, <2>2, StateOfMove DEF Refuses, Told
<1> QED
  BY <1>1, <1>2, <1>3, <1>4 DEF AllRotated, GraceEnds

LEMMA InitGrace == Init => AllNamed /\ Cleared /\ AllRotated
<1> SUFFICES ASSUME Init PROVE AllNamed /\ Cleared /\ AllRotated
  OBVIOUS
<1>1. \A c \in Clients : req[c] = Idle
  BY DEF Init
<1> QED
  BY <1>1 DEF Init, AllNamed, Cleared, AllRotated, Rotated, NoRow, Idle, NoToken

LEMMA IInvStep == IInv /\ [Next]_vars => IInv'
<1>1. ASSUME IInv, Next PROVE IInv'
  BY <1>1, BaseStep, NamedStep, RotatedStep DEF IInv
<1>2. ASSUME IInv, UNCHANGED vars PROVE IInv'
  <2>1. UNCHANGED <<now, rows, sids, jtis, replacedAt, jar, stolen, req>>
    BY <1>2 DEF vars, database
  <2>2. AllNamed' /\ Cleared' /\ AllRotated'
    BY <1>2, <2>1 DEF IInv, AllNamed, Named, Replaced, Cleared, AllRotated, Rotated
  <2> QED
    BY <1>2, <2>2, BaseStep DEF IInv
<1> QED
  BY <1>1, <1>2

LEMMA IInvSays == IInv => TypeOK /\ CurrentThenGrace
<1> SUFFICES ASSUME IInv PROVE TypeOK /\ CurrentThenGrace
  OBVIOUS
<1>1. ASSUME NEW token \in Out PROVE Named(token.sid, token.jti)
  BY <1>1 DEF IInv, Out, AllNamed
<1> QED
  BY <1>1 DEF IInv, Base, CurrentThenGrace, Named, AllRotated

(* Rows, requests, cookies and clock have their types: every moment that is *)
(* put into them is one of the clock, every token one that was made.        *)
THEOREM TypeCorrect == Spec => []TypeOK
BY InitBase, InitGrace, IInvStep, IInvSays, PTL DEF Spec, IInv

(* A refresh token that was handed out is the current one of its session    *)
(* until a refresh presents it, and then buys new ones for the grace period *)
(* and the time a request takes: whoever holds a copy, however many refresh *)
(* at once, and between whichever statements the others run.                *)
THEOREM TokensRotate == Spec => []CurrentThenGrace
BY InitBase, InitGrace, IInvStep, IInvSays, PTL DEF Spec, IInv

--------------------------------------------------------------------------------
(***************************************************************************)
(* OnlyStrayedRevoked, for two tabs and prompt deliveries.                 *)
(***************************************************************************)

(* What TabsInv says of one session, and of one tab and it. *)
JarInUse(s) == jar.token.sid = s =>
    \/ /\ jar.token.jti = rows[s].jti
       /\ rows[s].expires + AccessTtl <= jar.jwtUntil + SessionTtl
       /\ rows[s].expires + AccessTtl <= jar.cookieUntil + SessionTtl
    \/ /\ jar.token.jti = rows[s].prev
       /\ \E t \in Tabs : Brings(t, s) /\ NoLaterThan(req[t].since, s, 1)

TabInUse(t, s) ==
    /\ Asking(t) /\ req[t].token.sid = s => AsksCurrent(t, s) \/ AsksPrevious(t, s)
    /\ AsksPrevious(t, s) => NoLaterThan(req[t].since, s, 2)
    /\ Brings(t, s) => /\ req[t].answer.jti = rows[s].jti
                       /\ NoLaterThan(req[t].since, s, 3)
                       /\ rows[s].expires <= req[t].since + SessionTtl

JarIsCurrent(s)  == jar.token.sid = s /\ jar.token.jti = rows[s].jti
JarIsPrevious(s) == jar.token.sid = s /\ jar.token.jti = rows[s].prev

Behaves(s) ==
    /\ JarInUse(s)
    /\ \A t \in Tabs : TabInUse(t, s)
    /\ \A t \in Tabs : AsksCurrent(t, s) => ~JarIsPrevious(s)
    /\ \A t, u \in Tabs : t # u /\ Behind(t, s) =>
          ~AsksCurrent(u, s) /\ (req[u].pc = "refused" => ~JarIsCurrent(s))

LEMMA BehavesIs == InUse /\ InTurn <=> \A s \in Sids : Own(s) => Behaves(s)
BY DEF InUse, InTurn, Behaves, JarInUse, TabInUse, JarIsCurrent, JarIsPrevious

(* The tokens of a session are told apart, and none is 0. *)
LEMMA OwnSays ==
    ASSUME Base, NEW s \in Sids, Own(s)
    PROVE  /\ s \in Nat /\ s # 0 /\ s <= sids /\ rows[s] \in Row /\ Formed(rows[s])
           /\ rows[s].exists /\ s \notin strayed
           /\ rows[s].jti \in 1..jtis /\ rows[s].prev < rows[s].jti
           /\ rows[s].expires \in Nat /\ rows[s].expires <= now + SessionTtl
           /\ now \in Nat /\ jtis \in Nat /\ sids \in Nat
BY DEF Own, Base, TypeOK, Exist, Formed, Row, Sids

(* A step of c after which c neither asks for a token nor brings one. *)
LEMMA QuietStep ==
    ASSUME TabsInv, NEW c \in Clients,
           \A d \in Clients : d # c => req'[d] = req[d],
           \A s \in Sids : rows'[s].exists /\ s \notin strayed' => rows'[s] = rows[s],
           jar' = jar, strayed \subseteq strayed',
           c \in Tabs =>
              /\ ~Asking(c)'
              /\ \A s \in Sids : Brings(c, s) => s \in strayed'
              /\ \A s \in Sids : ~Brings(c, s)'
              /\ req'[c].pc = "refused" =>
                    \A s \in Sids, t \in Tabs : Own(s) /\ t # c /\ Behind(t, s) => ~JarIsCurrent(s)
    PROVE  InUse' /\ InTurn' /\ ReadInTime'
<1>0. Tabs \subseteq Clients
  BY DEF Clients
<1>1. ASSUME NEW s \in Sids, Own(s)' PROVE Behaves(s)'
  <2>1. Own(s) /\ rows'[s] = rows[s] /\ Behaves(s)
    BY <1>1, BehavesIs DEF Own, TabsInv
  <2>2. ASSUME NEW t \in Tabs, t # c
        PROVE  /\ AsksCurrent(t, s)' <=> AsksCurrent(t, s)
               /\ AsksPrevious(t, s)' <=> AsksPrevious(t, s)
               /\ Brings(t, s)' <=> Brings(t, s)
               /\ TabInUse(t, s)'
    <3>1. req'[t] = req[t] /\ TabInUse(t, s)
      BY <1>0, <2>1, <2>2 DEF Behaves
    <3> QED
      BY <2>1, <3>1 DEF AsksCurrent, AsksPrevious, Brings, Asking, TabInUse, NoLaterThan
  <2>3. c \in Tabs => ~AsksCurrent(c, s)' /\ ~Behind(c, s)' /\ ~Brings(c, s)' /\ TabInUse(c, s)'
    BY DEF AsksCurrent, AsksPrevious, Behind, TabInUse
  <2>4. c \in Tabs => ~Brings(c, s)
    BY <1>1 DEF Own
  <2>5. (JarIsCurrent(s)' <=> JarIsCurrent(s)) /\ (JarIsPrevious(s)' <=> JarIsPrevious(s))
    BY <2>1 DEF JarIsCurrent, JarIsPrevious
  <2>6. JarInUse(s)'
    <3>1. ASSUME NEW t \in Tabs, Brings(t, s), NoLaterThan(req[t].since, s, 1)
          PROVE  Brings(t, s)' /\ NoLaterThan(req[t].since, s, 1)'
      <4>1. t # c /\ req'[t] = req[t]
        BY <1>0, <2>4, <3>1
      <4> QED
        BY <2>1, <3>1, <4>1 DEF Brings, NoLaterThan
    <3> QED
      BY <2>1, <3>1 DEF Behaves, JarInUse
  <2>7. \A t \in Tabs : TabInUse(t, s)'
    BY <2>2, <2>3
  <2>8. \A t \in Tabs : AsksCurrent(t, s)' => ~JarIsPrevious(s)'
    BY <2>1, <2>2, <2>3, <2>5 DEF Behaves
  <2>9. ASSUME NEW t \in Tabs, NEW u \in Tabs, t # u, Behind(t, s)'
        PROVE  ~AsksCurrent(u, s)' /\ (req'[u].pc = "refused" => ~JarIsCurrent(s)')
    <3>1. t # c /\ Behind(t, s)
      BY <2>2, <2>3, <2>9 DEF Behind
    <3>2. CASE u = c
      BY <2>1, <2>3, <2>5, <3>1, <3>2
    <3>3. CASE u # c
      <4>1. req'[u] = req[u]
        BY <1>0, <3>3
      <4> QED
        BY <2>1, <2>2, <2>5, <2>9, <3>1, <3>3, <4>1 DEF Behaves
    <3> QED
      BY <3>2, <3>3
  <2> QED
    BY <2>6, <2>7, <2>8, <2>9 DEF Behaves
<1>2. InUse' /\ InTurn'
  BY <1>1, BehavesIs DEF InUse, InTurn, Behaves, JarInUse, TabInUse, JarIsCurrent, JarIsPrevious
<1>3. ASSUME NEW t \in Tabs, req'[t].pc = "read", req'[t].token.sid \notin strayed'
      PROVE  t # c /\ req'[t] = req[t]
  BY <1>0, <1>3 DEF Asking
<1>4. \A t \in Tabs : req[t].pc = "read" => req[t].token.sid \in Sids
  BY <1>0, AskerHasToken DEF TabsInv, Asking
<1>5. ReadInTime'
  BY <1>3, <1>4 DEF ReadInTime, TabsInv
<1> QED
  BY <1>2, <1>5

LEMMA OthersStay ==
    ASSUME NEW s, NEW t, req'[t] = req[t], rows'[s] = rows[s]
    PROVE  /\ AsksCurrent(t, s)' <=> AsksCurrent(t, s)
           /\ AsksPrevious(t, s)' <=> AsksPrevious(t, s)
           /\ Brings(t, s)' <=> Brings(t, s)
           /\ Behind(t, s)' <=> Behind(t, s)
           /\ TabInUse(t, s)' <=> TabInUse(t, s)
BY DEF AsksCurrent, AsksPrevious, Brings, Asking, Behind, TabInUse, NoLaterThan

(* A step of a tab that touches neither the row nor the cookies. *)
LEMMA OneTabStep ==
    ASSUME NEW c \in Tabs, \A d \in Clients : d # c => req'[d] = req[d], jar' = jar,
           NEW s \in Sids, Behaves(s), rows'[s] = rows[s],
           ~Brings(c, s), req'[c].pc # "refused", TabInUse(c, s)',
           AsksCurrent(c, s)' => ~JarIsPrevious(s) /\ \A t \in Tabs : t # c => ~Behind(t, s),
           Behind(c, s)' => \A u \in Tabs : u # c =>
              ~AsksCurrent(u, s) /\ (req[u].pc = "refused" => ~JarIsCurrent(s))
    PROVE  Behaves(s)'
<1>1. Tabs \subseteq Clients
  BY DEF Clients
<1>2. (JarIsCurrent(s)' <=> JarIsCurrent(s)) /\ (JarIsPrevious(s)' <=> JarIsPrevious(s))
  BY DEF JarIsCurrent, JarIsPrevious
<1>3. JarInUse(s)'
  <2>1. ASSUME NEW t \in Tabs, Brings(t, s), NoLaterThan(req[t].since, s, 1)
        PROVE  Brings(t, s)' /\ NoLaterThan(req[t].since, s, 1)'
    <3>1. t # c /\ req'[t] = req[t]
      BY <1>1, <2>1
    <3> QED
      BY <2>1, <3>1 DEF Brings, NoLaterThan
  <2> QED
    BY <2>1 DEF Behaves, JarInUse
<1>4. \A t \in Tabs : TabInUse(t, s)'
  BY <1>1, OthersStay DEF Behaves
<1>5. ASSUME NEW t \in Tabs, AsksCurrent(t, s)' PROVE ~JarIsPrevious(s)'
  BY <1>1, <1>2, <1>5, OthersStay DEF Behaves
<1>6. ASSUME NEW t \in Tabs, NEW u \in Tabs, t # u, Behind(t, s)'
      PROVE  ~AsksCurrent(u, s)' /\ (req'[u].pc = "refused" => ~JarIsCurrent(s)')
  <2>1. CASE t = c
    <3>1. req'[u] = req[u] /\ ~AsksCurrent(u, s) /\ (req[u].pc = "refused" => ~JarIsCurrent(s))
      BY <1>1, <1>6, <2>1
    <3> QED
      BY <1>2, <3>1, OthersStay
  <2>2. CASE u = c
    <3>1. Behind(t, s)
      BY <1>1, <1>6, <2>2, OthersStay
    <3> QED
      BY <1>6, <2>2, <3>1
  <2>3. CASE t # c /\ u # c
    <3>1. req'[u] = req[u] /\ Behind(t, s)
      BY <1>1, <1>6, <2>3, OthersStay
    <3> QED
      BY <1>2, <1>6, <2>3, <3>1, OthersStay DEF Behaves
  <2> QED
    BY <2>1, <2>2, <2>3
<1> QED
  BY <1>3, <1>4, <1>5, <1>6 DEF Behaves

LEMMA BehaveAll ==
    ASSUME \A s \in Sids : Own(s)' => Behaves(s)'
    PROVE  InUse' /\ InTurn'
BY DEF InUse, InTurn, Behaves, JarInUse, TabInUse, JarIsCurrent, JarIsPrevious

LEMMA ReadOfOne ==
    ASSUME TabsInv, NEW c \in Clients, \A d \in Clients : d # c => req'[d] = req[d],
           strayed \subseteq strayed',
           \A s \in Sids : s <= sids /\ rows'[s].exists => rows'[s] = rows[s],
           c \in Tabs => req'[c].pc # "read"
    PROVE  ReadInTime'
<1> SUFFICES ASSUME NEW t \in Tabs, req'[t].pc = "read", req'[t].token.sid \notin strayed'
             PROVE  \/ req'[t].token.jti = req'[t].row.jti
                    \/ /\ req'[t].token.jti = req'[t].row.prev
                       /\ req'[t].since + Latency < req'[t].row.rotated + Grace
                       /\ rows'[req'[t].token.sid].exists =>
                             rows'[req'[t].token.sid].jti = req'[t].row.jti
  BY DEF ReadInTime
<1>1. t \in Clients /\ t # c /\ req'[t] = req[t]
  BY DEF Clients
<1>2. req[t].token.sid \in Sids /\ req[t].token.sid <= sids
  BY <1>1, AskerHasToken DEF TabsInv, Asking
<1> QED
  BY <1>1, <1>2 DEF TabsInv, ReadInTime

(* A tab asks for the token it has the cookie of. *)
LEMMA SendKeeps ==
    ASSUME TabsInv, NEW t \in Tabs, Send(t)
    PROVE  InUse' /\ InTurn' /\ ReadInTime'
<1>0. t \in Clients /\ req[t].pc = "refused" /\ UNCHANGED <<now, rows, jar, strayed>> /\ Base
  BY DEF Send, database, Clients, TabsInv
<1>1. CASE Answer(t, NoToken)
  <2>1. Told(t, NoToken) /\ \A d \in Clients : d # t => req'[d] = req[d]
    BY <1>0, <1>1, IdleIsRequest, ToldIsReply
  <2>2. ~Asking(t)' /\ (\A s \in Sids : ~Brings(t, s) /\ ~Brings(t, s)') /\ req'[t].pc # "refused"
    BY <1>0, <2>1 DEF Told, Asking, Brings, NoToken, Sids
  <2> QED
    BY <1>0, <2>1, <2>2, QuietStep
<1>2. CASE /\ jar.token # NoToken
           /\ req' = [req EXCEPT ![t].pc = "sent", ![t].since = now, ![t].token = jar.token]
  <2>1. /\ req'[t].pc = "sent" /\ req'[t].since = now /\ req'[t].token = jar.token
        /\ \A d \in Clients : d # t => req'[d] = req[d]
    BY <1>0, <1>2, BaseSays DEF Request
  <2>2. ReadInTime'
    BY <1>0, <2>1, ReadOfOne
  <2>3. ASSUME NEW s \in Sids, Own(s)' PROVE Behaves(s)'
    <3>1. Own(s) /\ Behaves(s)
      BY <1>0, <2>3, BehavesIs DEF Own, TabsInv
    <3>2. rows[s].prev < rows[s].jti /\ rows[s].prev # rows[s].jti /\ now \in Nat
          /\ rows[s].jti \in Nat /\ rows[s].prev \in Nat /\ rows[s].expires \in Nat
      BY <1>0, <3>1, OwnSays DEF Row
    <3>3. ~Brings(t, s) /\ ~Brings(t, s)'
      BY <1>0, <2>1 DEF Brings
    <3>4. AsksCurrent(t, s)' <=> JarIsCurrent(s)
      BY <1>0, <2>1 DEF AsksCurrent, Asking, JarIsCurrent
    <3>5. AsksPrevious(t, s)' <=> JarIsPrevious(s)
      BY <1>0, <2>1 DEF AsksPrevious, Asking, JarIsPrevious
    <3>6. ASSUME JarIsPrevious(s) PROVE NoLaterThan(now, s, 2)
      <4>1. PICK w \in Tabs : Brings(w, s) /\ NoLaterThan(req[w].since, s, 1)
        BY <3>1, <3>2, <3>6 DEF Behaves, JarInUse, JarIsPrevious
      <4>2. w \in Clients /\ req[w].since \in Nat /\ now <= req[w].since + Latency
        BY <4>1, <1>0, BaseSays DEF Brings, Clients
      <4> QED
        BY <3>2, <4>1, <4>2, TimesAssumption DEF NoLaterThan
    <3>7. TabInUse(t, s)'
      <4>1. Asking(t)' /\ req'[t].token.sid = s => JarIsCurrent(s) \/ JarIsPrevious(s)
        BY <2>1, <3>1 DEF Behaves, JarInUse, JarIsCurrent, JarIsPrevious
      <4>2. JarIsPrevious(s) => NoLaterThan(req[t].since, s, 2)'
        BY <1>0, <2>1, <3>6 DEF NoLaterThan
      <4> QED
        BY <3>3, <3>4, <3>5, <4>1, <4>2 DEF TabInUse
    <3>8. AsksCurrent(t, s)' => ~JarIsPrevious(s) /\ \A u \in Tabs : u # t => ~Behind(u, s)
      BY <1>0, <3>1, <3>2, <3>4 DEF Behaves, JarIsCurrent, JarIsPrevious
    <3>9. Behind(t, s)' => \A u \in Tabs : u # t =>
             ~AsksCurrent(u, s) /\ (req[u].pc = "refused" => ~JarIsCurrent(s))
      BY <3>1, <3>2, <3>3, <3>5 DEF Behind, Behaves, JarIsCurrent, JarIsPrevious
    <3> QED
      BY <1>0, <2>1, <3>1, <3>3, <3>7, <3>8, <3>9, OneTabStep
  <2> QED
    BY <2>2, <2>3, BehaveAll
<1> QED
  BY <1>1, <1>2 DEF Send

(* The row is read, or the refresh starts again: who asks for what is as it was. *)
LEMMA AskingKeeps ==
    ASSUME TabsInv, NEW c \in Clients, \A d \in Clients : d # c => req'[d] = req[d],
           UNCHANGED <<rows, jar, strayed>>, Asking(c), Asking(c)',
           req'[c].token = req[c].token, req'[c].since = req[c].since
    PROVE  InUse' /\ InTurn'
<1>1. ASSUME NEW s \in Sids, Own(s)' PROVE Behaves(s)'
  <2>1. Own(s) /\ Behaves(s)
    BY <1>1, BehavesIs DEF Own, TabsInv
  <2>2. CASE c \in Tabs
    <3>1. ~Brings(c, s) /\ ~Brings(c, s)' /\ req'[c].pc # "refused"
      BY DEF Brings, Asking
    <3>2. (AsksCurrent(c, s)' <=> AsksCurrent(c, s)) /\ (AsksPrevious(c, s)' <=> AsksPrevious(c, s))
      BY DEF AsksCurrent, AsksPrevious
    <3>3. TabInUse(c, s)'
      BY <2>1, <2>2, <3>1, <3>2 DEF Behaves, TabInUse, NoLaterThan
    <3> QED
      BY <2>1, <2>2, <3>1, <3>2, <3>3, OneTabStep DEF Behaves, Behind
  <2>3. CASE c \notin Tabs
    <3>1. \A t \in Tabs : req'[t] = req[t]
      BY <2>3 DEF Clients
    <3> QED
      BY <2>1, <3>1 DEF Behaves, JarInUse, TabInUse, JarIsCurrent, JarIsPrevious, Behind,
                        AsksCurrent, AsksPrevious, Asking, Brings, NoLaterThan
  <2> QED
    BY <2>2, <2>3
<1> QED
  BY <1>1, BehaveAll

LEMMA ReadKeeps ==
    ASSUME TabsInv, Prompt, NEW c \in Clients, Read(c)
    PROVE  InUse' /\ InTurn' /\ ReadInTime'
<1> DEFINE row == SessionOf(req[c].token)
<1>0. req[c].pc = "sent" /\ Asking(c) /\ UNCHANGED <<now, rows, jar, strayed>> /\ Base
  BY DEF Read, database, TabsInv, Asking
<1>1. /\ req[c].token.sid \in Sids /\ req[c].token.sid <= sids
      /\ req[c].token.jti \in 1..MaxJti /\ row = rows[req[c].token.sid]
  BY <1>0, AskerHasToken DEF SessionOf, NoToken, Sids
<1>2. CASE Answer(c, NoToken)
  <2>1. Told(c, NoToken) /\ \A d \in Clients : d # c => req'[d] = req[d]
    BY <1>0, <1>2, IdleIsRequest, ToldIsReply
  <2>2. ~Asking(c)' /\ (\A s \in Sids : ~Brings(c, s) /\ ~Brings(c, s)') /\ req'[c].pc # "refused"
    BY <1>0, <2>1 DEF Told, Asking, Brings, NoToken, Sids
  <2> QED
    BY <1>0, <2>1, <2>2, QuietStep
<1>3. CASE Live(row) /\ req' = [req EXCEPT ![c].pc = "read", ![c].row = row]
  <2>1. /\ req'[c].pc = "read" /\ req'[c].row = row /\ req'[c].token = req[c].token
        /\ req'[c].since = req[c].since /\ \A d \in Clients : d # c => req'[d] = req[d]
    BY <1>0, <1>3, BaseSays DEF Request
  <2>2. InUse' /\ InTurn'
    BY <1>0, <2>1, AskingKeeps DEF Asking
  <2> DEFINE s == req[c].token.sid
  <2>3. ASSUME c \in Tabs, s \notin strayed
        PROVE  \/ req[c].token.jti = row.jti
               \/ req[c].token.jti = row.prev /\ req[c].since + Latency < row.rotated + Grace
    <3>1. Own(s) /\ Behaves(s)
      BY <1>1, <1>3, <2>3, BehavesIs DEF Own, Live, TabsInv
    <3>2. AsksCurrent(c, s) \/ (AsksPrevious(c, s) /\ NoLaterThan(req[c].since, s, 2))
      BY <1>0, <2>3, <3>1 DEF Behaves, TabInUse
    <3>3. CASE AsksPrevious(c, s) /\ NoLaterThan(req[c].since, s, 2)
      <4>1. req[c].token.jti = row.prev /\ row.prev # 0
        BY <1>1, <3>3 DEF AsksPrevious
      <4>2. Formed(row) /\ row \in Row
        BY <1>0, <1>1, <3>1, OwnSays
      <4>3. row.expires = row.rotated + SessionTtl /\ row.rotated \in Nat
        BY <4>1, <4>2 DEF Formed, Row
      <4>4. req[c].since + SessionTtl <= row.expires + 2 * Latency
        BY <1>1, <3>3 DEF NoLaterThan
      <4>5. req[c].since \in Nat
        BY <1>0, BaseSays
      <4>6. ASSUME NEW r \in Nat, NEW a \in Nat, a + SessionTtl <= r + SessionTtl + 2 * Latency
            PROVE  a + Latency < r + Grace
        BY <4>6, TimesAssumption DEF Prompt
      <4> HIDE DEF row, s
      <4>7. req[c].since + Latency < row.rotated + Grace
        BY <4>3, <4>4, <4>5, <4>6
      <4> QED
        BY <4>1, <4>7
    <3>4. CASE AsksCurrent(c, s)
      BY <1>1, <3>4 DEF AsksCurrent
    <3> QED
      BY <3>2, <3>3, <3>4
  <2>4. ReadInTime'
    <3> SUFFICES ASSUME NEW t \in Tabs, req'[t].pc = "read", req'[t].token.sid \notin strayed'
                 PROVE  \/ req'[t].token.jti = req'[t].row.jti
                        \/ /\ req'[t].token.jti = req'[t].row.prev
                           /\ req'[t].since + Latency < req'[t].row.rotated + Grace
                           /\ rows'[req'[t].token.sid].exists =>
                                 rows'[req'[t].token.sid].jti = req'[t].row.jti
      BY DEF ReadInTime
    <3>1. CASE t = c
      BY <1>0, <1>1, <2>1, <2>3, <3>1
    <3>2. CASE t # c
      <4>1. req'[t] = req[t]
        BY <2>1, <3>2 DEF Clients
      <4> QED
        BY <1>0, <4>1 DEF TabsInv, ReadInTime
    <3> QED
      BY <3>1, <3>2
  <2> QED
    BY <2>2, <2>4
<1> QED
  BY <1>2, <1>3 DEF Read

LEMMA RetryKeeps ==
    ASSUME TabsInv, NEW c \in Clients, req[c].pc = "read", Retry(c), UNCHANGED <<now, jar, stolen, strayed>>
    PROVE  InUse' /\ InTurn' /\ ReadInTime'
<1>0. UNCHANGED <<rows, jar, strayed>> /\ Base /\ Asking(c)
  BY DEF Retry, database, TabsInv, Asking
<1>1. /\ req'[c].pc = "sent" /\ req'[c].token = req[c].token
      /\ req'[c].since = req[c].since /\ \A d \in Clients : d # c => req'[d] = req[d]
  BY <1>0, BaseSays DEF Retry, Request
<1>2. InUse' /\ InTurn'
  BY <1>0, <1>1, AskingKeeps DEF Asking
<1>3. ReadInTime'
  BY <1>0, <1>1, ReadOfOne
<1> QED
  BY <1>2, <1>3

(* The token of a grant is still the current one. *)
LEMMA GrantKeeps ==
    ASSUME TabsInv, NEW c \in Clients, req[c].pc = "read", NEW at \in req[c].since..now, Grant(c, at),
           UNCHANGED <<now, jar, stolen, strayed>>
    PROVE  InUse' /\ InTurn' /\ ReadInTime'
<1>0. UNCHANGED <<rows, jar, strayed>> /\ Base /\ Asking(c)
  BY DEF Grant, database, TabsInv, Asking
<1>1. /\ Granted(c) \in Tokens /\ Answer(c, Granted(c))
      /\ Granted(c).sid = req[c].token.sid /\ Granted(c).jti = req[c].row.jti
  BY <1>0, GrantedIsToken DEF Grant, Granted, Tokens
<1>2. Told(c, Granted(c)) /\ \A d \in Clients : d # c => req'[d] = req[d]
  BY <1>0, <1>1, ToldIsReply
<1>3. req'[c].pc = "answered" /\ req'[c].since = now /\ req'[c].answer = Granted(c)
  BY <1>2 DEF Told
<1>4. ReadInTime'
  BY <1>0, <1>2, <1>3, ReadOfOne
<1>5. ASSUME NEW s \in Sids, Own(s)' PROVE Behaves(s)'
  <2>1. Own(s) /\ Behaves(s)
    BY <1>0, <1>5, BehavesIs DEF Own, TabsInv
  <2>2. CASE c \in Tabs
    <3>1. ~Brings(c, s) /\ ~AsksCurrent(c, s)' /\ ~AsksPrevious(c, s)' /\ ~Asking(c)'
      BY <1>0, <1>3 DEF Brings, Asking, AsksCurrent, AsksPrevious
    <3>2. CASE req[c].token.sid # s
      <4>1. ~Brings(c, s)'
        BY <1>1, <1>3, <3>2 DEF Brings
      <4>2. TabInUse(c, s)' /\ req'[c].pc # "refused"
        BY <1>3, <3>1, <4>1 DEF TabInUse
      <4> QED
        BY <1>0, <1>2, <2>1, <2>2, <3>1, <4>1, <4>2, OneTabStep DEF Behind
    <3>3. CASE req[c].token.sid = s
      <4>1. req[c].token.jti # req[c].row.jti /\ rows[s].jti = req[c].row.jti
        BY <2>1, <2>2, <3>3 DEF Grant, Own, TabsInv, ReadInTime
      <4>2. AsksPrevious(c, s) /\ NoLaterThan(req[c].since, s, 2)
        BY <1>0, <2>1, <2>2, <3>3, <4>1 DEF Behaves, TabInUse, AsksCurrent
      <4>3. NoLaterThan(now, s, 3) /\ rows[s].expires <= now + SessionTtl
        <5>1. req[c].since \in Nat /\ now <= req[c].since + Latency /\ rows[s].expires \in Nat
              /\ now \in Nat /\ rows[s].expires <= now + SessionTtl
          BY <1>0, <2>1, BaseSays, OwnSays
        <5> QED
          BY <4>2, <5>1, TimesAssumption DEF NoLaterThan
      <4>4. TabInUse(c, s)' /\ req'[c].pc # "refused"
        BY <1>0, <1>1, <1>3, <3>1, <4>1, <4>3 DEF TabInUse, NoLaterThan
      <4>5. Behind(c, s)
        BY <4>2 DEF Behind
      <4> QED
        BY <1>0, <1>2, <2>1, <2>2, <3>1, <4>4, <4>5, OneTabStep DEF Behaves
    <3> QED
      BY <3>2, <3>3
  <2>3. CASE c \notin Tabs
    <3>1. \A t \in Tabs : req'[t] = req[t]
      BY <1>2, <2>3 DEF Clients
    <3> QED
      BY <1>0, <2>1, <3>1 DEF Behaves, JarInUse, TabInUse, JarIsCurrent, JarIsPrevious, Behind,
                              AsksCurrent, AsksPrevious, Asking, Brings, NoLaterThan
  <2> QED
    BY <2>2, <2>3
<1> QED
  BY <1>4, <1>5, BehaveAll

(* Who rotates is the only one who is not up to date, and those who asked with *)
(* the same token ask with the previous one from now on.                      *)
LEMMA RotateKeeps ==
    ASSUME TabsInv, NEW c \in Clients, req[c].pc = "read", NEW at \in req[c].since..now, Rotate(c, at),
           UNCHANGED <<now, jar, stolen, strayed>>
    PROVE  InUse' /\ InTurn' /\ ReadInTime'
<1> PICK q, k, token : /\ q = req[c].token.sid /\ k = req[c].token.jti
                       /\ token = [sid |-> q, jti |-> jtis + 1]
  OBVIOUS
<1>0. Asking(c) /\ Base
  BY DEF TabsInv, Asking
<1>1. /\ rows[q].exists /\ rows[q].jti = k /\ q \in Sids /\ k \in 1..MaxJti /\ k <= jtis
      /\ rows' = [rows EXCEPT ![q] = Turned(q, at)] /\ token \in Tokens /\ Answer(c, token)
      /\ at \in Nat /\ now <= at + Latency /\ now \in Nat /\ at <= now
  <2>1. at \in 0..now /\ now \in Nat
    BY <1>0, RotateDoes, BaseSays
  <2>2. at \in Nat /\ at <= now
    BY <2>1
  <2> QED
    BY <1>0, <2>1, <2>2, RotateDoes, AskerHasToken DEF Rotate, Tokens
<1>2. Told(c, token) /\ \A d \in Clients : d # c => req'[d] = req[d]
  BY <1>0, <1>1, ToldIsReply
<1>3. /\ req'[c].pc = "answered" /\ req'[c].since = now /\ req'[c].answer = token
      /\ ~Asking(c)' /\ ~Brings(c, q)
  BY <1>0, <1>2 DEF Told, Asking, Brings
<1>4. \A s \in Sids : s # q => rows'[s] = rows[s]
  BY <1>0, <1>1, BaseSays
<1>5. /\ rows'[q].jti = jtis + 1 /\ rows'[q].prev = k /\ rows'[q].expires = at + SessionTtl
      /\ jtis \in Nat
  BY <1>0, <1>1, BaseSays DEF Turned, Row
<1>6. token.sid = q /\ token.jti = jtis + 1
  OBVIOUS
<1>7. ASSUME NEW s \in Sids, s # q, Own(s)' PROVE Behaves(s)'
  <2>1. Own(s) /\ Behaves(s) /\ rows'[s] = rows[s]
    BY <1>4, <1>7, BehavesIs DEF Own, TabsInv
  <2>2. ~Brings(c, s) /\ ~Brings(c, s)' /\ ~AsksCurrent(c, s)' /\ ~AsksPrevious(c, s)'
    BY <1>0, <1>3, <1>6, <1>7 DEF Brings, Asking, AsksCurrent, AsksPrevious
  <2>3. CASE c \in Tabs
    <3>1. TabInUse(c, s)' /\ req'[c].pc # "refused"
      BY <1>3, <2>2 DEF TabInUse
    <3> QED
      BY <1>2, <2>1, <2>2, <2>3, <3>1, OneTabStep DEF Behind
  <2>4. CASE c \notin Tabs
    <3>1. \A t \in Tabs : req'[t] = req[t]
      BY <1>2, <2>4 DEF Clients
    <3> QED
      BY <2>1, <3>1 DEF Behaves, JarInUse, TabInUse, JarIsCurrent, JarIsPrevious, Behind,
                        AsksCurrent, AsksPrevious, Asking, Brings, NoLaterThan
  <2> QED
    BY <2>3, <2>4
<1>8. c \notin Tabs => q \in strayed
  BY <1>0, AskerHasToken DEF Clients, TabsInv, Thievish, Stray, Base, Exist
<1>9. ASSUME Own(q)'
      PROVE  /\ c \in Tabs /\ Own(q) /\ Behaves(q) /\ AsksCurrent(c, q) /\ ~JarIsPrevious(q)
             /\ \A t \in Tabs : t # c => ~Behind(t, q)
  <2>1. c \in Tabs /\ Own(q) /\ Behaves(q)
    BY <1>1, <1>8, <1>9, BehavesIs DEF Own, TabsInv
  <2>2. AsksCurrent(c, q)
    BY <1>0, <1>1 DEF AsksCurrent
  <2> QED
    BY <2>1, <2>2 DEF Behaves
<1>10. ASSUME Own(q)' PROVE Behaves(q)'
  <2>1. /\ c \in Tabs /\ Own(q) /\ Behaves(q) /\ ~JarIsPrevious(q)
        /\ \A t \in Tabs : t # c => ~Behind(t, q)
    BY <1>9, <1>10
  <2>2. JarInUse(q)'
    <3>1. JarIsCurrent(q) => JarIsPrevious(q)'
      BY <1>1, <1>5 DEF JarIsCurrent, JarIsPrevious
    <3>2. Brings(c, q)' /\ NoLaterThan(req[c].since, q, 1)'
      BY <1>1, <1>3, <1>5, <1>6, TimesAssumption DEF Brings, NoLaterThan
    <3>3. (jar.token.sid = q)' => JarIsCurrent(q)
      BY <2>1 DEF Behaves, JarInUse, JarIsCurrent, JarIsPrevious
    <3> QED
      BY <2>1, <3>1, <3>2, <3>3 DEF JarInUse, JarIsPrevious
  <2>3. TabInUse(c, q)'
    <3>1. NoLaterThan(req[c].since, q, 3)' /\ (rows[q].expires <= req[c].since + SessionTtl)'
      BY <1>1, <1>3, <1>5, TimesAssumption DEF NoLaterThan
    <3> QED
      BY <1>3, <1>5, <1>6, <3>1 DEF TabInUse, AsksPrevious
  <2>4. ASSUME NEW t \in Tabs, t # c
        PROVE  /\ TabInUse(t, q)' /\ ~AsksCurrent(t, q)'
    <3>1. t \in Clients /\ req'[t] = req[t] /\ ~Behind(t, q)
      BY <1>2, <2>1, <2>4 DEF Clients
    <3>2. ~Brings(t, q)'
      BY <3>1 DEF Behind, Brings
    <3>3. ~AsksCurrent(t, q)'
      <4>1. ASSUME Asking(t) PROVE req[t].token.jti <= jtis
        BY <1>0, <3>1, <4>1, AskerHasToken
      <4>2. ASSUME Asking(t), req[t].token.jti <= jtis PROVE req[t].token.jti # jtis + 1
        <5>1. req[t].token.jti \in Nat
          BY <1>0, <3>1, <4>2, AskerHasToken
        <5> QED
          BY <1>5, <4>2, <5>1
      <4> QED
        BY <1>5, <3>1, <4>1, <4>2 DEF AsksCurrent, Asking
    <3>4. ASSUME Asking(t)', req'[t].token.sid = q
          PROVE  AsksPrevious(t, q)' /\ NoLaterThan(req[t].since, q, 2)'
      <4>1. Asking(t) /\ req[t].token.sid = q
        BY <3>1, <3>4 DEF Asking
      <4>2. AsksCurrent(t, q)
        BY <2>1, <2>4, <3>1, <4>1 DEF Behaves, TabInUse, Behind
      <4>3. AsksPrevious(t, q)'
        BY <1>1, <1>5, <3>1, <3>4, <4>2 DEF AsksCurrent, AsksPrevious
      <4>4. req[t].since \in Nat /\ req[t].since <= now
        BY <1>0, <3>1, BaseSays
      <4>5. NoLaterThan(req[t].since, q, 2)'
        BY <1>1, <1>5, <3>1, <4>4, TimesAssumption DEF NoLaterThan
      <4> QED
        BY <4>3, <4>5
    <3> QED
      BY <3>2, <3>3, <3>4 DEF TabInUse, AsksPrevious
  <2>5. ~JarIsCurrent(q)'
    <3>1. jar.token.sid = q => jar.token.jti = k
      BY <1>1, <2>1 DEF Behaves, JarInUse, JarIsPrevious
    <3> QED
      BY <1>1, <1>5, <3>1 DEF JarIsCurrent
  <2>6. \A t \in Tabs : ~AsksCurrent(t, q)'
    BY <1>3, <2>4 DEF AsksCurrent
  <2> QED
    BY <2>2, <2>3, <2>4, <2>5, <2>6 DEF Behaves
<1>11. ReadInTime'
  <2> SUFFICES ASSUME NEW t \in Tabs, req'[t].pc = "read", req'[t].token.sid \notin strayed'
               PROVE  \/ req'[t].token.jti = req'[t].row.jti
                      \/ /\ req'[t].token.jti = req'[t].row.prev
                         /\ req'[t].since + Latency < req'[t].row.rotated + Grace
                         /\ rows'[req'[t].token.sid].exists =>
                               rows'[req'[t].token.sid].jti = req'[t].row.jti
    BY DEF ReadInTime
  <2>1. t \in Clients /\ t # c /\ req'[t] = req[t] /\ Asking(t) /\ req[t].token.sid \in Sids
    <3>1. t \in Clients /\ t # c
      BY <1>3 DEF Clients
    <3>2. req'[t] = req[t]
      BY <1>2, <3>1
    <3> QED
      BY <1>0, <3>1, <3>2, AskerHasToken DEF Asking
  <2>2. \/ req[t].token.jti = req[t].row.jti
        \/ /\ req[t].token.jti = req[t].row.prev
           /\ req[t].since + Latency < req[t].row.rotated + Grace
           /\ rows[req[t].token.sid].exists => rows[req[t].token.sid].jti = req[t].row.jti
    BY <2>1 DEF TabsInv, ReadInTime
  <2>3. CASE req[t].token.sid # q
    BY <1>4, <2>1, <2>2, <2>3
  <2>4. CASE req[t].token.sid = q
    <3>1. Own(q)'
      BY <1>1, <2>1, <2>4, BaseSays, <1>0 DEF Own, Turned, Row
    <3>2. ~Behind(t, q) /\ Own(q) /\ Behaves(q)
      BY <1>9, <2>1, <3>1
    <3>3. AsksCurrent(t, q)
      BY <2>1, <2>4, <3>2 DEF Behaves, TabInUse, Behind
    <3>4. req[t].row.prev < req[t].row.jti /\ req[t].row \in Row
      BY <1>0, <2>1, BaseSays DEF Base, Exist, Formed
    <3>5. req[t].row.prev # req[t].row.jti
      BY <3>4 DEF Row
    <3> QED
      BY <1>1, <2>1, <2>2, <2>4, <3>3, <3>5 DEF AsksCurrent
  <2> QED
    BY <2>3, <2>4
<1> QED
  BY <1>7, <1>10, <1>11, BehaveAll

LEMMA LoginKeeps ==
    ASSUME TabsInv, NEW t \in Tabs, Login(t)
    PROVE  InUse' /\ InTurn' /\ ReadInTime'
<1> PICK n, token : n = sids + 1 /\ token = [sid |-> sids + 1, jti |-> jtis + 1]
  OBVIOUS
<1>0. Base /\ t \in Clients /\ req[t].pc = "idle" /\ ~Asking(t)
  BY DEF TabsInv, Clients, Login, Asking
<1>1. /\ sids + 1 \in Sids /\ rows' = [rows EXCEPT ![sids + 1] = Begun(sids + 1)]
      /\ token \in Tokens /\ Answer(t, token) /\ UNCHANGED <<now, jar, strayed>>
  BY <1>0, LoginDoes DEF Login, Tokens
<1>2. Told(t, token) /\ \A d \in Clients : d # t => req'[d] = req[d]
  BY <1>0, <1>1, ToldIsReply
<1>3. req'[t].pc = "answered" /\ req'[t].since = now /\ req'[t].answer = token /\ ~Asking(t)'
  BY <1>2 DEF Told, Asking
<1>4. token.sid = sids + 1 /\ token.jti = jtis + 1 /\ sids \in Nat /\ jtis \in Nat /\ now \in Nat
  BY <1>0, BaseSays
<1>5. /\ \A s \in Sids : s # n => rows'[s] = rows[s]
      /\ rows'[n].jti = jtis + 1 /\ rows'[n].expires = now + SessionTtl
  BY <1>0, <1>1, BaseSays DEF Begun
<1>6. ReadInTime'
  <2>1. \A s \in Sids : s <= sids => s # n
    BY <1>4 DEF Sids
  <2> QED
    BY <1>0, <1>1, <1>2, <1>3, <1>5, <2>1, ReadOfOne
<1>7. ASSUME NEW s \in Sids, s # n, Own(s)' PROVE Behaves(s)'
  <2>1. Own(s) /\ Behaves(s) /\ rows'[s] = rows[s]
    BY <1>1, <1>5, <1>7, BehavesIs DEF Own, TabsInv
  <2>2. ~Brings(t, s) /\ ~Brings(t, s)' /\ ~AsksCurrent(t, s)' /\ ~AsksPrevious(t, s)'
    BY <1>0, <1>3, <1>4, <1>7 DEF Brings, AsksCurrent, AsksPrevious
  <2>3. TabInUse(t, s)' /\ req'[t].pc # "refused"
    BY <1>3, <2>2 DEF TabInUse
  <2> QED
    BY <1>1, <1>2, <2>1, <2>2, <2>3, OneTabStep DEF Behind
<1>8. Behaves(n)'
  <2>1. /\ jar.token.sid # n
        /\ \A u \in Tabs : ~(Asking(u) /\ req[u].token.sid = n)
        /\ \A u \in Tabs : ~(req[u].pc = "answered" /\ req[u].answer.sid = n)
    <3>1. \A x \in Tokens : Made(x) => x.sid # n
      BY <1>4 DEF Made, Tokens, Token, NoToken, Sids
    <3>2. \A u \in Tabs : u \in Clients
      BY DEF Clients
    <3> QED
      BY <1>0, <3>1, <3>2, BaseSays
  <2>2. \A u \in Tabs : ~(Asking(u)' /\ req'[u].token.sid = n)
    BY <1>2, <1>3, <2>1 DEF Asking, Clients
  <2>3. ASSUME NEW u \in Tabs, req'[u].pc = "answered", req'[u].answer.sid = n PROVE u = t
    BY <1>2, <2>1, <2>3 DEF Clients
  <2>4. /\ NoLaterThan(now, n, 3)' /\ rows'[n].expires <= now + SessionTtl
        /\ req'[t].since = now /\ now' = now
    BY <1>1, <1>3, <1>4, <1>5, TimesAssumption DEF NoLaterThan
  <2> QED
    BY <1>1, <1>3, <1>4, <1>5, <2>1, <2>2, <2>3, <2>4
       DEF Behaves, JarInUse, TabInUse, AsksCurrent, AsksPrevious, Brings, Behind,
           JarIsCurrent, JarIsPrevious, NoLaterThan
<1> QED
  BY <1>6, <1>7, <1>8, BehaveAll

(* A tab is refused with the current token only when its access token has had *)
(* the time to end: by then nobody else is behind.                            *)
LEMMA RefusedKeeps ==
    ASSUME TabsInv, Prompt, NEW t \in Tabs, Refused(t)
    PROVE  InUse' /\ InTurn' /\ ReadInTime'
<1>0. /\ t \in Clients /\ req[t].pc = "idle" /\ Base
      /\ UNCHANGED <<now, rows, jar, strayed>> /\ jar.token # NoToken /\ ~Authenticated
  BY DEF Refused, database, Clients, TabsInv
<1>1. /\ req'[t].pc = "refused" /\ \A d \in Clients : d # t => req'[d] = req[d]
  BY <1>0, BaseSays DEF Refused, Request
<1>2. ASSUME NEW s \in Sids, NEW u \in Tabs, Own(s), u # t, Behind(u, s)
      PROVE  ~JarIsCurrent(s)
  <2> SUFFICES ASSUME JarIsCurrent(s) PROVE FALSE
    OBVIOUS
  <2>1. /\ s # 0 /\ rows[s].exists /\ rows[s].expires \in Nat /\ now \in Nat /\ rows[s].prev < rows[s].jti
        /\ rows[s].jti \in Nat /\ rows[s].prev \in Nat
    BY <1>0, <1>2, OwnSays DEF Row
  <2>2. Behaves(s) /\ jar.token.sid = s /\ jar.token.jti = rows[s].jti
    BY <1>2, BehavesIs DEF TabsInv, JarIsCurrent
  <2>3. /\ rows[s].expires + AccessTtl <= jar.jwtUntil + SessionTtl
        /\ rows[s].expires + AccessTtl <= jar.cookieUntil + SessionTtl
        /\ jar.jwtUntil \in Nat /\ jar.cookieUntil \in Nat
    BY <1>0, <2>1, <2>2, BaseSays DEF Behaves, JarInUse
  <2>4. NoLaterThan(req[u].since, s, 3)
    <3>1. AsksPrevious(u, s) => NoLaterThan(req[u].since, s, 2)
      BY <2>2 DEF Behaves, TabInUse
    <3>2. Brings(u, s) => NoLaterThan(req[u].since, s, 3)
      BY <2>2 DEF Behaves, TabInUse
    <3>3. NoLaterThan(req[u].since, s, 2) => NoLaterThan(req[u].since, s, 3)
      <4>1. req[u].since \in Nat
        BY <1>0, BaseSays DEF Clients
      <4> QED
        BY <2>1, <4>1, TimesAssumption DEF NoLaterThan
    <3> QED
      BY <1>2, <3>1, <3>2, <3>3 DEF Behind
  <2>5. req[u].since \in Nat /\ now <= req[u].since + Latency
    BY <1>0, <1>2, BaseSays DEF Behind, AsksPrevious, Asking, Brings, Clients
  <2>6. now + SessionTtl <= rows[s].expires + 4 * Latency
    BY <2>1, <2>4, <2>5, TimesAssumption DEF NoLaterThan
  <2>7. SessionOf(jar.token) = rows[s]
    BY <1>0, <2>2 DEF SessionOf
  <2>8. jar.cookieUntil <= now \/ jar.jwtUntil <= now \/ rows[s].expires <= now
    BY <1>0, <2>1, <2>3, <2>7 DEF Authenticated, Sends, Live
  <2> QED
    BY <2>1, <2>3, <2>6, <2>8, TimesAssumption DEF Prompt
<1>3. ~Asking(t)' /\ (\A s \in Sids : ~Brings(t, s) /\ ~Brings(t, s)')
  BY <1>0, <1>1 DEF Asking, Brings
<1> QED
  BY <1>0, <1>1, <1>2, <1>3, QuietStep

(* The browser has the current token again, and the other tab is up to date. *)
LEMMA ReceiveKeeps ==
    ASSUME TabsInv, TwoTabs, NEW t \in Tabs, Receive(t)
    PROVE  InUse' /\ InTurn' /\ ReadInTime'
<1> PICK token : token = req[t].answer
  OBVIOUS
<1>0. /\ t \in Clients /\ req[t].pc = "answered" /\ Base
      /\ UNCHANGED <<now, rows, strayed>> /\ jar'.token = token
      /\ now \in Nat /\ req[t].since \in Nat /\ req[t].since <= now
  BY BaseSays DEF Receive, database, Clients, TabsInv
<1>1. /\ req'[t] = Idle /\ \A d \in Clients : d # t => req'[d] = req[d]
  BY <1>0, BaseSays DEF Receive
<1>2. /\ ~Asking(t)' /\ req'[t].pc # "refused" /\ req'[t].pc # "read"
      /\ \A s \in Sids : ~Brings(t, s)'
  BY <1>1 DEF Asking, Brings, Idle
<1>3. ReadInTime'
  BY <1>0, <1>1, <1>2, ReadOfOne
<1>4. ASSUME NEW s \in Sids, Own(s)' PROVE Behaves(s)'
  <2>1. Own(s) /\ Behaves(s)
    BY <1>0, <1>4, BehavesIs DEF Own, TabsInv
  <2>2. /\ s # 0 /\ rows[s].prev # rows[s].jti /\ rows[s].expires \in Nat
    BY <1>0, <2>1, OwnSays DEF Row
  <2>3. \A u \in Tabs : TabInUse(u, s)'
    <3>1. TabInUse(t, s)'
      BY <1>2 DEF TabInUse, AsksPrevious
    <3> QED
      BY <1>0, <1>1, <2>1, <3>1, OthersStay DEF Behaves, Clients
  <2>4. CASE token.sid # s
    <3>1. ~JarIsCurrent(s)' /\ ~JarIsPrevious(s)' /\ JarInUse(s)'
      BY <1>0, <2>4 DEF JarIsCurrent, JarIsPrevious, JarInUse
    <3>2. ASSUME NEW a \in Tabs, NEW b \in Tabs, a # b, Behind(a, s)' PROVE ~AsksCurrent(b, s)'
      <4>1. a # t
        BY <1>2, <3>2 DEF Behind, AsksPrevious
      <4>2. CASE b = t
        BY <1>2, <4>2 DEF AsksCurrent
      <4>3. CASE b # t
        BY <1>0, <1>1, <2>1, <3>2, <4>1, <4>3, OthersStay DEF Behaves, Clients
      <4> QED
        BY <4>2, <4>3
    <3> QED
      BY <2>3, <3>1, <3>2 DEF Behaves
  <2>5. CASE token.sid = s
    <3>1. /\ Brings(t, s) /\ token.jti = rows[s].jti
          /\ rows[s].expires <= req[t].since + SessionTtl
      BY <1>0, <2>1, <2>5 DEF Brings, Behaves, TabInUse
    <3>2. jar'.jwtUntil = req[t].since + AccessTtl /\ jar'.cookieUntil = now + AccessTtl
      BY <2>2, <2>5 DEF Receive, NoToken
    <3>3. /\ rows[s].expires + AccessTtl <= jar'.jwtUntil + SessionTtl
          /\ rows[s].expires + AccessTtl <= jar'.cookieUntil + SessionTtl
      BY <1>0, <2>2, <3>1, <3>2, TimesAssumption
    <3>4. JarInUse(s)' /\ ~JarIsPrevious(s)'
      BY <1>0, <2>2, <3>1, <3>3 DEF JarInUse, JarIsPrevious
    <3>5. ASSUME NEW a \in Tabs, NEW b \in Tabs, a # b, Behind(a, s)'
          PROVE  ~AsksCurrent(b, s)' /\ req'[b].pc # "refused"
      <4>1. a # t
        BY <1>2, <3>5 DEF Behind, AsksPrevious
      <4>2. b = t
        BY <3>5, <4>1 DEF TwoTabs
      <4> QED
        BY <1>2, <4>2 DEF AsksCurrent
    <3> QED
      BY <2>3, <3>4, <3>5 DEF Behaves
  <2> QED
    BY <2>4, <2>5
<1> QED
  BY <1>3, <1>4, BehaveAll

LEMMA TabsKeep ==
    ASSUME TabsInv, TwoTabs, Prompt, NEW t \in Tabs,
           \/ Logout(t) \/ Refused(t) \/ Send(t) \/ Receive(t) \/ AnswerLost(t)
           \/ CreateAnonymously(t) \/ Created(t) \/ Login(t)
    PROVE  InUse' /\ InTurn' /\ ReadInTime'
<1>0. t \in Clients /\ Base /\ \A s \in Sids : s # 0
  BY DEF TabsInv, Clients, Sids
<1>1. CASE Logout(t)
  <2>1. Told(t, NoToken) /\ \A d \in Clients : d # t => req'[d] = req[d]
    BY <1>0, <1>1, IdleIsRequest, ToldIsReply DEF Logout
  <2>2. ~Asking(t)' /\ (\A s \in Sids : ~Brings(t, s) /\ ~Brings(t, s)') /\ req'[t].pc # "refused"
    BY <1>0, <1>1, <2>1 DEF Told, Asking, Brings, NoToken, Logout
  <2>3. \A s \in Sids : rows'[s].exists => rows'[s] = rows[s]
    BY <1>0, <1>1, BaseSays DEF Logout, NoRow
  <2>4. jar' = jar /\ strayed' = strayed
    BY <1>1 DEF Logout
  <2> QED
    BY <1>0, <2>1, <2>2, <2>3, <2>4, QuietStep
<1>2. CASE CreateAnonymously(t)
  <2>1. req'[t].pc = "anonymous" /\ \A d \in Clients : d # t => req'[d] = req[d]
    BY <1>0, <1>2, BaseSays DEF CreateAnonymously, Request
  <2>2. ~Asking(t)' /\ (\A s \in Sids : ~Brings(t, s) /\ ~Brings(t, s)') /\ req'[t].pc # "refused"
    BY <1>2, <2>1 DEF Asking, Brings, CreateAnonymously
  <2>3. rows' = rows /\ jar' = jar /\ strayed' = strayed
    BY <1>2 DEF CreateAnonymously, database
  <2> QED
    BY <1>0, <2>1, <2>2, <2>3, QuietStep
<1>3. CASE Created(t)
  <2>1. req'[t] = Idle /\ \A d \in Clients : d # t => req'[d] = req[d]
    BY <1>0, <1>3, BaseSays DEF Created
  <2>2. ~Asking(t)' /\ (\A s \in Sids : ~Brings(t, s) /\ ~Brings(t, s)') /\ req'[t].pc # "refused"
    BY <1>3, <2>1 DEF Asking, Brings, Created, Idle
  <2>3. rows' = rows /\ jar' = jar /\ strayed' = strayed
    BY <1>3 DEF Created, database
  <2> QED
    BY <1>0, <2>1, <2>2, <2>3, QuietStep
<1>4. CASE AnswerLost(t)
  <2>1. req'[t] = Idle /\ \A d \in Clients : d # t => req'[d] = req[d]
    BY <1>0, <1>4, BaseSays DEF AnswerLost
  <2>2. ~Asking(t)' /\ (\A s \in Sids : ~Brings(t, s)') /\ req'[t].pc # "refused"
    BY <1>4, <2>1 DEF Asking, Brings, Idle
  <2>3. rows' = rows /\ jar' = jar /\ strayed' = strayed \cup ({req[t].answer.sid} \ {0})
    BY <1>4 DEF AnswerLost, database
  <2>4. \A s \in Sids : Brings(t, s) => s \in strayed'
    BY <1>0, <2>3 DEF Brings
  <2>5. strayed \subseteq strayed'
    BY <2>3
  <2> QED
    BY <1>0, <2>1, <2>2, <2>3, <2>4, <2>5, QuietStep
<1> QED
  BY <1>1, <1>2, <1>3, <1>4, RefusedKeeps, SendKeeps, ReceiveKeeps, LoginKeeps

(* Who is not a tab changes nothing of this. *)
LEMMA ThievesKeep ==
    ASSUME TabsInv, NEW h \in Thieves, Steal(h) \/ StealUses(h) \/ StealReceives(h)
    PROVE  InUse' /\ InTurn' /\ ReadInTime'
<1>1. h \in Clients /\ h \notin Tabs /\ Base
  BY ClientsAssumption DEF Clients, TabsInv
<1>2. \A d \in Clients : d # h => req'[d] = req[d]
  BY <1>1, BaseSays DEF Steal, StealUses, StealReceives
<1>3. rows' = rows /\ jar' = jar /\ strayed \subseteq strayed'
  BY DEF Steal, StealUses, StealReceives, database
<1> QED
  BY <1>1, <1>2, <1>3, QuietStep

(* The session of a token that was copied ends, or expires, or is left alone. *)
LEMMA RevokeKeeps ==
    ASSUME TabsInv, NEW c \in Clients,
           \/ QueryFails(c)
           \/ \E at \in req[c].since..now :
                 req[c].pc = "read" /\ Revoke(c, at) /\ UNCHANGED <<now, jar, stolen, strayed>>
    PROVE  InUse' /\ InTurn' /\ ReadInTime'
<1>0. Base /\ Answer(c, NoToken) /\ UNCHANGED <<jar, strayed>> /\ Asking(c)
  BY DEF TabsInv, QueryFails, Revoke, Asking
<1>1. Told(c, NoToken) /\ \A d \in Clients : d # c => req'[d] = req[d]
  BY <1>0, IdleIsRequest, ToldIsReply
<1>2. ~Asking(c)' /\ (\A s \in Sids : ~Brings(c, s) /\ ~Brings(c, s)') /\ req'[c].pc # "refused"
  BY <1>0, <1>1 DEF Told, Asking, Brings, NoToken, Sids
<1>3. \A s \in Sids : rows'[s].exists => rows'[s] = rows[s]
  BY <1>0, BaseSays DEF QueryFails, database, Revoke, NoRow
<1> QED
  BY <1>0, <1>1, <1>2, <1>3, QuietStep

(* A session whose token was replaced, and nobody was told, has strayed. *)
LEMMA UnansweredKeeps ==
    ASSUME TabsInv, NEW c \in Clients, UpdateUnanswered(c)
    PROVE  InUse' /\ InTurn' /\ ReadInTime'
<1> PICK q : q = req[c].token.sid
  OBVIOUS
<1>0. /\ Base /\ Answer(c, NoToken) /\ jar' = jar /\ Asking(c)
      /\ strayed' = strayed \cup {q}
  BY DEF TabsInv, UpdateUnanswered, Asking
<1>1. Told(c, NoToken) /\ \A d \in Clients : d # c => req'[d] = req[d]
  BY <1>0, IdleIsRequest, ToldIsReply
<1>2. ~Asking(c)' /\ (\A s \in Sids : ~Brings(c, s) /\ ~Brings(c, s)') /\ req'[c].pc # "refused"
  BY <1>0, <1>1 DEF Told, Asking, Brings, NoToken, Sids
<1>3. ASSUME NEW s \in Sids, s \notin strayed' PROVE rows'[s] = rows[s]
  <2>1. PICK at \in req[c].since..now : req[c].pc = "read" /\ Replace(c, at)
    BY DEF UpdateUnanswered
  <2>2. rows' = [rows EXCEPT ![q] = Turned(q, at)] /\ s # q
    BY <1>0, <1>3, <2>1, ReplaceDoes
  <2> QED
    BY <1>0, <2>2, BaseSays
<1> QED
  BY <1>0, <1>1, <1>2, <1>3, QuietStep

LEMMA TimeKeeps ==
    ASSUME TabsInv, Tick \/ \E s \in Sids : PurgeExpired(s)
    PROVE  InUse' /\ InTurn' /\ ReadInTime'
<1>1. \A s \in Sids : rows'[s].exists => rows'[s] = rows[s]
  BY DEF Tick, PurgeExpired, database, NoRow, TabsInv, Base, TypeOK
<1>2. UNCHANGED <<jar, strayed, req>>
  BY DEF Tick, PurgeExpired
<1>3. ReadInTime'
  <2>1. \A t \in Tabs : req[t].pc = "read" => req[t].token.sid \in Sids
    BY AskerHasToken DEF TabsInv, Asking, Clients
  <2> QED
    BY <1>1, <1>2, <2>1 DEF TabsInv, ReadInTime
<1>4. ASSUME NEW s \in Sids, Own(s)' PROVE Behaves(s)'
  <2>1. rows'[s] = rows[s] /\ Behaves(s)
    BY <1>1, <1>2, <1>4, BehavesIs DEF Own, TabsInv
  <2> QED
    BY <1>2, <2>1 DEF Behaves, JarInUse, TabInUse, JarIsCurrent, JarIsPrevious, Behind,
                      AsksCurrent, AsksPrevious, Asking, Brings, NoLaterThan
<1> QED
  BY <1>3, <1>4, BehaveAll

(* What a thief asks with is of a session that has strayed. *)
LEMMA ThievishStep ==
    ASSUME TabsInv, Next
    PROVE  Thievish' /\ strayed \subseteq strayed'
<1>0. Base /\ Thievish /\ Thieves \subseteq Clients /\ \A h \in Thieves : h \notin Tabs
  BY ClientsAssumption DEF TabsInv, Clients
<1>1. ASSUME req' = req, strayed' = strayed PROVE Thievish'
  BY <1>0, <1>1 DEF Thievish, Stray
<1>2. ASSUME NEW c \in Clients, \A d \in Clients : d # c => req'[d] = req[d],
             strayed \subseteq strayed',
             c \in Thieves => /\ req'[c].token \in {req[c].token, NoToken}
                              /\ \/ req'[c].answer \in {req[c].answer, NoToken}
                                 \/ req[c].token # NoToken /\ req'[c].answer.sid = req[c].token.sid
      PROVE  Thievish' /\ strayed \subseteq strayed'
  <2> SUFFICES ASSUME NEW h \in Thieves
               PROVE  Stray(req[h].token)' /\ Stray(req[h].answer)'
    BY <1>2 DEF Thievish
  <2>1. Stray(req[h].token) /\ Stray(req[h].answer)
    BY <1>0 DEF Thievish
  <2> QED
    BY <1>0, <1>2, <2>1 DEF Stray
<1>3. ASSUME NEW t \in Tabs,
             \/ Logout(t) \/ Refused(t) \/ Send(t) \/ Receive(t) \/ AnswerLost(t)
             \/ CreateAnonymously(t) \/ Created(t) \/ Login(t)
      PROVE  Thievish' /\ strayed \subseteq strayed'
  <2>1. t \in Clients /\ t \notin Thieves /\ req \in [Clients -> Request]
    BY <1>0, BaseSays DEF Clients
  <2>2. \A d \in Clients : d # t => req'[d] = req[d]
    BY <1>3, <2>1 DEF Logout, Refused, Send, Receive, AnswerLost, CreateAnonymously, Created, Login, Answer
  <2>3. strayed \subseteq strayed'
    BY <1>3 DEF Logout, Refused, Send, Receive, AnswerLost, CreateAnonymously, Created, Login
  <2> QED
    BY <1>2, <2>1, <2>2, <2>3
<1>4. ASSUME NEW h \in Thieves, Steal(h) PROVE Thievish' /\ strayed \subseteq strayed'
  BY <1>1, <1>4 DEF Steal
<1>5. ASSUME NEW h \in Thieves, StealUses(h) PROVE Thievish' /\ strayed \subseteq strayed'
  <2>1. h \in Clients /\ strayed' = strayed \cup {stolen[h].sid}
    BY <1>0, <1>5 DEF StealUses
  <2>2. /\ req'[h].token = stolen[h] /\ req'[h].answer = req[h].answer
        /\ \A d \in Clients : d # h => req'[d] = req[d]
    BY <1>5, <2>1, <1>0, BaseSays DEF StealUses, Request
  <2>3. ASSUME NEW k \in Thieves
        PROVE  Stray(req[k].token)' /\ Stray(req[k].answer)'
    BY <1>0, <2>1, <2>2 DEF Thievish, Stray
  <2> QED
    BY <2>1, <2>3 DEF Thievish
<1>6. ASSUME NEW h \in Thieves, StealReceives(h) PROVE Thievish' /\ strayed \subseteq strayed'
  <2>1. /\ h \in Clients /\ strayed' = strayed /\ req'[h] = Idle
        /\ \A d \in Clients : d # h => req'[d] = req[d]
    BY <1>0, <1>6, BaseSays DEF StealReceives
  <2> QED
    BY <1>2, <2>1 DEF Idle
<1>7. ASSUME NEW c \in Clients, Read(c) \/ Decide(c) \/ QueryFails(c)
      PROVE  Thievish' /\ strayed \subseteq strayed'
  <2>1. strayed' = strayed /\ Asking(c) /\ req[c].token # NoToken
    BY <1>0, <1>7 DEF Read, Decide, QueryFails, Asking, Base, Exist
  <2>2. \E d \in Clients : Moves(d)
    BY <1>0, <1>7, ServerMoves
  <2>3. ASSUME NEW token \in Tokens, Answer(c, token)
        PROVE  /\ req'[c].token = req[c].token /\ req'[c].answer = token
               /\ \A d \in Clients : d # c => req'[d] = req[d]
    BY <1>0, <2>3, ToldIsReply DEF Told
  <2>4. CASE Answer(c, NoToken)
    BY <1>2, <2>1, <2>3, <2>4, IdleIsRequest
  <2>5. ASSUME req' = [req EXCEPT ![c].pc = "read", ![c].row = SessionOf(req[c].token)]
        PROVE  Thievish' /\ strayed \subseteq strayed'
    <3>1. /\ req'[c].token = req[c].token /\ req'[c].answer = req[c].answer
          /\ \A d \in Clients : d # c => req'[d] = req[d]
      BY <1>0, <2>5, BaseSays DEF Request
    <3> QED
      BY <1>2, <2>1, <3>1
  <2>6. ASSUME req' = [req EXCEPT ![c].pc = "sent", ![c].row = NoRow]
        PROVE  Thievish' /\ strayed \subseteq strayed'
    <3>1. /\ req'[c].token = req[c].token /\ req'[c].answer = req[c].answer
          /\ \A d \in Clients : d # c => req'[d] = req[d]
      BY <1>0, <2>6, BaseSays DEF Request
    <3> QED
      BY <1>2, <2>1, <3>1
  <2>7. ASSUME NEW token \in Tokens, Answer(c, token), token.sid = req[c].token.sid
        PROVE  Thievish' /\ strayed \subseteq strayed'
    BY <1>2, <2>1, <2>3, <2>7
  <2>8. ASSUME NEW at \in req[c].since..now, req[c].pc = "read", Rotate(c, at)
        PROVE  Thievish' /\ strayed \subseteq strayed'
    <3>1. PICK token : token = [sid |-> req[c].token.sid, jti |-> jtis + 1]
      OBVIOUS
    <3>2. token \in Tokens /\ Answer(c, token) /\ token.sid = req[c].token.sid
      BY <1>0, <2>8, <3>1, RotateDoes DEF Rotate, Tokens
    <3> QED
      BY <2>7, <3>2
  <2>9. ASSUME NEW at \in req[c].since..now, req[c].pc = "read", Grant(c, at)
        PROVE  Thievish' /\ strayed \subseteq strayed'
    <3>1. PICK token : token = Granted(c)
      OBVIOUS
    <3>2. token \in Tokens /\ Answer(c, token) /\ token.sid = req[c].token.sid
      BY <1>0, <2>9, <3>1, GrantedIsToken DEF Grant, Granted, Tokens
    <3> QED
      BY <2>7, <3>2
  <2> QED
    BY <1>7, <2>4, <2>5, <2>6, <2>8, <2>9 DEF Read, QueryFails, Decide, Revoke, Retry
<1>8. ASSUME Tick \/ \E s \in Sids : PurgeExpired(s) PROVE Thievish' /\ strayed \subseteq strayed'
  <2>1. UNCHANGED <<req, strayed>>
    BY <1>8 DEF Tick, PurgeExpired
  <2> QED
    BY <1>1, <2>1
<1>9. ASSUME NEW c \in Clients, UpdateUnanswered(c) PROVE Thievish' /\ strayed \subseteq strayed'
  <2>1. Answer(c, NoToken) /\ strayed \subseteq strayed'
    BY <1>9 DEF UpdateUnanswered
  <2>2. Told(c, NoToken) /\ \A d \in Clients : d # c => req'[d] = req[d]
    BY <1>0, <2>1, IdleIsRequest, ToldIsReply
  <2> QED
    BY <1>2, <2>1, <2>2 DEF Told
<1> QED
  BY <1>3, <1>4, <1>5, <1>6, <1>7, <1>8, <1>9 DEF Next

(* Only a thief comes with a token that is neither current nor within grace. *)
LEMMA AlarmStep ==
    ASSUME TabsInv, Next
    PROVE  OnlyStrayedRevoked'
<1>0. strayed \subseteq strayed' /\ alarms \subseteq strayed /\ Base
  BY ThievishStep DEF TabsInv, OnlyStrayedRevoked
<1>1. CASE alarms' = alarms
  BY <1>0, <1>1 DEF OnlyStrayedRevoked
<1>2. ASSUME NEW c \in Clients, req[c].pc = "read", NEW at \in req[c].since..now, Revoke(c, at)
      PROVE  OnlyStrayedRevoked'
  <2> DEFINE s == req[c].token.sid
  <2>1. s \in strayed
    <3> SUFFICES ASSUME s \notin strayed PROVE FALSE
      OBVIOUS
    <3>1. CASE c \in Tabs
      <4>1. req[c].token.jti # req[c].row.jti /\ ~WithinGrace(c, at)
        BY <1>2 DEF Revoke
      <4>2. req[c].token.jti = req[c].row.prev /\ req[c].since + Latency < req[c].row.rotated + Grace
        BY <1>2, <3>1, <4>1 DEF TabsInv, ReadInTime
      <4>3. /\ now \in Nat /\ req[c].since \in Nat /\ now <= req[c].since + Latency
            /\ req[c].row.rotated \in Nat
        BY <1>0, <1>2, BaseSays DEF Row
      <4>4. at < req[c].row.rotated + Grace
        BY <4>2, <4>3, TimesAssumption
      <4> QED
        BY <4>1, <4>2, <4>4 DEF WithinGrace
    <3>2. CASE c \notin Tabs
      BY <1>0, <1>2, <3>2, AskerHasToken DEF Clients, TabsInv, Thievish, Stray, Asking, Base, Exist
    <3> QED
      BY <3>1, <3>2
  <2>2. alarms' \subseteq alarms \cup {s}
    BY <1>2 DEF Revoke
  <2> HIDE DEF s
  <2> QED
    BY <1>0, <2>1, <2>2 DEF OnlyStrayedRevoked
<1>3. \/ alarms' = alarms
      \/ \E c \in Clients : \E at \in req[c].since..now : req[c].pc = "read" /\ Revoke(c, at)
  BY DEF Next, Login, Logout, Refused, Send, Receive, AnswerLost, CreateAnonymously, Created,
         Steal, StealUses, StealReceives, Read, Decide, Rotate, Replace, Retry, Grant, QueryFails,
         UpdateUnanswered, PurgeExpired, Tick, database
<1> QED
  BY <1>1, <1>2, <1>3

LEMMA InitTabs == Init => TabsInv
<1> SUFFICES ASSUME Init PROVE TabsInv
  OBVIOUS
<1>1. (\A c \in Clients : req[c] = Idle) /\ Tabs \subseteq Clients /\ Thieves \subseteq Clients
  BY DEF Init, Clients
<1>2. \A s \in Sids : ~Own(s)
  BY DEF Init, Own, NoRow
<1> QED
  BY <1>1, <1>2, InitBase DEF Init, TabsInv, Thievish, Stray, InUse, InTurn, ReadInTime,
                              OnlyStrayedRevoked, Idle

LEMMA TabsStep ==
    ASSUME TwoTabs, Prompt
    PROVE  TabsInv /\ [Next]_vars => TabsInv'
<1>1. ASSUME TabsInv, Next PROVE TabsInv'
  <2>1. Base' /\ Thievish' /\ OnlyStrayedRevoked'
    BY <1>1, BaseStep, ThievishStep, AlarmStep DEF TabsInv
  <2>2. ASSUME NEW c \in Clients, Decide(c) PROVE InUse' /\ InTurn' /\ ReadInTime'
    BY <1>1, <2>2, RotateKeeps, RetryKeeps, GrantKeeps, RevokeKeeps DEF Decide
  <2>3. InUse' /\ InTurn' /\ ReadInTime'
    BY <1>1, <2>2, TabsKeep, ThievesKeep, ReadKeeps, RevokeKeeps,
       UnansweredKeeps, TimeKeeps DEF Next
  <2> QED
    BY <2>1, <2>3 DEF TabsInv
<1>2. ASSUME TabsInv, UNCHANGED vars PROVE TabsInv'
  <2>1. UNCHANGED <<now, rows, sids, jtis, replacedAt, alarms, jar, stolen, req, strayed>>
    BY <1>2 DEF vars, database
  <2>2. Base'
    BY <1>2, BaseStep DEF TabsInv
  <2> QED
    BY <1>2, <2>1, <2>2
       DEF TabsInv, Thievish, Stray, InUse, InTurn, ReadInTime, OnlyStrayedRevoked, Own, AsksCurrent,
           AsksPrevious, Asking, Brings, Behind, NoLaterThan
<1> QED
  BY <1>1, <1>2

(* One browser with two tabs never ends its session as a thief's, whichever  *)
(* of its refreshes runs between which statements of the other, if three     *)
(* deliveries take less than the grace period and four less than an access   *)
(* token lasts: a session that is ended for reuse had a copied token         *)
(* presented, or an answer with a new token lost on its way.                 *)
THEOREM TwoTabsAreSafe ==
    ASSUME TwoTabs, Prompt
    PROVE  Spec => []OnlyStrayedRevoked
<1>1. TabsInv => OnlyStrayedRevoked
  BY DEF TabsInv
<1> QED
  BY <1>1, InitTabs, TabsStep, PTL DEF Spec

================================================================================
