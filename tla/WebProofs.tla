------------------------------ MODULE WebProofs -------------------------------
(***************************************************************************)
(* Proofs about the two halves of a tab, its session (WebSession) and its  *)
(* links (WebLinks), for every set of users, slots and pages and every     *)
(* bound.                                                                  *)
(*                                                                         *)
(* The session: types, that the links in the query cache are those of who  *)
(* is logged in, and that a live session is never taken for a dead one.    *)
(* The invariant IInv says of each slot what its request still knows to be *)
(* true (SlotOk: whose session its cookies and its answer name), and of    *)
(* the rest that the server's sessions have users (Made), that someone     *)
(* logged in is leaving the login page (Guarded), that nobody signs in or  *)
(* out before /auth/me is answered unless the two cross (MeFirst), and     *)
(* whose the cookies and the cache are (Orderly).                          *)
(*                                                                         *)
(* The links: types, that a link which is gone is about to leave every     *)
(* page, and that the tab at rest shows what the API holds.  The invariant *)
(* LinksInv adds to the types how many writes there may be (Table), and    *)
(* that, unless a mutation has yet to tell the cache (Telling, TellsOf),   *)
(* what a page has or is about to have is what the API holds (ListsTrue,   *)
(* DetailsTrue, GhostsReadToo).  Every step of the tab is one of three     *)
(* kinds (Classified): all pages are invalidated, a delete is under way,   *)
(* or each page goes on by itself.                                         *)
(***************************************************************************)
EXTENDS WebSession, WebLinks, FiniteSetTheorems, TLAPS

(* Whose session sid is, if it is one. *)
Is(u, sid) == sid # 0 => sessions[sid].user = u
Who == IF auth.status = "authenticated" THEN auth.user ELSE Former

(* What is known of the request r in slot s. *)
KindOk(s, r) ==
    /\ s = "me" => r.kind \in {"none", "me"}
    /\ s = "session" => r.kind \in {"none", "login", "register", "logout"}
    /\ s = "refresh" => r.kind \in {"none", "refresh"}
    /\ s \in Data => r.kind \in {"none", "list", "create"}
    /\ r.pc = "idle" <=> r.kind = "none"
    /\ r.pc = "idle" => r = Idle
    /\ r.pc = "waiting" => s \in Data
    /\ r.cookies.sid <= sids /\ r.sid <= sids /\ r.since <= expiries

MeOk(r) == r.pc # "idle" =>
    /\ r.status = "ok" => r.user \in Users
    /\ ~crossed => auth.user = Nobody /\ ~r.orphan
    /\ ~crossed /\ ~kicked => /\ Is(Former, r.cookies.sid)
                              /\ r.status = "ok" => r.user = Former

SignInOk(r) == r.kind \in {"login", "register"} =>
    /\ r.pc = "sent" => r.user \in Users /\ sids < MaxSid
    /\ r.status = "ok" => r.sid # 0 /\ r.user \in Users /\ sessions[r.sid].user = r.user
    /\ ~crossed /\ ~kicked => auth.status = "guest"

RefreshOk(r) == r.pc # "idle" =>
    /\ ~crossed /\ ~kicked /\ auth.status # "guest" => Is(Who, r.cookies.sid) /\ Is(Who, r.sid)
    /\ ~crossed /\ faults = 0 =>
          /\ jar.sid \in {0, IF r.pc = "sent" THEN r.cookies.sid ELSE r.sid}
          /\ r.pc = "answered" => r.status = "ok" \/ ~Live(r.sid)

DataOk(r) ==
    /\ r.kind = "list" =>
          /\ r.status = "ok" => r.user \in Users
          /\ ~crossed /\ ~kicked /\ ~r.orphan =>
                /\ auth.status = "authenticated" /\ Is(auth.user, r.cookies.sid)
                /\ r.status = "ok" => r.user = auth.user
    /\ r.retried /\ r.since = expiries =>
          /\ r.pc = "sent" => r.cookies.access = "valid"
          /\ r.pc = "answered" /\ r.status = "401" => ~Live(r.sid)

SlotOk(s, r) ==
    /\ KindOk(s, r)
    /\ s = "me" => MeOk(r)
    /\ s = "session" => SignInOk(r)
    /\ s = "refresh" => RefreshOk(r)
    /\ s \in Data => DataOk(r)

(* What is known of the rest. *)
Made ==
    /\ sids >= 1 /\ sessions[1].user = Former /\ jar.sid <= sids
    /\ \A i \in Sids : IF i <= sids THEN sessions[i].user \in Users ELSE ~sessions[i].live

Guarded == page = "login" /\ auth.status = "authenticated" => going # "none"

MeFirst == ~crossed /\ reqs["me"].pc # "idle" => reqs["session"].pc = "idle"

Orderly == ~crossed /\ ~kicked =>
    /\ reqs["me"].pc # "idle" <=> auth.status = "loading"
    /\ auth.status # "guest" => Is(Who, jar.sid)
    /\ cached \in {Nobody, auth.user}

IInv == TypeOK /\ Made /\ Guarded /\ MeFirst /\ Orderly /\ \A s \in Slots : SlotOk(s, reqs[s])

--------------------------------------------------------------------------------
(* Requests *)

LEMMA IdleIs ==
    /\ Idle \in Request
    /\ Idle.kind = "none" /\ Idle.pc = "idle" /\ Idle.cookies.sid = 0 /\ Idle.cookies.access = "none"
    /\ Idle.user = Nobody /\ Idle.status = "none" /\ Idle.sid = 0 /\ Idle.since = 0
    /\ ~Idle.retried /\ ~Idle.orphan
BY BoundsAssumption DEF Idle, Request, NoCookies, Jar

(* Requests whose two flags are in B: the provers reason better about them when *)
(* they do not see that these are truth values.                                 *)
RequestOf(B) ==
    [kind : {"none", "me", "login", "register", "logout", "refresh", "list", "create"},
     pc : {"idle", "sent", "answered", "waiting"}, cookies : Jar, user : Users \cup {Nobody},
     status : {"none", "ok", "401", "500", "lost"}, sid : 0..MaxSid,
     retried : B, orphan : B, since : 0..MaxExpiry]

LEMMA RequestIs == Request = RequestOf(BOOLEAN)
BY DEF Request, RequestOf

LEMMA SentIs ==
    ASSUME TypeOK, NEW u \in Users \cup {Nobody},
           NEW kind \in {"me", "login", "register", "logout", "refresh", "list", "create"}
    PROVE  /\ Sent(kind, u) \in Request
           /\ Sent(kind, u).kind = kind /\ Sent(kind, u).pc = "sent" /\ Sent(kind, u).cookies = jar
           /\ Sent(kind, u).user = u /\ Sent(kind, u).status = "none" /\ Sent(kind, u).sid = 0
           /\ Sent(kind, u).since = expiries /\ ~Sent(kind, u).retried /\ ~Sent(kind, u).orphan
BY BoundsAssumption DEF TypeOK, Request, Sent

AnswerTo(r, status, u, sid, no) ==
    [r EXCEPT !.pc = "answered", !.status = status, !.user = u, !.sid = sid, !.cookies = no]

LEMMA AnswerOf ==
    ASSUME NEW B, NEW r \in RequestOf(B), NEW status \in {"ok", "401", "500", "lost"}, NEW no, no \in Jar, no.sid = 0,
           NEW u \in Users \cup {Nobody}, NEW sid \in 0..MaxSid, NEW x, x = AnswerTo(r, status, u, sid, no)
    PROVE  /\ x \in RequestOf(B)
           /\ x.kind = r.kind /\ x.pc = "answered" /\ x.cookies.sid = 0 /\ x.user = u /\ x.status = status
           /\ x.sid = sid /\ x.since = r.since /\ x.retried = r.retried /\ x.orphan = r.orphan
BY BoundsAssumption DEF RequestOf, AnswerTo

IsAnswer(x, r, status, u, sid) ==
    /\ x \in Request
    /\ x.kind = r.kind /\ x.pc = "answered" /\ x.cookies.sid = 0 /\ x.user = u /\ x.status = status
    /\ x.sid = sid /\ x.since = r.since /\ x.retried = r.retried /\ x.orphan = r.orphan

LEMMA AnswerIs ==
    ASSUME NEW r \in Request, NEW status \in {"ok", "401", "500", "lost"},
           NEW u \in Users \cup {Nobody}, NEW sid \in 0..MaxSid
    PROVE  IsAnswer(AnswerTo(r, status, u, sid, NoCookies), r, status, u, sid)
<1>1. NoCookies \in Jar /\ NoCookies.sid = 0
    BY BoundsAssumption DEF Jar, NoCookies
<1>2. r \in RequestOf(BOOLEAN)
    BY RequestIs, Zenon
<1>3. PICK x : x = AnswerTo(r, status, u, sid, NoCookies)
    OBVIOUS
<1>4. x \in RequestOf(BOOLEAN)
    BY <1>1, <1>2, <1>3, AnswerOf, SMT
<1>5. /\ x.kind = r.kind /\ x.pc = "answered" /\ x.cookies.sid = 0 /\ x.user = u /\ x.status = status
      /\ x.sid = sid /\ x.since = r.since /\ x.retried = r.retried /\ x.orphan = r.orphan
    BY <1>1, <1>2, <1>3, AnswerOf, SMT
<1>6. x \in Request
    BY <1>4, RequestIs, Zenon
<1>7. IsAnswer(x, r, status, u, sid)
    BY <1>5, <1>6 DEF IsAnswer
<1>8. QED BY <1>3, <1>7, Zenon

--------------------------------------------------------------------------------
(* What a step leaves alone *)

LEMMA Different ==
    /\ "me" \in Slots /\ "session" \in Slots /\ "refresh" \in Slots /\ Data \subseteq Slots
    /\ "me" \notin Data /\ "session" \notin Data /\ "refresh" \notin Data
    /\ Nobody \notin Users /\ Former \in Users
BY SlotsAssumption, UsersAssumption DEF Slots

(* What a step may do around the request in slot s. *)
Around(s) ==
    /\ sids <= sids' /\ (s = "session" => sids' = sids)
    /\ \A i \in 1..sids : sessions'[i].user = sessions[i].user /\ (sessions'[i].live => sessions[i].live)
    /\ auth' = auth /\ kicked' = kicked /\ expiries' = expiries /\ faults <= faults'
    /\ crossed => crossed'
    /\ s = "refresh" => jar'.sid \in {jar.sid, 0}

LEMMA SidsOk ==
    ASSUME TypeOK, NEW r \in Request
    PROVE  r.cookies.sid \in Nat /\ r.sid \in Nat /\ jar.sid \in Nat /\ sids \in Nat /\ r.since \in Nat
           /\ expiries \in Nat /\ faults \in Nat
BY BoundsAssumption DEF TypeOK, Request, Jar

LEMMA IsKept ==
    ASSUME TypeOK, NEW s, Around(s), NEW u, NEW sid \in Nat, sid <= sids, Is(u, sid)
    PROVE  Is(u, sid)'
BY BoundsAssumption DEF Is, Around, TypeOK

LEMMA LiveKept ==
    ASSUME TypeOK, NEW s, Around(s), NEW sid \in Nat, sid <= sids, Live(sid)'
    PROVE  Live(sid)
BY BoundsAssumption DEF Live, Around, TypeOK

LEMMA Kept ==
    ASSUME NEW s \in Slots, TypeOK, TypeOK', Made, SlotOk(s, reqs[s]), reqs'[s] = reqs[s], Around(s)
    PROVE  SlotOk(s, reqs[s])'
<1> USE Different
<1>0. PICK r \in Request : r = reqs[s]
    BY DEF TypeOK
<1>1. /\ r.cookies.sid \in Nat /\ r.sid \in Nat /\ jar.sid \in Nat /\ sids \in Nat /\ r.since \in Nat
      /\ expiries \in Nat /\ faults \in Nat /\ sids' \in Nat /\ expiries' \in Nat /\ faults' \in Nat
    BY SidsOk, BoundsAssumption DEF TypeOK
<1>2. KindOk(s, r) /\ reqs'[s] = r
    BY <1>0 DEF SlotOk
<1>3. KindOk(s, reqs[s])'
    BY <1>1, <1>2 DEF KindOk, Around
<1>4. ASSUME s = "me" PROVE MeOk(reqs[s])'
    <2>1. MeOk(r)
        BY <1>0, <1>4 DEF SlotOk
    <2>2. Is(Former, r.cookies.sid) => Is(Former, r.cookies.sid)'
        BY <1>1, <1>2, IsKept DEF KindOk
    <2>3. QED BY <1>1, <1>2, <2>1, <2>2 DEF MeOk, Around
<1>5. ASSUME s = "session" PROVE SignInOk(reqs[s])'
    <2>1. SignInOk(r)
        BY <1>0, <1>5 DEF SlotOk
    <2>2. r.sid # 0 => sessions'[r.sid].user = sessions[r.sid].user
        BY <1>1, <1>2 DEF KindOk, Around
    <2>3. QED BY <1>1, <1>2, <1>5, <2>1, <2>2 DEF SignInOk, Around
<1>6. ASSUME s = "refresh" PROVE RefreshOk(reqs[s])'
    <2>1. RefreshOk(r)
        BY <1>0, <1>6 DEF SlotOk
    <2>2. \A u : Is(u, r.cookies.sid) => Is(u, r.cookies.sid)'
        BY <1>1, <1>2, IsKept DEF KindOk
    <2>3. \A u : Is(u, r.sid) => Is(u, r.sid)'
        BY <1>1, <1>2, IsKept DEF KindOk
    <2>4. ~Live(r.sid) => ~Live(r.sid)'
        BY <1>1, <1>2, LiveKept DEF KindOk
    <2>5. Who' = Who
        BY DEF Around, Who
    <2>6. ASSUME r.pc # "idle", ~crossed', ~kicked', auth'.status # "guest"
          PROVE  Is(Who, r.cookies.sid)' /\ Is(Who, r.sid)'
        <3>1. Is(Who, r.cookies.sid) /\ Is(Who, r.sid)
            BY <2>1, <2>6 DEF RefreshOk, Around
        <3>2. QED BY <3>1, <2>2, <2>3, <2>5 DEF Is
    <2>7. ASSUME r.pc # "idle", ~crossed', faults' = 0
          PROVE  /\ jar'.sid \in {0, IF r.pc = "sent" THEN r.cookies.sid ELSE r.sid}
                 /\ r.pc = "answered" => r.status = "ok" \/ ~Live(r.sid)'
        <3>1. faults = 0 /\ ~crossed
            BY <1>1, <2>7 DEF Around
        <3>2. QED BY <1>6, <2>1, <2>4, <2>7, <3>1 DEF RefreshOk, Around
    <2>8. QED BY <1>2, <2>6, <2>7 DEF RefreshOk
<1>7. ASSUME s \in Data PROVE DataOk(reqs[s])'
    <2>1. DataOk(r)
        BY <1>0, <1>7 DEF SlotOk
    <2>2. \A u : Is(u, r.cookies.sid) => Is(u, r.cookies.sid)'
        BY <1>1, <1>2, IsKept DEF KindOk
    <2>3. ~Live(r.sid) => ~Live(r.sid)'
        BY <1>1, <1>2, LiveKept DEF KindOk
    <2>4. Is(auth.user, r.cookies.sid) => Is(auth.user, r.cookies.sid)'
        BY <2>2 DEF Around, Is
    <2>5. DataOk(r)'
        BY <2>1, <2>3, <2>4 DEF DataOk, Around
    <2>6. QED BY <1>2, <2>5 DEF DataOk
<1>8. QED BY <1>3, <1>4, <1>5, <1>6, <1>7 DEF SlotOk

(* A step that changes nothing but requests, and what is counted. *)
Calm ==
    /\ sessions' = sessions /\ sids' = sids /\ jar' = jar /\ auth' = auth /\ page' = page /\ going' = going
    /\ kicked' = kicked /\ expiries' = expiries /\ faults <= faults' /\ (crossed => crossed')

LEMMA OneMoves ==
    ASSUME IInv, NEW s \in Slots, NEW x \in Request, reqs' = [reqs EXCEPT ![s] = x], Calm,
           moves' \in 0..MaxMoves, faults' \in 0..MaxFaults, crossed' \in BOOLEAN, cached' \in Users \cup {Nobody},
           ~crossed' /\ ~kicked => cached' \in {cached, auth.user},
           s = "me" => reqs["me"].pc # "idle" /\ x.pc # "idle",
           s = "session" => reqs["session"].pc # "idle" \/ crossed' \/ reqs["me"].pc = "idle",
           SlotOk(s, x)'
    PROVE  IInv'
<1> USE Different DEF IInv, Calm
<1>1. \A t \in Slots : reqs'[t] = IF t = s THEN x ELSE reqs[t]
    BY DEF TypeOK
<1>2. TypeOK'
    BY <1>1 DEF TypeOK
<1>3. \A t \in Slots : t # s => SlotOk(t, reqs[t])'
    <2> SUFFICES ASSUME NEW t \in Slots, t # s PROVE SlotOk(t, reqs[t])'
        OBVIOUS
    <2>1. Around(t)
        BY DEF Around, TypeOK
    <2>2. QED BY <1>1, <1>2, <2>1, Kept
<1>4. SlotOk(s, reqs[s])'
    BY <1>1
<1>5. Made' /\ Guarded'
    BY DEF Made, Guarded
<1>6. MeFirst'
    BY <1>1 DEF MeFirst
<1>7. Orderly'
    BY <1>1 DEF Orderly, Is, Who
<1>8. QED BY <1>2, <1>3, <1>4, <1>5, <1>6, <1>7

--------------------------------------------------------------------------------
(* Asking *)

LEMMA AskHolds ==
    ASSUME IInv, NEW s \in Slots, s \notin {"me", "refresh"}, NEW u \in Users \cup {Nobody},
           NEW kind \in {"login", "register", "logout", "list", "create"}, Ask(s, kind, u),
           moves' \in 0..MaxMoves,
           s = "session" <=> kind \in {"login", "register", "logout"},
           kind = "list" => auth.status = "authenticated",
           kind \in {"login", "register"} => u \in Users /\ sids < MaxSid /\ page = "login" /\ going = "none",
           kind = "logout" => auth.user # Nobody
    PROVE  IInv'
<1> USE Different DEF IInv
<1>1. PICK x : x = Sent(kind, u)
    OBVIOUS
<1>2. /\ x \in Request /\ x.kind = kind /\ x.pc = "sent" /\ x.cookies = jar /\ x.user = u /\ x.status = "none"
      /\ x.sid = 0 /\ x.since = expiries /\ ~x.retried /\ ~x.orphan
    BY <1>1, SentIs
<1>3. reqs' = [reqs EXCEPT ![s] = x] /\ cached' = cached /\ faults' = faults
      /\ crossed' = (crossed \/ (kind \in {"login", "register"} /\ reqs["me"].pc # "idle"))
    BY <1>1 DEF Ask
<1>4. Calm
    BY <1>3 DEF Ask, Calm, TypeOK
<1>5. jar.sid \in Nat /\ sids \in Nat /\ expiries \in Nat
    BY BoundsAssumption DEF TypeOK, Jar
<1>6. KindOk(s, x)'
    BY <1>2, <1>4, <1>5 DEF KindOk, Calm, Made, Slots
<1>7. ASSUME s = "session" PROVE SignInOk(x)'
    <2>1. kind \in {"login", "register"} /\ ~crossed' /\ ~kicked' => auth.status = "guest"
        BY <1>3, <1>4 DEF Orderly, Guarded, Calm, TypeOK, Auth
    <2>2. QED BY <1>2, <1>4, <1>7, <2>1 DEF SignInOk, Calm
<1>8. ASSUME s \in Data PROVE DataOk(x)'
    <2>1. kind = "list" /\ ~crossed' /\ ~kicked' => auth.status = "authenticated" /\ Is(auth.user, jar.sid)
        BY <1>3, <1>4 DEF Orderly, Calm, Who
    <2>2. QED BY <1>2, <1>4, <1>8, <2>1 DEF DataOk, Calm, Is
<1>9. SlotOk(s, x)'
    BY <1>6, <1>7, <1>8 DEF SlotOk, Slots
<1>10. s = "session" => reqs["session"].pc # "idle" \/ crossed' \/ reqs["me"].pc = "idle"
    <2>1. kind = "logout" => crossed \/ reqs["me"].pc = "idle"
        BY DEF SlotOk, MeOk
    <2>2. QED BY <1>3, <2>1
<1>11. crossed' \in BOOLEAN /\ cached' \in Users \cup {Nobody} /\ faults' \in 0..MaxFaults
    BY <1>3 DEF TypeOK
<1>12. QED BY <1>2, <1>3, <1>4, <1>9, <1>10, <1>11, OneMoves

LEMMA AskingHolds ==
    ASSUME IInv, Asking, ~\E p \in Pages : Visit(p)
    PROVE  IInv'
<1> USE Different
<1>1. moves \in 0..MaxMoves /\ (Move => moves' \in 0..MaxMoves)
    BY BoundsAssumption DEF IInv, TypeOK, Move
<1>2. CASE AskList
    <2>1. PICK d \in Data : Ask(d, "list", Nobody) /\ Move
        BY <1>2 DEF AskList, AskData
    <2>2. QED BY <1>1, <1>2, <2>1, AskHolds DEF AskList
<1>3. CASE AskCreate
    <2>1. PICK d \in Data : Ask(d, "create", Nobody) /\ Move
        BY <1>3 DEF AskCreate, AskData
    <2>2. QED BY <1>1, <2>1, AskHolds
<1>4. ASSUME NEW u \in Users, AskLogin(u) PROVE IInv'
    BY <1>1, <1>4, AskHolds DEF AskLogin
<1>5. ASSUME NEW u \in Users, AskRegister(u) PROVE IInv'
    BY <1>1, <1>5, AskHolds DEF AskRegister
<1>6. CASE AskLogout
    BY <1>1, <1>6, AskHolds DEF AskLogout
<1>7. QED BY <1>2, <1>3, <1>4, <1>5, <1>6 DEF Asking

--------------------------------------------------------------------------------
(* Answering *)

LEMMA AnswerHolds ==
    ASSUME IInv, NEW s \in Slots, NEW r \in Request, r = reqs[s], r.pc \in {"sent", "answered"},
           NEW status \in {"ok", "401", "500", "lost"}, NEW u \in Users \cup {Nobody},
           NEW sid \in 0..MaxSid, sid <= sids, Answer(s, status, u, sid), Calm, crossed' = crossed, cached' = cached,
           moves' = moves, faults' \in 0..MaxFaults,
           s = "session" => status # "ok",
           s # "session" /\ s # "refresh" /\ status = "ok" =>
               r.kind = "create" \/ (Live(r.cookies.sid) /\ u = sessions[r.cookies.sid].user),
           s \in Data /\ status = "401" => sid = r.cookies.sid /\ ~Valid(r.cookies) /\ r.pc = "sent",
           s = "refresh" => \/ status \in {"lost", "500"} /\ sid = 0 /\ faults' # 0
                            \/ r.pc = "sent" /\ sid = r.cookies.sid /\ status = IF Live(r.cookies.sid) THEN "ok" ELSE "401"
    PROVE  IInv'
<1>1. PICK x : x = AnswerTo(r, status, u, sid, NoCookies)
    OBVIOUS
<1>0. IsAnswer(x, r, status, u, sid)
    BY <1>1, AnswerIs
<1>2. /\ x \in Request /\ x.kind = r.kind /\ x.pc = "answered" /\ x.cookies.sid = 0 /\ x.user = u
      /\ x.status = status /\ x.sid = sid /\ x.since = r.since /\ x.retried = r.retried /\ x.orphan = r.orphan
    BY <1>0 DEF IsAnswer
<1> USE Different DEF IInv
<1>3. reqs' = [reqs EXCEPT ![s] = x]
    BY <1>1 DEF Answer, AnswerTo
<1>4. SlotOk(s, r)
    OBVIOUS
<1>5. r.cookies.sid \in 0..MaxSid /\ sids \in 0..MaxSid /\ r.cookies.sid <= sids /\ faults \in Nat
    BY <1>4, BoundsAssumption DEF SlotOk, KindOk, Request, Jar, TypeOK
<1>6. Live(r.cookies.sid) => sessions[r.cookies.sid].user \in Users
    BY <1>5, BoundsAssumption DEF Live, Made, Sids
<1>7. KindOk(s, x)'
    BY <1>2, <1>4, <1>5, BoundsAssumption DEF SlotOk, KindOk, Calm
<1>8. ASSUME s = "me" PROVE MeOk(x)'
    <2>1. MeOk(r) /\ r.kind = "me"
        BY <1>4, <1>8 DEF SlotOk, KindOk
    <2>2. QED BY <1>2, <1>6, <1>8, <2>1 DEF MeOk, Calm, Is, Live
<1>9. ASSUME s = "session" PROVE SignInOk(x)'
    BY <1>2, <1>4, <1>9 DEF SlotOk, SignInOk, Calm
<1>10. ASSUME s = "refresh" PROVE RefreshOk(x)'
    <2>1. RefreshOk(r)
        BY <1>4, <1>10 DEF SlotOk
    <2>2. sid = r.cookies.sid \/ faults' # 0
        BY <1>10
    <2>3. ASSUME ~crossed, ~kicked, auth.status # "guest" PROVE Is(Who, sid)
        <3>1. Is(Who, r.cookies.sid)
            BY <2>1, <2>3 DEF RefreshOk
        <3>2. QED BY <1>10, <3>1 DEF Is
    <2>4. QED BY <1>2, <1>5, <1>10, <2>1, <2>3 DEF RefreshOk, Calm, Is, Who, Live
<1>11. ASSUME s \in Data PROVE DataOk(x)'
    <2>1. DataOk(r) /\ r.kind \in {"list", "create"}
        BY <1>4, <1>11 DEF SlotOk, KindOk
    <2>2. r.kind = "list" /\ status = "ok" => Live(r.cookies.sid) /\ u = sessions[r.cookies.sid].user /\ u \in Users
        BY <1>6, <1>11
    <2>3. r.kind = "list" /\ ~crossed /\ ~kicked /\ ~r.orphan
              => auth.status = "authenticated" /\ (status = "ok" => u = auth.user)
        BY <2>1, <2>2 DEF DataOk, Is, Live
    <2>4. r.retried /\ r.since = expiries /\ status = "401" => ~Live(sid)
        BY <1>11, <2>1 DEF DataOk, Valid
    <2>5. QED BY <1>2, <2>2, <2>3, <2>4 DEF DataOk, Calm, Is, Live
<1>12. SlotOk(s, x)'
    BY <1>7, <1>8, <1>9, <1>10, <1>11 DEF SlotOk
<1>13. cached' \in Users \cup {Nobody} /\ moves' \in 0..MaxMoves /\ crossed' \in BOOLEAN
    BY DEF TypeOK
<1>14. s = "session" => reqs["session"].pc # "idle"
    OBVIOUS
<1>15. s = "me" => reqs["me"].pc # "idle" /\ x.pc # "idle"
    BY <1>2
<1>16. QED BY <1>2, <1>3, <1>12, <1>13, <1>14, <1>15, OneMoves

Still == UNCHANGED <<jar, auth, page, going, cached, expiries, moves, faults, kicked, crossed>>

LEMMA ServedHolds ==
    ASSUME IInv, Still, (\E s \in Slots : ServeData(s)) \/ ServeRefresh
    PROVE  IInv'
<1> USE Different
<1>1. \A s \in Slots : /\ SlotOk(s, reqs[s]) /\ KindOk(s, reqs[s]) /\ reqs[s] \in Request
                       /\ reqs[s].cookies.sid \in 0..MaxSid /\ reqs[s].cookies.sid <= sids
    BY DEF IInv, SlotOk, KindOk, TypeOK, Request, Jar
<1>2. sessions \in [Sids -> Session] /\ 0 \in 0..MaxSid /\ 0 <= sids /\ faults \in 0..MaxFaults
    BY BoundsAssumption DEF IInv, TypeOK
<1>3. ASSUME NEW s \in Slots, ServeData(s) PROVE IInv'
    <2>1. PICK r \in Request : r = reqs[s]
        BY <1>1
    <2>2. r.kind \in {"me", "list", "create"} /\ r.pc = "sent" /\ UNCHANGED <<sessions, sids>>
        BY <1>3, <2>1 DEF ServeData
    <2>3. s # "session" /\ s # "refresh"
        BY <1>1, <2>1, <2>2 DEF KindOk
    <2>4. Calm
        BY <1>2, <2>2 DEF Still, Calm
    <2>5. faults' \in 0..MaxFaults /\ crossed' = crossed /\ cached' = cached /\ moves' = moves
        BY <1>2 DEF Still
    <2>6. CASE Valid(r.cookies)
        <3>1. PICK u \in Users \cup {Nobody} : u = sessions[r.cookies.sid].user
            BY <1>1, <1>2, <2>1, <2>6, BoundsAssumption DEF Valid, Live, Sids, Session
        <3>2. Answer(s, "ok", u, 0)
            BY <1>3, <2>1, <2>6, <3>1 DEF ServeData
        <3>3. QED BY <1>2, <2>1, <2>2, <2>3, <2>4, <2>5, <2>6, <3>1, <3>2, AnswerHolds DEF Valid
    <2>7. CASE ~Valid(r.cookies) /\ r.kind = "create" /\ r.cookies.access = "none"
        <3>1. Answer(s, "ok", Nobody, 0)
            BY <1>3, <2>1, <2>7 DEF ServeData
        <3>2. QED BY <1>2, <2>1, <2>2, <2>3, <2>4, <2>5, <2>7, <3>1, AnswerHolds
    <2>8. CASE ~Valid(r.cookies) /\ ~(r.kind = "create" /\ r.cookies.access = "none")
        <3>1. Answer(s, "401", Nobody, r.cookies.sid)
            BY <1>3, <2>1, <2>8 DEF ServeData
        <3>2. QED BY <1>1, <1>2, <2>1, <2>2, <2>3, <2>4, <2>5, <2>8, <3>1, AnswerHolds
    <2>9. QED BY <2>6, <2>7, <2>8
<1>4. CASE ServeRefresh
    <2>1. PICK r \in Request : r = reqs["refresh"]
        BY <1>1
    <2>2. PICK status \in {"ok", "401"} : status = IF Live(r.cookies.sid) THEN "ok" ELSE "401"
        OBVIOUS
    <2>3. r.pc = "sent" /\ UNCHANGED <<sessions, sids>> /\ Answer("refresh", status, Nobody, r.cookies.sid)
        BY <1>4, <2>1, <2>2 DEF ServeRefresh
    <2>4. Calm
        BY <1>2, <2>3 DEF Still, Calm
    <2>5. faults' \in 0..MaxFaults /\ crossed' = crossed /\ cached' = cached /\ moves' = moves
        BY <1>2 DEF Still
    <2>6. QED BY <1>1, <1>2, <2>1, <2>2, <2>3, <2>4, <2>5, AnswerHolds
<1>5. QED BY <1>3, <1>4

LEMMA FailHolds ==
    ASSUME IInv, NEW s \in Slots, Fail(s)
    PROVE  IInv'
<1> USE Different
<1>1. PICK r \in Request : r = reqs[s]
    BY DEF IInv, TypeOK
<1>2. /\ 0 \in 0..MaxSid /\ 0 <= sids /\ faults \in 0..MaxFaults
      /\ faults' \in 0..MaxFaults /\ faults' # 0 /\ faults <= faults'
    BY BoundsAssumption DEF IInv, TypeOK, Fail
<1>3. Calm
    BY <1>2 DEF Fail, Calm
<1>4. PICK status \in {"lost", "500"} : Answer(s, status, Nobody, 0)
    BY DEF Fail
<1>5. crossed' = crossed /\ cached' = cached /\ moves' = moves /\ r.pc \in {"sent", "answered"}
    BY <1>1 DEF Fail
<1>6. QED BY <1>1, <1>2, <1>3, <1>4, <1>5, AnswerHolds

LEMMA EndedHolds ==
    ASSUME IInv, NEW d \in Data, Rejected(d) \/ Listed(d) \/ Created(d)
    PROVE  IInv'
<1> USE Different
<1>1. PICK r \in Request : r = reqs[d]
    BY DEF IInv, TypeOK
<1>2. r.kind \in {"list", "create"} /\ r.pc = "answered" /\ Done(d) /\ SlotOk(d, r)
    BY <1>1 DEF IInv, Rejected, Listed, Created, Answered
<1>3. jar' = jar /\ UNCHANGED <<sessions, sids, page, expiries, moves, faults, auth, going, kicked, crossed>>
    BY <1>1, <1>2 DEF Rejected, Listed, Created, Answered, Cookies
<1>4. faults \in Nat /\ faults \in 0..MaxFaults /\ moves \in 0..MaxMoves /\ crossed \in BOOLEAN
    BY BoundsAssumption DEF IInv, TypeOK
<1>5. Calm
    BY <1>3, <1>4 DEF Calm
<1>6. cached' \in Users \cup {Nobody} /\ (~crossed /\ ~kicked => cached' \in {cached, auth.user})
    <2>1. cached \in Users \cup {Nobody}
        BY DEF IInv, TypeOK
    <2>2. CASE Listed(d)
        <3>1. r.kind = "list" /\ r.status = "ok" /\ cached' = IF r.orphan THEN cached ELSE r.user
            BY <1>1, <2>2 DEF Listed, Answered
        <3>2. DataOk(r)
            BY <1>2 DEF SlotOk
        <3>3. QED BY <2>1, <3>1, <3>2 DEF DataOk
    <2>3. CASE Rejected(d) \/ Created(d)
        BY <2>1, <2>3 DEF Rejected, Created
    <2>4. QED BY <2>2, <2>3
<1>7. SlotOk(d, Idle)'
    <2>1. PICK x : x = Idle
        OBVIOUS
    <2>2. sids \in Nat /\ expiries \in Nat
        BY BoundsAssumption DEF IInv, TypeOK
    <2>3. SlotOk(d, x)'
        BY <1>3, <2>1, <2>2, IdleIs DEF SlotOk, KindOk, DataOk
    <2>4. QED BY <2>1, <2>3
<1>8. QED BY <1>2, <1>3, <1>4, <1>5, <1>6, <1>7, IdleIs, OneMoves DEF Done

LEMMA ServeSignInHolds ==
    ASSUME IInv, Still, ServeSignIn
    PROVE  IInv'
<1> USE Different
<1>1. PICK r \in Request : r = reqs["session"]
    BY DEF IInv, TypeOK
<1>2. r.kind \in {"login", "register"} /\ r.pc = "sent" /\ SlotOk("session", r)
    BY <1>1 DEF IInv, ServeSignIn
<1>3. SignInOk(r) /\ KindOk("session", r)
    BY <1>2 DEF SlotOk
<1>4. r.user \in Users /\ sids \in 0..MaxSid /\ sids < MaxSid /\ sids + 1 \in 0..MaxSid /\ sids + 1 \in Sids
    BY <1>2, <1>3, BoundsAssumption DEF SignInOk, IInv, TypeOK, Sids
<1>5. PICK x : x = AnswerTo(r, "ok", r.user, sids + 1, NoCookies)
    OBVIOUS
<1>6. IsAnswer(x, r, "ok", r.user, sids + 1)
    BY <1>4, <1>5, AnswerIs
<1>7. /\ x \in Request /\ x.kind = r.kind /\ x.pc = "answered" /\ x.cookies.sid = 0 /\ x.user = r.user
      /\ x.status = "ok" /\ x.sid = sids + 1 /\ x.since = r.since
    BY <1>6 DEF IsAnswer
<1>8. reqs' = [reqs EXCEPT !["session"] = x]
    BY <1>1, <1>5 DEF ServeSignIn, Answer, AnswerTo
<1>9. \A t \in Slots : reqs'[t] = IF t = "session" THEN x ELSE reqs[t]
    BY <1>8 DEF IInv, TypeOK
<1>10. sids' = sids + 1 /\ sessions' = [sessions EXCEPT ![sids + 1] = [user |-> r.user, live |-> TRUE]]
    BY <1>1 DEF ServeSignIn
<1>11. sessions \in [Sids -> Session] /\ [user |-> r.user, live |-> TRUE] \in Session
    BY <1>4 DEF IInv, TypeOK, Session
<1>12. \A i \in Sids : sessions'[i] = IF i = sids + 1 THEN [user |-> r.user, live |-> TRUE] ELSE sessions[i]
    BY <1>10, <1>11
<1>13. \A i \in 1..sids : sessions'[i] = sessions[i]
    BY <1>4, <1>12, BoundsAssumption DEF Sids
<1>14. TypeOK'
    <2>1. reqs' \in [Slots -> Request] /\ sessions' \in [Sids -> Session] /\ sids' \in 0..MaxSid
        BY <1>4, <1>7, <1>8, <1>10, <1>11 DEF IInv, TypeOK
    <2>2. QED BY <2>1 DEF IInv, TypeOK, Still
<1>15. ASSUME NEW t \in Slots, t # "session" PROVE SlotOk(t, reqs[t])'
    <2>1. Around(t)
        BY <1>4, <1>10, <1>13, <1>15, BoundsAssumption DEF Around, Still, IInv, TypeOK
    <2>2. QED BY <1>9, <1>14, <1>15, <2>1, Kept DEF IInv
<1>16. SlotOk("session", x)'
    <2>1. x.cookies.sid <= sids' /\ x.sid <= sids' /\ x.since <= expiries'
        BY <1>3, <1>4, <1>7, <1>10, BoundsAssumption DEF KindOk, Still
    <2>2. KindOk("session", x)'
        BY <1>2, <1>7, <2>1 DEF KindOk
    <2>3. SignInOk(x)'
        BY <1>2, <1>3, <1>4, <1>7, <1>10, <1>12, BoundsAssumption DEF SignInOk, Still
    <2>4. QED BY <2>2, <2>3 DEF SlotOk
<1>17. Made'
    <2>1. sids' >= 1 /\ sessions'[1].user = Former /\ jar'.sid <= sids'
        BY <1>4, <1>10, <1>13, BoundsAssumption DEF IInv, Made, Still, TypeOK, Jar
    <2>2. ASSUME NEW i \in Sids PROVE IF i <= sids' THEN sessions'[i].user \in Users ELSE ~sessions'[i].live
        BY <1>4, <1>10, <1>12, BoundsAssumption DEF IInv, Made, Sids
    <2>3. QED BY <2>1, <2>2 DEF Made
<1>18. Guarded' /\ MeFirst'
    BY <1>1, <1>2, <1>9 DEF IInv, Guarded, MeFirst, Still
<1>19. Orderly'
    <2>1. jar.sid # 0 => sessions'[jar.sid].user = sessions[jar.sid].user
        BY <1>4, <1>13, BoundsAssumption DEF IInv, TypeOK, Jar, Made
    <2>2. QED BY <1>9, <2>1 DEF IInv, Orderly, Still, Is, Who
<1>20. QED BY <1>9, <1>14, <1>15, <1>16, <1>17, <1>18, <1>19 DEF IInv

(* The sessions when sid has ended. *)
Without(sid) == [i \in Sids |-> IF i = sid THEN [user |-> sessions[i].user, live |-> FALSE] ELSE sessions[i]]

LEMMA EndedOf ==
    ASSUME NEW U, NEW L, NEW s \in [user : U, live : L], NEW no
    PROVE  [s EXCEPT !.live = no] = [user |-> s.user, live |-> no]
OBVIOUS

LEMMA EndedIs ==
    ASSUME TypeOK, NEW i \in Sids
    PROVE  [sessions[i] EXCEPT !.live = FALSE] = [user |-> sessions[i].user, live |-> FALSE]
<1>1. sessions[i] \in Session
    BY DEF TypeOK
<1>2. sessions[i] \in [user : Users \cup {Nobody}, live : BOOLEAN]
    BY <1>1 DEF Session
<1>3. QED BY <1>2, EndedOf, Zenon

(* A session may end at any time. *)
LEMMA LessLive ==
    ASSUME IInv, NEW T, "me" \notin T, "session" \in T => reqs["session"].pc # "idle", NEW sid,
           reqs' \in [Slots -> Request], \A t \in Slots : t \notin T => reqs'[t] = reqs[t],
           \A t \in T : SlotOk(t, reqs[t])',
           sessions' = Without(sid),
           UNCHANGED <<sids, jar, auth, page, going, cached, expiries, moves, kicked, crossed>>,
           faults' \in 0..MaxFaults, faults <= faults'
    PROVE  IInv'
<1> USE Different
<1>2. \A i \in Sids : sessions'[i].user = sessions[i].user /\ (sessions'[i].live => sessions[i].live)
    BY DEF Without
<1>3. TypeOK'
    <2>1. \A i \in Sids : sessions[i] \in Session /\ [user |-> sessions[i].user, live |-> FALSE] \in Session
        BY DEF IInv, TypeOK, Session
    <2>2. sessions' \in [Sids -> Session]
        BY <2>1 DEF Without
    <2>3. QED BY <2>2 DEF IInv, TypeOK
<1>4. sids \in 0..MaxSid /\ jar.sid \in 0..MaxSid
    BY DEF IInv, TypeOK, Jar
<1>5. ASSUME NEW t \in Slots, t \notin T PROVE SlotOk(t, reqs[t])'
    <2>1. Around(t)
        BY <1>2, <1>4, BoundsAssumption DEF Around, Sids
    <2>2. QED BY <1>3, <1>5, <2>1, Kept DEF IInv
<1>6. Made'
    BY <1>2, <1>4, BoundsAssumption DEF IInv, Made, Sids
<1>7. Guarded' /\ MeFirst'
    BY DEF IInv, Guarded, MeFirst
<1>8. Orderly'
    <2>1. jar.sid # 0 => sessions'[jar.sid].user = sessions[jar.sid].user
        BY <1>2, <1>4, BoundsAssumption DEF Sids
    <2>2. QED BY <2>1 DEF IInv, Orderly, Is, Who
<1>9. QED BY <1>3, <1>5, <1>6, <1>7, <1>8 DEF IInv

LEMMA ServeLogoutHolds ==
    ASSUME IInv, Still, ServeLogout
    PROVE  IInv'
<1> USE Different
<1>1. PICK r \in Request : r = reqs["session"]
    BY DEF IInv, TypeOK
<1>2. r.kind = "logout" /\ r.pc = "sent" /\ SlotOk("session", r)
    BY <1>1 DEF IInv, ServeLogout
<1>3. KindOk("session", r) /\ 0 \in 0..MaxSid /\ sids \in Nat /\ faults \in 0..MaxFaults /\ faults \in Nat
    BY <1>2, BoundsAssumption DEF SlotOk, IInv, TypeOK
<1>4. PICK x : x = AnswerTo(r, "ok", Nobody, 0, NoCookies)
    OBVIOUS
<1>5. IsAnswer(x, r, "ok", Nobody, 0)
    BY <1>3, <1>4, AnswerIs
<1>6. /\ x \in Request /\ x.kind = "logout" /\ x.pc = "answered" /\ x.cookies.sid = 0
      /\ x.sid = 0 /\ x.since = r.since
    BY <1>2, <1>5 DEF IsAnswer
<1>7. reqs' = [reqs EXCEPT !["session"] = x] /\ sids' = sids
    BY <1>1, <1>4 DEF ServeLogout, Answer, AnswerTo
<1>8. reqs' \in [Slots -> Request] /\ \A t \in Slots : reqs'[t] = IF t = "session" THEN x ELSE reqs[t]
    BY <1>6, <1>7 DEF IInv, TypeOK
<1>9. PICK sid : sid = r.cookies.sid
    OBVIOUS
<1>10. \A i \in Sids : [sessions[i] EXCEPT !.live = FALSE] = [user |-> sessions[i].user, live |-> FALSE]
    BY EndedIs DEF IInv
<1>11. sessions' = Without(sid)
    BY <1>1, <1>9, <1>10 DEF ServeLogout, Without
<1>12. SlotOk("session", x)'
    BY <1>3, <1>6, <1>7 DEF SlotOk, KindOk, SignInOk, Still
<1>13. SlotOk("session", reqs["session"])'
    BY <1>8, <1>12
<1>14. PICK T : T = {"session"}
    OBVIOUS
<1>15. "me" \notin T /\ \A t \in T : SlotOk(t, reqs[t])'
    BY <1>13, <1>14
<1>16. reqs["session"].pc # "idle" /\ \A t \in Slots : t \notin T => reqs'[t] = reqs[t]
    BY <1>1, <1>2, <1>8, <1>14
<1>17. QED BY <1>3, <1>7, <1>8, <1>11, <1>15, <1>16, LessLive DEF Still

LEMMA EndHolds ==
    ASSUME IInv, NEW sid \in Sids, End(sid)
    PROVE  IInv'
<1>1. sessions' = Without(sid)
    <2>1. sessions' = [sessions EXCEPT ![sid] = [sessions[sid] EXCEPT !.live = FALSE]]
        BY DEF End
    <2>2. QED BY <2>1, EndedIs DEF Without, IInv, TypeOK
<1>2. faults' \in 0..MaxFaults /\ faults <= faults' /\ reqs' \in [Slots -> Request]
    BY BoundsAssumption DEF End, IInv, TypeOK
<1>3. PICK T : T = {}
    OBVIOUS
<1>4. QED BY <1>1, <1>2, <1>3, LessLive DEF End

(* The router *)
LEMMA RouteHolds ==
    ASSUME IInv, Arrive \/ \E p \in Pages : Visit(p)
    PROVE  IInv'
<1>1. /\ UNCHANGED <<sessions, sids, jar, auth, cached, reqs, expiries, faults, kicked, crossed>>
      /\ moves' \in 0..MaxMoves /\ page' \in Pages /\ going' \in Pages \cup {"none"}
    BY BoundsAssumption DEF IInv, TypeOK, Arrive, Visit, Move, Effects, Pages
<1>2. TypeOK'
    BY <1>1 DEF IInv, TypeOK
<1>3. ASSUME NEW t \in Slots PROVE SlotOk(t, reqs[t])'
    <2>1. Around(t)
        BY <1>1, BoundsAssumption DEF Around, IInv, TypeOK
    <2>2. QED BY <1>1, <1>2, <2>1, Kept DEF IInv
<1>4. Made' /\ MeFirst' /\ Orderly'
    BY <1>1 DEF IInv, Made, MeFirst, Orderly, Is, Who
<1>5. Guarded'
    BY <1>1 DEF IInv, TypeOK, Guarded, Arrive, Visit, Effects, Public, Protected, Pages
<1>6. QED BY <1>2, <1>3, <1>4, <1>5 DEF IInv

--------------------------------------------------------------------------------
(* The access token ends *)

WithCookies(r, c) == [r EXCEPT !.cookies = c]

LEMMA CookiesOf ==
    ASSUME NEW B, NEW r \in RequestOf(B), NEW c \in Jar, NEW x, x = WithCookies(r, c)
    PROVE  /\ x \in RequestOf(B) /\ x.cookies = c
           /\ x.kind = r.kind /\ x.pc = r.pc /\ x.user = r.user /\ x.status = r.status
           /\ x.sid = r.sid /\ x.since = r.since /\ x.retried = r.retried /\ x.orphan = r.orphan
           /\ c = r.cookies => x = r
BY DEF RequestOf, WithCookies

(* x is r, but for its cookies. *)
IsCarrying(x, r, c) ==
    /\ x \in Request /\ x.cookies = c
    /\ x.kind = r.kind /\ x.pc = r.pc /\ x.user = r.user /\ x.status = r.status
    /\ x.sid = r.sid /\ x.since = r.since /\ x.retried = r.retried /\ x.orphan = r.orphan
    /\ c = r.cookies => x = r

LEMMA CookiesIs ==
    ASSUME NEW r \in Request, NEW c \in Jar
    PROVE  IsCarrying(WithCookies(r, c), r, c)
<1>1. r \in RequestOf(BOOLEAN)
    BY RequestIs, Zenon
<1>2. PICK x : x = WithCookies(r, c)
    OBVIOUS
<1>3. x \in RequestOf(BOOLEAN)
    BY <1>1, <1>2, CookiesOf, SMT
<1>4. /\ x.cookies = c
      /\ x.kind = r.kind /\ x.pc = r.pc /\ x.user = r.user /\ x.status = r.status
      /\ x.sid = r.sid /\ x.since = r.since /\ x.retried = r.retried /\ x.orphan = r.orphan
      /\ c = r.cookies => x = r
    BY <1>1, <1>2, CookiesOf, SMT
<1>5. x \in Request
    BY <1>3, RequestIs, Zenon
<1>6. IsCarrying(x, r, c)
    BY <1>4, <1>5 DEF IsCarrying
<1>7. QED BY <1>2, <1>6, Zenon

LEMMA AgedIs ==
    ASSUME NEW c \in Jar
    PROVE  Aged(c) \in Jar /\ Aged(c).sid = c.sid /\ (c.access = "none" => Aged(c) = c)
BY DEF Aged, Jar

LEMMA ExpireHolds ==
    ASSUME IInv, Expire
    PROVE  IInv'
<1> USE Different
<1>1. \A s \in Slots : reqs'[s] = WithCookies(reqs[s], Aged(reqs[s].cookies))
    BY DEF Expire, WithCookies
<1>2. \A s \in Slots : reqs[s] \in Request /\ reqs[s].cookies \in Jar
    BY DEF IInv, TypeOK, Request
<1>3. \A s \in Slots : IsCarrying(reqs'[s], reqs[s], Aged(reqs[s].cookies))
    BY <1>1, <1>2, CookiesIs, AgedIs
<1>4. /\ expiries \in Nat /\ expiries' = expiries + 1 /\ expiries' \in 0..MaxExpiry
      /\ jar' \in Jar /\ jar'.sid = jar.sid
    BY BoundsAssumption DEF IInv, TypeOK, Expire, Jar
<1>5. UNCHANGED <<sessions, sids, auth, page, going, cached, moves, faults, kicked, crossed>>
    BY DEF Expire
<1>6. TypeOK'
    <2>1. reqs' \in [Slots -> Request]
        BY <1>3 DEF Expire, IsCarrying
    <2>2. QED BY <1>4, <1>5, <2>1 DEF IInv, TypeOK
<1>7. ASSUME NEW s \in Slots PROVE SlotOk(s, reqs[s])'
    <2>1. PICK r \in Request, x \in Request : r = reqs[s] /\ x = reqs'[s]
        BY <1>2, <1>3 DEF IsCarrying
    <2>2. /\ SlotOk(s, r) /\ x.kind = r.kind /\ x.pc = r.pc /\ x.user = r.user /\ x.status = r.status /\ x.sid = r.sid
          /\ x.since = r.since /\ x.retried = r.retried /\ x.orphan = r.orphan /\ x.cookies.sid = r.cookies.sid
          /\ r.cookies.access = "none" => x = r
        BY <1>2, <1>3, <2>1, AgedIs DEF IsCarrying, IInv
    <2>3. r.since \in Nat /\ r.since <= expiries /\ r.cookies.sid \in Nat /\ r.sid \in Nat /\ sids \in Nat
        BY <2>1, <2>2, SidsOk DEF IInv, SlotOk, KindOk
    <2>4. KindOk(s, x)'
        BY <1>4, <1>5, <2>2, <2>3, IdleIs DEF SlotOk, KindOk
    <2>5. s = "me" => MeOk(x)'
        BY <1>5, <2>2 DEF SlotOk, MeOk, Is
    <2>6. s = "session" => SignInOk(x)'
        BY <1>5, <2>2 DEF SlotOk, SignInOk
    <2>7. s = "refresh" => RefreshOk(x)'
        BY <1>4, <1>5, <2>2 DEF SlotOk, RefreshOk, Is, Who, Live
    <2>8. s \in Data => DataOk(x)'
        BY <1>4, <1>5, <2>2, <2>3 DEF SlotOk, DataOk, Is
    <2>9. QED BY <2>1, <2>4, <2>5, <2>6, <2>7, <2>8 DEF SlotOk
<1>8. reqs'["me"].pc = reqs["me"].pc /\ reqs'["session"].pc = reqs["session"].pc
    BY <1>3 DEF IsCarrying
<1>9. Made' /\ Guarded' /\ MeFirst' /\ Orderly'
    BY <1>4, <1>5, <1>8 DEF IInv, Made, Guarded, MeFirst, Orderly, Is, Who
<1>10. QED BY <1>6, <1>7, <1>9 DEF IInv

--------------------------------------------------------------------------------
(* Answers that change the user of the tab *)

LEMMA AuthIs ==
    /\ \A u \in Users : SetUser(u) \in Auth /\ SetUser(u).status = "authenticated" /\ SetUser(u).user = u
                        /\ SetUser(u).reason = "none"
    /\ \A w \in {"anonymous", "logout"} :
           SetGuest(w) \in Auth /\ SetGuest(w).status = "guest" /\ SetGuest(w).user = Nobody /\ SetGuest(w).reason = w
BY DEF SetUser, SetGuest, Auth

LEMMA BecomeIs ==
    ASSUME TypeOK, Guarded, NEW a \in Auth, NEW g \in Pages \cup {"none"}, Become(a, g), g = going \/ g # "none"
    PROVE  /\ auth' = a /\ going' \in Pages \cup {"none"}
           /\ page = "login" /\ a.status = "authenticated" => going' # "none"
BY DEF TypeOK, Guarded, Become, Effects, Public, Protected, Pages

(* The slot of an answer is idle again. *)
LEMMA IdleOk ==
    ASSUME TypeOK', NEW s \in Slots, reqs'[s] = Idle
    PROVE  SlotOk(s, reqs[s])'
<1>1. PICK x : x = Idle
    OBVIOUS
<1>2. sids' \in Nat /\ expiries' \in Nat
    BY BoundsAssumption DEF TypeOK
<1>3. SlotOk(s, x)'
    BY <1>1, <1>2, IdleIs, Different DEF SlotOk, KindOk, MeOk, SignInOk, RefreshOk, DataOk
<1>4. QED BY <1>1, <1>3

LEMMA MeAnsweredHolds ==
    ASSUME IInv, MeAnswered
    PROVE  IInv'
<1> USE Different
<1>1. PICK r \in Request : r = reqs["me"]
    BY DEF IInv, TypeOK
<1>2. r.kind = "me" /\ r.pc = "answered" /\ MeOk(r)
    BY <1>1 DEF IInv, SlotOk, MeAnswered, Answered
<1>3. jar' = jar /\ UNCHANGED <<sessions, sids, page, expiries, moves, faults, cached, kicked, crossed>>
    BY <1>1, <1>2 DEF MeAnswered, Answered, Cookies
<1>4. /\ reqs' \in [Slots -> Request]
      /\ \A t \in Slots : reqs'[t] = IF t = "me" THEN Idle ELSE reqs[t]
    BY IdleIs DEF MeAnswered, Done, IInv, TypeOK
<1>5. \/ auth' = auth /\ going' = going /\ crossed
      \/ /\ auth'.status = "authenticated" /\ auth'.user = r.user /\ r.user \in Users /\ auth'.reason = "none"
         /\ ~crossed /\ ~kicked => r.user = Former
      \/ auth'.status = "guest" /\ auth'.user = Nobody /\ auth'.reason = "anonymous"
    <2>1. CASE r.orphan
        BY <1>1, <1>2, <2>1 DEF MeAnswered, MeOk
    <2>2. CASE ~r.orphan /\ r.status = "ok"
        <3>1. Become(SetUser(r.user), going)
            BY <1>1, <2>2 DEF MeAnswered
        <3>2. QED BY <1>2, <2>2, <3>1, AuthIs DEF MeOk, Become
    <2>3. CASE ~r.orphan /\ r.status # "ok"
        <3>1. Become(SetGuest("anonymous"), going)
            BY <1>1, <2>3 DEF MeAnswered
        <3>2. QED BY <3>1, AuthIs DEF Become
    <2>4. QED BY <2>1, <2>2, <2>3
<1>6. /\ auth' \in Auth /\ going' \in Pages \cup {"none"}
      /\ page = "login" /\ auth'.status = "authenticated" => going' # "none"
    <2>1. CASE r.orphan
        BY <1>1, <2>1 DEF MeAnswered, IInv, TypeOK, Guarded
    <2>2. CASE ~r.orphan /\ r.status = "ok"
        <3>1. Become(SetUser(r.user), going) /\ SetUser(r.user) \in Auth
            BY <1>1, <1>2, <2>2, AuthIs DEF MeAnswered, MeOk
        <3>2. QED BY <3>1, BecomeIs DEF IInv, TypeOK
    <2>3. CASE ~r.orphan /\ r.status # "ok"
        <3>1. Become(SetGuest("anonymous"), going) /\ SetGuest("anonymous") \in Auth
            BY <1>1, <2>3, AuthIs DEF MeAnswered
        <3>2. QED BY <3>1, BecomeIs DEF IInv, TypeOK
    <2>4. QED BY <2>1, <2>2, <2>3
<1>7. TypeOK'
    BY <1>3, <1>4, <1>5, <1>6 DEF IInv, TypeOK
<1>8. ~crossed => /\ reqs["session"].pc = "idle" /\ auth.user = Nobody
                  /\ ~kicked => auth.status = "loading" /\ Who = Former
    BY <1>1, <1>2 DEF IInv, MeFirst, Orderly, MeOk, Who
<1>9. ~crossed /\ ~kicked /\ auth'.status # "guest" => Who' = Former
    BY <1>5 DEF Who
<1>10. ASSUME NEW t \in Slots, t # "me" PROVE SlotOk(t, reqs[t])'
    <2>1. PICK q \in Request : q = reqs[t]
        BY DEF IInv, TypeOK
    <2>2. SlotOk(t, q) /\ reqs'[t] = q
        BY <1>4, <1>10, <2>1 DEF IInv
    <2>3. KindOk(t, q)'
        BY <1>3, <2>2 DEF SlotOk, KindOk
    <2>4. t = "session" => SignInOk(q)'
        BY <1>3, <1>8, <2>1, <2>2 DEF SlotOk, SignInOk, KindOk
    <2>5. t = "refresh" => RefreshOk(q)'
        BY <1>3, <1>8, <1>9, <2>2 DEF SlotOk, RefreshOk, Is, Live
    <2>6. t \in Data => DataOk(q)'
        BY <1>3, <1>8, <2>2 DEF SlotOk, DataOk, Live
    <2>7. QED BY <1>10, <2>2, <2>3, <2>4, <2>5, <2>6 DEF SlotOk
<1>11. SlotOk("me", reqs["me"])'
    BY <1>4, <1>7, IdleOk
<1>12. Made' /\ Guarded' /\ MeFirst'
    BY <1>3, <1>4, <1>6, IdleIs DEF IInv, Made, Guarded, MeFirst
<1>13. Orderly'
    <2>1. SUFFICES ASSUME ~crossed, ~kicked
                   PROVE  /\ auth'.status # "loading"
                          /\ auth'.status # "guest" => Is(Who, jar.sid)'
                          /\ cached' \in {Nobody, auth'.user}
        BY <1>3, <1>4, IdleIs DEF Orderly
    <2>2. Is(Former, jar.sid) /\ cached = Nobody
        BY <1>8, <2>1 DEF IInv, Orderly
    <2>3. QED BY <1>3, <1>5, <1>9, <2>1, <2>2 DEF Is
<1>14. QED BY <1>7, <1>10, <1>11, <1>12, <1>13 DEF IInv

LEMMA SignedInHolds ==
    ASSUME IInv, NEW kind \in {"login", "register"}, SignedIn(kind)
    PROVE  IInv'
<1> USE Different
<1>1. PICK r \in Request : r = reqs["session"]
    BY DEF IInv, TypeOK
<1>2. r.kind = kind /\ r.pc = "answered" /\ SignInOk(r) /\ KindOk("session", r)
    BY <1>1 DEF IInv, SlotOk, SignedIn, Answered
<1>3. /\ UNCHANGED <<sessions, sids, page, expiries, moves, faults, cached, kicked>>
      /\ crossed' = (crossed \/ reqs["refresh"].pc # "idle") /\ crossed' \in BOOLEAN
    BY DEF SignedIn, Answered
<1>4. jar' = IF r.status = "ok" THEN [sid |-> r.sid, access |-> "valid"] ELSE jar
    BY <1>1, <1>2 DEF SignedIn, Answered, Cookies
<1>5. /\ reqs' \in [Slots -> Request]
      /\ \A t \in Slots : reqs'[t] = IF t = "session" THEN Idle ELSE reqs[t]
    BY IdleIs DEF SignedIn, Done, IInv, TypeOK
<1>6. /\ jar' \in Jar /\ jar'.sid <= sids
      /\ r.status # "ok" => jar'.sid = jar.sid
      /\ r.status = "ok" => Is(r.user, jar'.sid)
    <2>1. r.sid \in 0..MaxSid /\ r.sid <= sids
        BY <1>2 DEF KindOk, Request
    <2>2. CASE r.status = "ok"
        BY <1>2, <1>4, <2>1, <2>2 DEF Jar, SignInOk, Is
    <2>3. CASE r.status # "ok"
        BY <1>4, <2>3 DEF IInv, TypeOK, Made
    <2>4. QED BY <2>2, <2>3
<1>7. /\ r.status # "ok" => auth' = auth
      /\ r.status = "ok" => /\ auth'.status = "authenticated" /\ auth'.user = r.user /\ r.user \in Users
                            /\ auth'.reason = "none"
      /\ auth' \in Auth /\ going' \in Pages \cup {"none"}
      /\ page = "login" /\ auth'.status = "authenticated" => going' # "none"
    <2>1. CASE r.status = "ok"
        <3>1. Become(SetUser(r.user), "dashboard") /\ SetUser(r.user) \in Auth /\ r.user \in Users
            BY <1>1, <1>2, <2>1, AuthIs DEF SignedIn, SignInOk
        <3>2. "dashboard" \in Pages \cup {"none"}
            BY DEF Pages
        <3>3. QED BY <2>1, <3>1, <3>2, AuthIs, BecomeIs DEF IInv
    <2>2. CASE r.status # "ok"
        BY <1>1, <2>2 DEF SignedIn, IInv, TypeOK, Guarded
    <2>3. QED BY <2>1, <2>2
<1>8. TypeOK'
    BY <1>3, <1>5, <1>6, <1>7 DEF IInv, TypeOK
<1>9. /\ ~crossed' => ~crossed /\ reqs["me"].pc = "idle" /\ reqs["refresh"].pc = "idle"
      /\ ~crossed' /\ ~kicked => auth.status = "guest" /\ auth.user = Nobody /\ cached = Nobody
    BY <1>1, <1>2, <1>3 DEF IInv, TypeOK, MeFirst, Orderly, SignInOk
<1>10. ASSUME NEW t \in Slots, t # "session" PROVE SlotOk(t, reqs[t])'
    <2>1. PICK q \in Request : q = reqs[t]
        BY DEF IInv, TypeOK
    <2>2. SlotOk(t, q) /\ reqs'[t] = q
        BY <1>5, <1>10, <2>1 DEF IInv
    <2>3. KindOk(t, q)'
        BY <1>3, <2>2 DEF SlotOk, KindOk
    <2>4. t = "me" => MeOk(q)'
        BY <1>3, <1>9, <2>1, <2>2 DEF SlotOk, MeOk
    <2>5. t = "refresh" => RefreshOk(q)'
        BY <1>9, <2>1, <2>2 DEF SlotOk, RefreshOk
    <2>6. t \in Data => DataOk(q)'
        BY <1>3, <1>9, <2>2 DEF SlotOk, DataOk, Live
    <2>7. QED BY <1>10, <2>2, <2>3, <2>4, <2>5, <2>6 DEF SlotOk
<1>11. SlotOk("session", reqs["session"])'
    BY <1>5, <1>8, IdleOk
<1>12. Made' /\ Guarded' /\ MeFirst'
    BY <1>3, <1>5, <1>6, <1>7, IdleIs DEF IInv, Made, Guarded, MeFirst
<1>13. Orderly'
    <2>1. SUFFICES ASSUME ~crossed', ~kicked
                   PROVE  /\ reqs'["me"].pc # "idle" <=> auth'.status = "loading"
                          /\ auth'.status # "guest" => Is(Who, jar.sid)'
                          /\ cached' \in {Nobody, auth'.user}
        BY <1>3 DEF Orderly
    <2>2. reqs'["me"].pc = "idle" /\ cached' = Nobody /\ auth'.status # "loading"
        BY <1>3, <1>5, <1>7, <1>9, <2>1
    <2>3. auth'.status # "guest" => Is(Who, jar.sid)'
        BY <1>3, <1>6, <1>7, <1>9, <2>1 DEF Is, Who
    <2>4. QED BY <2>2, <2>3
<1>14. QED BY <1>8, <1>10, <1>11, <1>12, <1>13 DEF IInv

--------------------------------------------------------------------------------
(* A logout leaves the queries under way without a place. *)

WithOrphan(r, b) == [r EXCEPT !.orphan = b]

LEMMA OrphanOf ==
    ASSUME NEW B, NEW r \in RequestOf(B), NEW b \in B, NEW x, x = WithOrphan(r, b)
    PROVE  /\ x \in RequestOf(B) /\ x.orphan = b
           /\ x.kind = r.kind /\ x.pc = r.pc /\ x.user = r.user /\ x.status = r.status /\ x.cookies = r.cookies
           /\ x.sid = r.sid /\ x.since = r.since /\ x.retried = r.retried
BY DEF RequestOf, WithOrphan

(* x is r, without a place. *)
IsOrphan(x, r) ==
    /\ x \in Request /\ x.orphan
    /\ x.kind = r.kind /\ x.pc = r.pc /\ x.user = r.user /\ x.status = r.status /\ x.cookies = r.cookies
    /\ x.sid = r.sid /\ x.since = r.since /\ x.retried = r.retried

LEMMA OrphanIs ==
    ASSUME NEW r \in Request
    PROVE  IsOrphan(WithOrphan(r, TRUE), r)
<1>1. r \in RequestOf(BOOLEAN)
    BY RequestIs, Zenon
<1>2. PICK b \in BOOLEAN : b
    OBVIOUS
<1>3. PICK x : x = WithOrphan(r, b)
    OBVIOUS
<1>4. x \in RequestOf(BOOLEAN)
    BY <1>1, <1>3, OrphanOf, SMT
<1>5. /\ x.orphan = b
      /\ x.kind = r.kind /\ x.pc = r.pc /\ x.user = r.user /\ x.status = r.status /\ x.cookies = r.cookies
      /\ x.sid = r.sid /\ x.since = r.since /\ x.retried = r.retried
    BY <1>1, <1>3, OrphanOf, SMT
<1>6. x \in Request
    BY <1>4, RequestIs, Zenon
<1>7. IsOrphan(x, r)
    BY <1>2, <1>5, <1>6 DEF IsOrphan
<1>8. b = TRUE
    BY <1>2
<1>9. QED BY <1>3, <1>7, <1>8, Zenon

LEMMA LoggedOutHolds ==
    ASSUME IInv, LoggedOut
    PROVE  IInv'
<1> USE Different
<1>1. PICK r \in Request : r = reqs["session"]
    BY DEF IInv, TypeOK
<1>2. r.kind = "logout" /\ r.pc = "answered"
    BY <1>1 DEF LoggedOut, Answered
<1>3. /\ UNCHANGED <<sessions, sids, page, expiries, moves, faults, crossed>>
      /\ cached' = Nobody /\ kicked' = FALSE
      /\ \A t \in Slots : reqs'[t] = IF t = "session" THEN Idle
                                     ELSE IF reqs[t].kind \in {"me", "list"} THEN WithOrphan(reqs[t], TRUE)
                                     ELSE reqs[t]
    BY DEF LoggedOut, Answered, WithOrphan
<1>4. jar' \in {jar, NoCookies} /\ jar' \in Jar /\ jar'.sid \in {jar.sid, 0}
    BY <1>1, <1>2, BoundsAssumption DEF LoggedOut, Answered, Cookies, IInv, TypeOK, NoCookies, Jar
<1>5. /\ auth'.status = "guest" /\ auth'.user = Nobody /\ auth'.reason = "logout"
      /\ auth' \in Auth /\ going' \in Pages \cup {"none"}
    <2>1. Become(SetGuest("logout"), "home") /\ SetGuest("logout") \in Auth
        BY AuthIs DEF LoggedOut
    <2>2. "home" \in Pages \cup {"none"}
        BY DEF Pages
    <2>3. QED BY <2>1, <2>2, AuthIs, BecomeIs DEF IInv
<1>6. ASSUME NEW t \in Slots, t # "session"
      PROVE  IF reqs[t].kind \in {"me", "list"} THEN IsOrphan(reqs'[t], reqs[t]) ELSE reqs'[t] = reqs[t]
    BY <1>3, <1>6, OrphanIs DEF IInv, TypeOK
<1>7. TypeOK'
    <2>1. \A t \in Slots : reqs'[t] \in Request
        BY <1>3, <1>6, IdleIs DEF IsOrphan, IInv, TypeOK
    <2>2. reqs' \in [Slots -> Request]
        BY <2>1 DEF LoggedOut
    <2>3. QED BY <1>3, <1>4, <1>5, <2>2 DEF IInv, TypeOK
<1>8. ~crossed => reqs["me"].pc = "idle"
    BY <1>1, <1>2 DEF IInv, MeFirst
<1>9. ASSUME NEW t \in Slots, t # "session" PROVE SlotOk(t, reqs[t])'
    <2>1. PICK q \in Request, x \in Request : q = reqs[t] /\ x = reqs'[t]
        BY <1>7 DEF IInv, TypeOK
    <2>2. SlotOk(t, q) /\ IF q.kind \in {"me", "list"} THEN IsOrphan(x, q) ELSE x = q
        BY <1>6, <1>9, <2>1 DEF IInv
    <2>3. /\ x.kind = q.kind /\ x.pc = q.pc /\ x.user = q.user /\ x.status = q.status /\ x.cookies = q.cookies
          /\ x.sid = q.sid /\ x.since = q.since /\ x.retried = q.retried
          /\ q.kind = "list" => x.orphan
          /\ q.kind \notin {"me", "list"} => x = q
        BY <2>2 DEF IsOrphan
    <2>4. KindOk(t, x)'
        BY <1>3, <2>2, <2>3, IdleIs DEF SlotOk, KindOk
    <2>5. t = "me" => MeOk(x)'
        BY <1>3, <1>8, <2>1, <2>2, <2>3 DEF SlotOk, MeOk
    <2>6. t = "refresh" => RefreshOk(x)'
        BY <1>3, <1>4, <1>5, <2>2, <2>3 DEF SlotOk, RefreshOk, Live
    <2>7. t \in Data => DataOk(x)'
        BY <1>3, <2>2, <2>3 DEF SlotOk, DataOk, Live
    <2>8. QED BY <1>9, <2>1, <2>4, <2>5, <2>6, <2>7 DEF SlotOk
<1>10. reqs'["session"] = Idle /\ reqs'["me"].pc = reqs["me"].pc
    BY <1>3, <1>6 DEF IsOrphan
<1>11. SlotOk("session", reqs["session"])'
    BY <1>7, <1>10, IdleOk
<1>12. Made' /\ Guarded' /\ MeFirst'
    BY <1>3, <1>4, <1>5, <1>10, IdleIs, BoundsAssumption DEF IInv, TypeOK, Made, Guarded, MeFirst
<1>13. Orderly'
    BY <1>3, <1>5, <1>8, <1>10 DEF Orderly
<1>14. QED BY <1>7, <1>9, <1>11, <1>12, <1>13 DEF IInv

--------------------------------------------------------------------------------
(* Waiting for a refresh *)

Wait(r, yes) == [r EXCEPT !.pc = "waiting", !.retried = yes]

LEMMA WaitOf ==
    ASSUME NEW B, NEW r \in RequestOf(B), NEW yes \in B, NEW x, x = Wait(r, yes)
    PROVE  /\ x \in RequestOf(B) /\ x.pc = "waiting"
           /\ x.kind = r.kind /\ x.user = r.user /\ x.status = r.status /\ x.cookies = r.cookies
           /\ x.sid = r.sid /\ x.since = r.since /\ x.orphan = r.orphan
BY DEF RequestOf, Wait

(* x is r, but waiting. *)
IsWaiting(x, r) ==
    /\ x \in Request /\ x.pc = "waiting"
    /\ x.kind = r.kind /\ x.user = r.user /\ x.status = r.status /\ x.cookies = r.cookies
    /\ x.sid = r.sid /\ x.since = r.since /\ x.orphan = r.orphan

LEMMA WaitIs ==
    ASSUME NEW r \in Request
    PROVE  IsWaiting(Wait(r, TRUE), r)
<1>1. r \in RequestOf(BOOLEAN)
    BY RequestIs, Zenon
<1>2. PICK yes \in BOOLEAN : yes = TRUE
    OBVIOUS
<1>3. PICK x : x = Wait(r, yes)
    OBVIOUS
<1>4. x \in RequestOf(BOOLEAN)
    BY <1>1, <1>3, WaitOf, SMT
<1>5. /\ x.pc = "waiting"
      /\ x.kind = r.kind /\ x.user = r.user /\ x.status = r.status /\ x.cookies = r.cookies
      /\ x.sid = r.sid /\ x.since = r.since /\ x.orphan = r.orphan
    BY <1>1, <1>3, WaitOf, SMT
<1>6. x \in Request
    BY <1>4, RequestIs, Zenon
<1>7. IsWaiting(x, r)
    BY <1>5, <1>6 DEF IsWaiting
<1>8. QED BY <1>2, <1>3, <1>7, Zenon

LEMMA RefusedHolds ==
    ASSUME IInv, NEW d \in Data, Refused(d)
    PROVE  IInv'
<1> USE Different
<1>1. PICK r \in Request, q \in Request : r = reqs[d] /\ q = reqs["refresh"]
    BY DEF IInv, TypeOK
<1>2. /\ r.kind \in {"list", "create"} /\ r.pc = "answered" /\ r.status = "401"
      /\ KindOk(d, r) /\ DataOk(r) /\ KindOk("refresh", q)
    BY <1>1 DEF Refused, Answered, IInv, SlotOk
<1>3. jar' = jar
    BY <1>1, <1>2 DEF Refused, Answered, Cookies
<1>4. UNCHANGED <<sessions, sids, auth, page, going, cached, expiries, moves, faults, kicked, crossed>>
    BY DEF Refused, Answered
<1>5. PICK x : x = Wait(r, TRUE)
    OBVIOUS
<1>6. IsWaiting(x, r)
    BY <1>5, WaitIs, Zenon
<1>7. PICK z : z = Sent("refresh", Nobody)
    OBVIOUS
<1>8. /\ z \in Request /\ z.kind = "refresh" /\ z.pc = "sent" /\ z.cookies = jar /\ z.sid = 0 /\ z.since = expiries
    BY <1>7, SentIs DEF IInv
<1>9. \A t \in Slots : reqs'[t] = IF t = d THEN x
                                  ELSE IF t = "refresh" /\ q.pc = "idle" THEN z ELSE reqs[t]
    <2>1. reqs' = [reqs EXCEPT ![d] = x, !["refresh"] = IF q.pc = "idle" THEN z ELSE q]
        BY <1>1, <1>5, <1>7 DEF Refused, Wait, IInv, TypeOK
    <2>2. QED BY <1>1, <2>1 DEF IInv, TypeOK
<1>10. TypeOK'
    <2>1. reqs' \in [Slots -> Request]
        BY <1>6, <1>8, <1>9 DEF Refused, IsWaiting, IInv, TypeOK
    <2>2. QED BY <1>3, <1>4, <2>1 DEF IInv, TypeOK
<1>11. sids \in Nat /\ jar.sid <= sids /\ expiries \in Nat /\ faults \in Nat
    BY BoundsAssumption DEF IInv, TypeOK, Made
<1>12. SlotOk(d, x)'
    <2>1. KindOk(d, x)'
        BY <1>2, <1>4, <1>6 DEF KindOk, IsWaiting
    <2>2. DataOk(x)'
        BY <1>2, <1>4, <1>6 DEF DataOk, IsWaiting, Is
    <2>3. QED BY <2>1, <2>2 DEF SlotOk
<1>13. SlotOk("refresh", z)'
    <2>1. KindOk("refresh", z)'
        BY <1>4, <1>8, <1>11 DEF KindOk
    <2>2. ~crossed /\ ~kicked /\ auth.status # "guest" => Is(Who, jar.sid)
        BY DEF IInv, Orderly
    <2>3. RefreshOk(z)'
        BY <1>3, <1>4, <1>8, <2>2 DEF RefreshOk, Is, Who
    <2>4. QED BY <2>1, <2>3 DEF SlotOk
<1>14. ASSUME NEW t \in Slots, reqs'[t] = reqs[t] PROVE SlotOk(t, reqs[t])'
    <2>1. Around(t)
        BY <1>3, <1>4, <1>11 DEF Around
    <2>2. QED BY <1>10, <1>14, <2>1, Kept DEF IInv
<1>15. \A t \in Slots : SlotOk(t, reqs[t])'
    BY <1>9, <1>12, <1>13, <1>14
<1>16. reqs'["me"] = reqs["me"] /\ reqs'["session"] = reqs["session"]
    BY <1>9
<1>17. Made' /\ Guarded' /\ MeFirst' /\ Orderly'
    BY <1>3, <1>4, <1>16 DEF IInv, Made, Guarded, MeFirst, Orderly, Is, Who
<1>18. QED BY <1>10, <1>15, <1>17 DEF IInv

--------------------------------------------------------------------------------
(* The end of a refresh *)

Resend(r, c, status, sid) == [r EXCEPT !.pc = "sent", !.cookies = c, !.status = status, !.sid = sid]

LEMMA ResendOf ==
    ASSUME NEW B, NEW r \in RequestOf(B), NEW c \in Jar, NEW status \in {"none", "ok"}, NEW sid \in 0..MaxSid,
           NEW x, x = Resend(r, c, status, sid)
    PROVE  /\ x \in RequestOf(B) /\ x.pc = "sent" /\ x.cookies = c /\ x.status = status /\ x.sid = sid
           /\ x.kind = r.kind /\ x.user = r.user /\ x.since = r.since /\ x.orphan = r.orphan /\ x.retried = r.retried
BY BoundsAssumption DEF RequestOf, Resend

(* x is r, sent again with cookies c. *)
IsResent(x, r, c) ==
    /\ x \in Request /\ x.pc = "sent" /\ x.cookies = c /\ x.status = "none" /\ x.sid = 0
    /\ x.kind = r.kind /\ x.user = r.user /\ x.since = r.since /\ x.orphan = r.orphan /\ x.retried = r.retried

LEMMA ResendIs ==
    ASSUME NEW r \in Request, NEW c \in Jar
    PROVE  IsResent(Resend(r, c, "none", 0), r, c)
<1>1. r \in RequestOf(BOOLEAN) /\ 0 \in 0..MaxSid
    BY RequestIs, BoundsAssumption
<1>2. PICK x : x = Resend(r, c, "none", 0)
    OBVIOUS
<1>3. x \in RequestOf(BOOLEAN)
    BY <1>1, <1>2, ResendOf, SMT
<1>4. /\ x.pc = "sent" /\ x.cookies = c /\ x.status = "none" /\ x.sid = 0
      /\ x.kind = r.kind /\ x.user = r.user /\ x.since = r.since /\ x.orphan = r.orphan /\ x.retried = r.retried
    BY <1>1, <1>2, ResendOf, SMT
<1>5. x \in Request
    BY <1>3, RequestIs, Zenon
<1>6. IsResent(x, r, c)
    BY <1>4, <1>5 DEF IsResent
<1>7. QED BY <1>2, <1>6, Zenon

LEMMA RefreshedHolds ==
    ASSUME IInv, Refreshed
    PROVE  IInv'
<1> USE Different
<1>1. PICK r \in Request : r = reqs["refresh"]
    BY DEF IInv, TypeOK
<1>2. r.pc = "answered" /\ r.kind = "refresh" /\ RefreshOk(r) /\ KindOk("refresh", r)
    BY <1>1 DEF Refreshed, Answered, IInv, SlotOk
<1>3. UNCHANGED <<sessions, sids, page, expiries, moves, faults, cached, crossed>>
    BY DEF Refreshed, Answered
<1>4. sids \in 0..MaxSid /\ sids \in Nat /\ expiries \in Nat /\ r.sid \in 0..MaxSid /\ r.sid <= sids
    BY <1>2, BoundsAssumption DEF IInv, TypeOK, KindOk, Request
<1>5. \A t \in Slots : /\ reqs[t] \in Request /\ SlotOk(t, reqs[t])
                       /\ reqs[t].pc = "waiting" => t \in Data
    BY DEF IInv, TypeOK, SlotOk, KindOk
<1>6. CASE r.status = "ok"
    <2>1. jar' = [sid |-> r.sid, access |-> "valid"] /\ UNCHANGED <<auth, going, kicked>>
        BY <1>1, <1>2, <1>6 DEF Refreshed, Answered, Cookies
    <2>2. PICK c \in Jar : c = jar' /\ c.sid = r.sid /\ c.access = "valid"
        BY <1>4, <2>1 DEF Jar
    <2>3. \A t \in Slots : reqs'[t] = IF t = "refresh" THEN Idle
                                      ELSE IF reqs[t].pc = "waiting" THEN Resend(reqs[t], c, "none", 0)
                                      ELSE reqs[t]
        BY <1>1, <1>6, <2>2 DEF Refreshed, Resend
    <2>4. \A t \in Slots : t # "refresh" /\ reqs[t].pc = "waiting" => IsResent(reqs'[t], reqs[t], c)
        BY <1>5, <2>3, ResendIs
    <2>5. TypeOK'
        <3>1. \A t \in Slots : reqs'[t] \in Request
            BY <1>5, <2>3, <2>4, IdleIs DEF IsResent
        <3>2. reqs' \in [Slots -> Request]
            BY <1>1, <1>6, <3>1 DEF Refreshed
        <3>3. QED BY <1>3, <2>1, <2>2, <3>2 DEF IInv, TypeOK
    <2>6. ~crossed /\ ~kicked /\ auth.status # "guest" => Is(Who, r.sid)
        BY <1>2 DEF RefreshOk
    <2>7. ASSUME NEW t \in Slots, t # "refresh", reqs[t].pc # "waiting" PROVE SlotOk(t, reqs[t])'
        <3>1. reqs'[t] = reqs[t]
            BY <2>3, <2>7
        <3>2. Around(t)
            BY <1>3, <1>4, <2>1, <2>7, BoundsAssumption DEF Around, IInv, TypeOK
        <3>3. QED BY <1>5, <2>5, <3>1, <3>2, Kept DEF IInv
    <2>8. ASSUME NEW t \in Data, reqs[t].pc = "waiting" PROVE SlotOk(t, reqs[t])'
        <3>1. PICK q \in Request, x \in Request : q = reqs[t] /\ x = reqs'[t]
            BY <2>5, <1>5 DEF TypeOK
        <3>2. IsResent(x, q, c) /\ KindOk(t, q) /\ DataOk(q) /\ q.pc = "waiting"
            BY <1>5, <2>4, <2>8, <3>1 DEF SlotOk
        <3>3. KindOk(t, x)'
            BY <1>3, <1>4, <2>2, <3>2 DEF KindOk, IsResent
        <3>4. q.kind = "list" /\ ~crossed /\ ~kicked /\ ~q.orphan
                  => auth.status = "authenticated" /\ Is(auth.user, c.sid)
            BY <2>2, <2>6, <3>2 DEF DataOk, Who
        <3>5. DataOk(x)'
            BY <1>3, <2>1, <2>2, <3>2, <3>4 DEF DataOk, IsResent, Is
        <3>6. QED BY <3>1, <3>3, <3>5 DEF SlotOk
    <2>9. SlotOk("refresh", reqs["refresh"])'
        BY <2>3, <2>5, IdleOk
    <2>10. \A t \in Slots : SlotOk(t, reqs[t])'
        BY <1>5, <2>7, <2>8, <2>9
    <2>11. reqs'["me"] = reqs["me"] /\ reqs'["session"] = reqs["session"]
        BY <1>5, <2>3
    <2>12. Made' /\ Guarded' /\ MeFirst'
        BY <1>3, <1>4, <2>1, <2>2, <2>11 DEF IInv, Made, Guarded, MeFirst
    <2>13. Orderly'
        BY <1>3, <2>1, <2>2, <2>6, <2>11 DEF IInv, Orderly, Is, Who
    <2>14. QED BY <2>5, <2>10, <2>12, <2>13 DEF IInv
<1>7. CASE r.status # "ok"
    <2>1. /\ jar' \in {jar, NoCookies} /\ jar' \in Jar /\ jar'.sid \in {jar.sid, 0}
          /\ kicked' = TRUE
        BY <1>1, <1>2, <1>7, BoundsAssumption DEF Refreshed, Answered, Cookies, IInv, TypeOK, NoCookies, Jar
    <2>2. /\ auth'.status = "guest" /\ auth'.user = Nobody /\ auth'.reason = "anonymous"
          /\ auth' \in Auth /\ going' \in Pages \cup {"none"}
        <3>1. Become(SetGuest("anonymous"), going) /\ SetGuest("anonymous") \in Auth
            BY <1>1, <1>7, AuthIs DEF Refreshed
        <3>2. QED BY <3>1, AuthIs, BecomeIs DEF IInv, TypeOK
    <2>3. \A t \in Slots : reqs'[t] = IF t = "refresh" \/ reqs[t].pc = "waiting" THEN Idle ELSE reqs[t]
        BY <1>1, <1>7 DEF Refreshed
    <2>4. TypeOK'
        <3>1. \A t \in Slots : reqs'[t] \in Request
            BY <1>5, <2>3, IdleIs
        <3>2. reqs' \in [Slots -> Request]
            BY <1>1, <1>7, <3>1 DEF Refreshed
        <3>3. QED BY <1>3, <2>1, <2>2, <3>2 DEF IInv, TypeOK
    <2>5. ASSUME NEW t \in Slots, reqs'[t] # Idle PROVE SlotOk(t, reqs[t])'
        <3>1. PICK q \in Request : q = reqs[t] /\ q = reqs'[t] /\ t # "refresh"
            BY <1>5, <2>3, <2>5
        <3>2. SlotOk(t, q)
            BY <1>5, <3>1
        <3>3. KindOk(t, q)'
            BY <1>3, <3>2 DEF SlotOk, KindOk
        <3>4. t = "me" => MeOk(q)'
            BY <1>3, <2>1, <2>2, <3>2 DEF SlotOk, MeOk
        <3>5. t = "session" => SignInOk(q)'
            BY <1>3, <2>1, <3>2 DEF SlotOk, SignInOk
        <3>6. t \in Data => DataOk(q)'
            BY <1>3, <2>1, <3>2 DEF SlotOk, DataOk, Live
        <3>7. QED BY <3>1, <3>3, <3>4, <3>5, <3>6 DEF SlotOk
    <2>6. \A t \in Slots : SlotOk(t, reqs[t])'
        BY <2>4, <2>5, IdleOk
    <2>7. reqs'["me"] = reqs["me"] /\ reqs'["session"] = reqs["session"]
        BY <1>5, <2>3
    <2>8. Made' /\ Guarded' /\ MeFirst'
        BY <1>3, <1>4, <2>1, <2>2, <2>7 DEF IInv, TypeOK, Made, Guarded, MeFirst
    <2>9. Orderly'
        BY <2>1 DEF Orderly
    <2>10. QED BY <2>4, <2>6, <2>8, <2>9 DEF IInv
<1>8. QED BY <1>6, <1>7

--------------------------------------------------------------------------------
(* Every step *)

LEMMA Start == Init => IInv
<1> SUFFICES ASSUME Init PROVE IInv
    OBVIOUS
<1> USE Different
<1>1. /\ sids = 1 /\ 1 \in 0..MaxSid /\ 1 \in Sids /\ 0 \in 0..MaxExpiry /\ 0 \in 0..MaxMoves /\ 0 \in 0..MaxFaults
      /\ jar \in Jar /\ jar.sid \in {0, 1} /\ expiries = 0 /\ faults = 0 /\ moves = 0
    BY BoundsAssumption DEF Init, Sids, Jar
<1>2. sessions \in [Sids -> Session]
    BY DEF Init, Session
<1>3. sessions[1].user = Former /\ \A i \in Sids : IF i <= 1 THEN sessions[i].user \in Users ELSE ~sessions[i].live
    <2>1. \A i \in Sids : sessions[i] = IF i = 1 THEN [user |-> Former, live |-> TRUE]
                                          ELSE [user |-> Nobody, live |-> FALSE]
        BY DEF Init
    <2>2. \A i \in Sids : i <= 1 <=> i = 1
        BY BoundsAssumption DEF Sids
    <2>3. QED BY <1>1, <2>1, <2>2
<1>4. PICK z : z = Sent("me", Nobody)
    OBVIOUS
<1>5. /\ z \in Request /\ z.kind = "me" /\ z.pc = "sent" /\ z.cookies = jar /\ z.status = "none" /\ z.sid = 0
      /\ z.since = 0 /\ ~z.orphan
    BY <1>1, <1>4, BoundsAssumption DEF Sent, Request
<1>6. reqs \in [Slots -> Request] /\ \A s \in Slots : reqs[s] = IF s = "me" THEN z ELSE Idle
    BY <1>4, <1>5, IdleIs DEF Init
<1>7. /\ auth \in Auth /\ auth.status = "loading" /\ auth.user = Nobody /\ auth.reason = "none"
      /\ page \in Pages /\ page # "login" /\ going = "none" /\ cached = Nobody /\ kicked = FALSE /\ crossed = FALSE
    BY DEF Init, Loading, Auth
<1>8. TypeOK
    BY <1>1, <1>2, <1>6, <1>7 DEF TypeOK
<1>9. SlotOk("me", z)
    BY <1>1, <1>3, <1>5, <1>7 DEF SlotOk, KindOk, MeOk, Is
<1>10. ASSUME NEW s \in Slots, s # "me" PROVE SlotOk(s, Idle)
    BY <1>1, <1>10, IdleIs DEF SlotOk, KindOk, SignInOk, RefreshOk, DataOk
<1>11. \A s \in Slots : SlotOk(s, reqs[s])
    BY <1>6, <1>9, <1>10
<1>12. Made /\ Guarded /\ MeFirst /\ Orderly
    BY <1>1, <1>3, <1>5, <1>6, <1>7, IdleIs DEF Made, Guarded, MeFirst, Orderly, Is, Who
<1>13. QED BY <1>8, <1>11, <1>12 DEF IInv

LEMMA Step ==
    ASSUME IInv, [Next]_vars
    PROVE  IInv'
<1>1. CASE Asking
    <2>1. CASE \E p \in Pages : Visit(p)
        BY <2>1, RouteHolds
    <2>2. CASE ~\E p \in Pages : Visit(p)
        BY <1>1, <2>2, AskingHolds
    <2>3. QED BY <2>1, <2>2
<1>2. CASE Serve
    <2>1. Still
        BY <1>2 DEF Serve, Still
    <2>2. QED BY <1>2, <2>1, ServedHolds, ServeSignInHolds, ServeLogoutHolds DEF Serve
<1>3. CASE Handle
    BY <1>3, MeAnsweredHolds, SignedInHolds, LoggedOutHolds, RefreshedHolds, RefusedHolds, EndedHolds
       DEF Handle, LoggedIn, Registered
<1>4. CASE Arrive
    BY <1>4, RouteHolds
<1>5. CASE Expire
    BY <1>5, ExpireHolds
<1>6. ASSUME NEW s \in Slots, Fail(s) PROVE IInv'
    BY <1>6, FailHolds
<1>7. ASSUME NEW sid \in Sids, End(sid) PROVE IInv'
    BY <1>7, EndHolds
<1>8. CASE UNCHANGED vars
    BY <1>8 DEF vars, IInv, TypeOK, Made, Guarded, MeFirst, Orderly, SlotOk, KindOk, MeOk, SignInOk, RefreshOk,
                DataOk, Is, Who, Live
<1>9. QED BY <1>1, <1>2, <1>3, <1>4, <1>5, <1>6, <1>7, <1>8 DEF Next

LEMMA Always == Spec => []IInv
BY Start, Step, PTL DEF Spec

(* The state of the tab is well-formed, and its user, its pages and the server's  *)
(* sessions are what their types say (useAuthStore, api.ts).                      *)
THEOREM TypeCorrect == Spec => []TypeOK
<1>1. IInv => TypeOK
    BY DEF IInv
<1>2. QED BY <1>1, Always, PTL

(* useLogout() clears the query cache, and an answer of the links that comes after *)
(* finds no place in it: in a history in which no refresh has failed its user out  *)
(* since the last logout (~kicked), and no login has crossed the answer of         *)
(* /auth/me or of a refresh (~crossed), the links in the cache are those of the    *)
(* user who is logged in.  In the histories left out they may be another user's.   *)
THEOREM CacheIsOnesOwn == Spec => []NothingOfOthers
<1>1. IInv => NothingOfOthers
    BY DEF IInv, Orderly, NothingOfOthers
<1>2. QED BY <1>1, Always, PTL

--------------------------------------------------------------------------------
(* A live session serves *)

(* A refresh that is not answered "ok" finds that the session is over. *)
LEMMA RefreshSays ==
    ASSUME IInv, faults = 0, ~crossed, Answered("refresh", {"refresh"}), reqs["refresh"].status # "ok"
    PROVE  ~Live(jar.sid)
<1>1. PICK r \in Request : r = reqs["refresh"]
    BY Different DEF IInv, TypeOK
<1>2. r.pc = "answered" /\ RefreshOk(r)
    BY <1>1, Different DEF Answered, IInv, SlotOk
<1>3. jar.sid \in {0, r.sid} /\ ~Live(r.sid)
    BY <1>1, <1>2 DEF RefreshOk
<1>4. QED BY <1>3 DEF Live

(* Who may become a guest, but for a logout. *)
LEMMA GuestsAreMade ==
    ASSUME IInv, Next, ~crossed, auth' # auth
    PROVE  \/ auth.status # "authenticated"
           \/ auth'.status = "authenticated"
           \/ auth'.reason = "logout"
           \/ Answered("refresh", {"refresh"}) /\ reqs["refresh"].status # "ok"
<1> USE Different
<1>1. CASE MeAnswered
    <2>1. auth.user = Nobody
        BY <1>1 DEF MeAnswered, Answered, IInv, SlotOk, MeOk
    <2>2. QED BY <2>1 DEF IInv, TypeOK
<1>2. ASSUME NEW kind \in {"login", "register"}, SignedIn(kind) PROVE auth'.status = "authenticated"
    BY <1>2 DEF SignedIn, Become, SetUser
<1>3. CASE LoggedOut
    BY <1>3, AuthIs DEF LoggedOut, Become
<1>4. CASE Refreshed
    BY <1>4 DEF Refreshed
<1>5. MeAnswered \/ LoggedOut \/ Refreshed \/ LoggedIn \/ Registered
    BY DEF Next, Asking, AskList, AskCreate, AskData, AskLogin, AskRegister, AskLogout, Ask, Visit, Serve, Handle,
           Refused, Rejected, Listed, Created, Arrive, Expire, Fail, End
<1>6. QED BY <1>1, <1>2, <1>3, <1>4, <1>5 DEF LoggedIn, Registered

(* What ends the promise of a request of links. *)
LEMMA PromisesEnd ==
    ASSUME IInv, Next, NEW d \in Data, reqs[d].pc # "idle", reqs'[d].pc = "idle"
    PROVE  \/ Rejected(d) \/ Listed(d) \/ Created(d)
           \/ Answered("refresh", {"refresh"}) /\ reqs["refresh"].status # "ok"
<1> USE Different
<1>1. /\ reqs \in [Slots -> Request] /\ reqs[d] \in Request
      /\ reqs' # reqs /\ reqs'[d] # reqs[d]
    BY DEF IInv, TypeOK
<1>2. ASSUME NEW s \in Slots, NEW kind, NEW u, Ask(s, kind, u) PROVE FALSE
    <2>1. reqs[s].pc = "idle" /\ reqs' = [reqs EXCEPT ![s] = Sent(kind, u)]
        BY <1>2 DEF Ask
    <2>2. QED BY <1>1, <2>1
<1>3. ASSUME NEW s \in Slots, NEW status, NEW u, NEW sid, Answer(s, status, u, sid) PROVE FALSE
    <2>1. reqs'[d] = IF d = s THEN AnswerTo(reqs[s], status, u, sid, NoCookies) ELSE reqs[d]
        BY <1>1, <1>3 DEF Answer, AnswerTo
    <2>2. AnswerTo(reqs[d], status, u, sid, NoCookies).pc = "answered"
        BY <1>1 DEF AnswerTo, Request
    <2>3. QED BY <1>1, <2>1, <2>2
<1>4. ~Asking
    BY <1>1, <1>2 DEF Asking, AskList, AskCreate, AskData, AskLogin, AskRegister, AskLogout, Visit
<1>5. ~Serve /\ \A s \in Slots : ~Fail(s)
    BY <1>3 DEF Serve, ServeData, ServeSignIn, ServeLogout, ServeRefresh, Fail
<1>6. ~Arrive /\ \A sid \in Sids : ~End(sid)
    BY <1>1 DEF Arrive, End
<1>7. ~Expire
    BY <1>1 DEF Expire, Request
<1>8. ~MeAnswered /\ ~LoggedIn /\ ~Registered
    BY <1>1 DEF MeAnswered, LoggedIn, Registered, SignedIn, Done
<1>9. ~LoggedOut
    BY <1>1 DEF LoggedOut, Request
<1>10. ASSUME NEW e \in Data, Refused(e) PROVE FALSE
    BY <1>1, <1>10 DEF Refused, Request
<1>11. ASSUME NEW e \in Data, Rejected(e) \/ Listed(e) \/ Created(e) PROVE e = d
    BY <1>1, <1>11 DEF Rejected, Listed, Created, Done
<1>12. ASSUME Refreshed PROVE Answered("refresh", {"refresh"}) /\ reqs["refresh"].status # "ok"
    <2>1. reqs["refresh"].status = "ok"
              => reqs'[d] = IF reqs[d].pc = "waiting" THEN Resend(reqs[d], jar', "none", 0) ELSE reqs[d]
        BY <1>12 DEF Refreshed, Resend
    <2>2. Resend(reqs[d], jar', "none", 0).pc = "sent"
        BY <1>1 DEF Resend, Request
    <2>3. QED BY <1>1, <1>12, <2>1, <2>2 DEF Refreshed
<1>13. QED BY <1>4, <1>5, <1>6, <1>7, <1>8, <1>9, <1>10, <1>11, <1>12 DEF Next, Handle

(* "Every concurrent 401 waits on the same refresh" (api.ts): while nothing fails   *)
(* and no login crosses another answer, a tab whose session lives does not make its *)
(* user a guest, and none of its requests fails with a 401 unless its token ends    *)
(* under way, in whatever order the answers of the requests and of the refresh come. *)
THEOREM LiveSessionsServe == Spec => LiveSessionServes
<1>1. ASSUME IInv, [Next]_vars
      PROVE  [faults = 0 /\ ~crossed => ~MadeGuest /\ \A d \in Data : ~Fails401(d)]_vars
    <2>1. SUFFICES ASSUME Next, faults = 0, ~crossed PROVE ~MadeGuest /\ \A d \in Data : ~Fails401(d)
        BY <1>1
    <2>2. ~MadeGuest
        BY <1>1, <2>1, GuestsAreMade, RefreshSays DEF MadeGuest
    <2>3. ASSUME NEW d \in Data, Fails401(d) PROVE FALSE
        <3>1. PICK r \in Request : r = reqs[d]
            BY <1>1, Different DEF IInv, TypeOK
        <3>2. /\ r.status = "401" /\ r.since = expiries /\ Live(r.sid) /\ Live(jar.sid)
              /\ reqs[d].pc # "idle" /\ reqs'[d].pc = "idle"
            BY <2>3, <3>1 DEF Fails401
        <3>3. Rejected(d)
            BY <1>1, <2>1, <3>1, <3>2, PromisesEnd, RefreshSays DEF Listed, Created
        <3>4. r.retried /\ r.pc = "answered"
            BY <3>1, <3>2, <3>3 DEF Rejected, Answered
        <3>5. DataOk(r)
            BY <1>1, <3>1, Different DEF IInv, SlotOk
        <3>6. QED BY <3>2, <3>4, <3>5 DEF DataOk
    <2>4. QED BY <2>2, <2>3
<1>2. QED BY <1>1, Always, PTL DEF Spec, LiveSessionServes

--------------------------------------------------------------------------------
(* The links: types *)

(* The links that have been written, and the mutations that have yet to be. *)
Born      == {c \in Code : links[c].ver > 0}
Updates   == {"status", "expiresAt"}
Unwritten == {m \in muts : m.pc = "sent"}

(* A page lists what was written, and each delete took one from its total. *)
PageOk(d) == d \in Page /\ d.total >= -ops /\ DOMAIN d.urls \subseteq Born

(* A query is of its key's type, and so is what its fetch has read. *)
QueryOk(k, q) ==
    /\ q \in Query(k)
    /\ k \in Lists => /\ q.data # NoData => PageOk(q.data)
                      /\ q.fetch.pc = "paged" => DOMAIN q.fetch.urls \subseteq Born
                      /\ q.fetch.pc = "answered" => PageOk(q.fetch.data)
    /\ k \in Details => /\ q.data # NoData => k[2] \in Born
                        /\ q.fetch.pc # "paged"
                        /\ q.fetch.pc = "answered" => q.fetch.data = NoData \/ k[2] \in Born

(* A mutation is of a link that was written; only a PATCH is read back. *)
MutOk(m) ==
    /\ m \in Mut
    /\ m.kind # "create" => m.code \in Born
    /\ m.pc = "written" => m.kind \in Updates
    /\ m.kind \in Updates /\ m.pc = "done" => m.ver > 0
    /\ \A k \in Lists : m.snapshot[k] # NoData => PageOk(m.snapshot[k])

(* Each write is one of the mutations that were asked for. *)
Table ==
    /\ links \in [Code -> Link]
    /\ \A c \in Code : Exists(c) => c \in Born
    /\ \A c \in Code : links[c].ver + Cardinality(Unwritten) <= ops + 1
    /\ IsFiniteSet(muts)
    /\ \A m \in muts : MutOk(m)
    /\ ops \in 0..MaxOps

(* The inductive form of LinksTypeOK. *)
Typed ==
    /\ Table
    /\ DOMAIN cache = Key /\ \A k \in Key : QueryOk(k, cache[k])
    /\ screen \in Key /\ excused \subseteq Key
    /\ turns \in 0..MaxTurns /\ losses \in 0..MaxLosses

(* The two kinds of keys. *)
LEMMA KeysDiffer ==
    /\ <<"list", 1>> \in Lists /\ Key = Lists \cup Details /\ Lists \cap Details = {}
    /\ \A k \in Lists : k[2] \in ListPages /\ k[2] \in Nat \ {0}
    /\ \A k \in Details : k[2] \in Code /\ k = <<"detail", k[2]>>
    /\ \A c \in Code : <<"detail", c>> \in Details /\ <<"detail", c>>[2] = c
BY PagesAssumption DEF Lists, Details, Key

LEMMA CodesFinite == IsFiniteSet(Code) /\ Cardinality(Code) = MaxCode
BY LinksAssumption, FS_Interval, SMT DEF Code

LEMMA UrlsIs ==
    ASSUME NEW S \in SUBSET Code, NEW f, f = [c \in S |-> f[c]], \A c \in S : f[c] \in 1..MaxOps + 1
    PROVE  f \in Urls
<1>1. f \in [S -> 1..MaxOps + 1]
    OBVIOUS
<1>2. QED BY <1>1 DEF Urls

LEMMA UrlsAre ==
    ASSUME NEW f \in Urls
    PROVE  DOMAIN f \subseteq Code /\ \A c \in DOMAIN f : f[c] \in 1..MaxOps + 1
BY DEF Urls

(* What the API answers about a page, and about a link. *)
LEMMA PageOfIs ==
    ASSUME Table, NEW p
    PROVE  PageOf(p) \in Urls /\ DOMAIN PageOf(p) \subseteq {c \in Code : Exists(c)}
<1>1. PICK S \in SUBSET Code : S = {d \in Code : Exists(d) /\ Cardinality(Newer(d)) \div Limit = p - 1}
    OBVIOUS
<1>2. PageOf(p) = [c \in S |-> links[c].ver]
    BY <1>1 DEF PageOf
<1>3. \A c \in S : links[c].ver \in 1..MaxOps + 1
    BY <1>1, LinksAssumption DEF Table, Born, Link
<1>4. PICK f : f = [c \in S |-> links[c].ver]
    OBVIOUS
<1>5. f \in Urls
    BY <1>3, <1>4, UrlsIs
<1>6. DOMAIN PageOf(p) = S
    BY <1>2
<1>7. QED BY <1>1, <1>2, <1>4, <1>5, <1>6

LEMMA CountIs == CountAll \in 0..MaxCode
<1>1. {c \in Code : Exists(c)} \in SUBSET Code
    OBVIOUS
<1>2. QED BY <1>1, CodesFinite, FS_Subset, FS_CardinalityType, LinksAssumption, SMT DEF CountAll

LEMMA PageReadIs ==
    ASSUME Table, NEW p \in Nat, NEW urls \in Urls, DOMAIN urls \subseteq Born
    PROVE  PageOk(WithTotal(p, urls)) /\ WithTotal(p, urls).urls = urls
<1>1. PICK n \in 0..MaxCode : n = CountAll
    BY CountIs
<1>2. (p * Limit < n) \in BOOLEAN
    OBVIOUS
<1>3. PICK b \in BOOLEAN : b = (p * Limit < n)
    BY <1>2
<1>4. WithTotal(p, urls) = [urls |-> urls, total |-> n, hasMore |-> b]
    BY <1>1, <1>3 DEF WithTotal
<1>5. ops \in Nat /\ n \in Total /\ n >= -ops
    BY LinksAssumption DEF Table, Total
<1>6. QED BY <1>4, <1>5 DEF PageOk, Page

LEMMA PagesReal == \A d : PageOk(d) => d \in Page /\ d # NoData
BY NoDataAssumption DEF PageOk

LEMMA FetchIs ==
    ASSUME NEW k, NEW f \in Fetch(k)
    PROVE  /\ f.pc \in {"none", "asked", "paged", "answered"}
           /\ f.pc = "none" => f = NoFetch
           /\ f.pc = "asked" => f = Asked
           /\ f.pc = "paged" => f.urls \in Urls
           /\ f.pc = "answered" => f.data \in Answers(k)
BY DEF Fetch, NoFetch, Asked

LEMMA FetchesAre ==
    ASSUME NEW k
    PROVE  /\ NoFetch \in Fetch(k) /\ NoFetch.pc = "none"
           /\ Asked \in Fetch(k) /\ Asked.pc = "asked"
           /\ \A u \in Urls : [pc |-> "paged", urls |-> u] \in Fetch(k)
           /\ \A d \in Answers(k) : [pc |-> "answered", data |-> d] \in Fetch(k)
BY DEF Fetch, NoFetch, Asked

LEMMA AnswersAre ==
    ASSUME NEW k \in Key
    PROVE  /\ NoData \in Answers(k)
           /\ k \in Lists => Answers(k) = Page \cup {NoData}
           /\ k \in Details => Answers(k) = Detail \cup {NoData}
BY KeysDiffer DEF Answers

(* A query with new data, flags or a new fetch. *)
LEMMA QueryIs ==
    ASSUME NEW k, NEW q \in Query(k)
    PROVE  q.data \in Answers(k) /\ q.invalid \in BOOLEAN /\ q.fetch \in Fetch(k)
           /\ q.error \in {"none", "failed", "missing"}
BY DEF Query

LEMMA WithFetchIs ==
    ASSUME NEW k, NEW q \in Query(k), NEW f \in Fetch(k), NEW x, x = [q EXCEPT !.fetch = f]
    PROVE  x \in Query(k) /\ x.data = q.data /\ x.invalid = q.invalid /\ x.fetch = f
BY DEF Query

LEMMA WithDataIs ==
    ASSUME NEW k, NEW q \in Query(k), NEW d \in Answers(k), NEW x, x = WithData(q, d)
    PROVE  x \in Query(k) /\ x.data = d /\ ~x.invalid /\ x.fetch = q.fetch
BY DEF Query, WithData

LEMMA RefetchedIs ==
    ASSUME NEW k, NEW q \in Query(k), NEW x, x = Refetched(q)
    PROVE  x \in Query(k) /\ x.data = q.data /\ x.invalid = q.invalid /\ x.fetch = Asked
BY FetchesAre DEF Query, Refetched

(* A fetch that ends without data. *)
Failed(q, e) == [q EXCEPT !.fetch = NoFetch, !.error = e, !.invalid = TRUE]

LEMMA FailedIs ==
    ASSUME NEW k, NEW q \in Query(k), NEW e \in {"failed", "missing"}, NEW x,
           x = Failed(q, e)
    PROVE  x \in Query(k) /\ x.data = q.data /\ x.invalid /\ x.fetch = NoFetch
BY FetchesAre DEF Query, Failed

LEMMA MarkedIs ==
    ASSUME NEW k, NEW q \in Query(k), NEW x, x = [q EXCEPT !.invalid = TRUE]
    PROVE  x \in Query(k) /\ x.data = q.data /\ x.invalid /\ x.fetch = q.fetch
BY DEF Query

LEMMA InvalidatedIs ==
    ASSUME NEW k, NEW q \in Query(k), NEW x, x = Invalidated(k, q)
    PROVE  /\ x \in Query(k) /\ x.data = q.data /\ x.invalid
           /\ x.fetch \in {q.fetch, Asked}
           /\ x.fetch.pc \notin {"none", "asked"} => Outlives(k, q)
<1>1. PICK y : y = [q EXCEPT !.invalid = TRUE]
    OBVIOUS
<1>2. y \in Query(k) /\ y.data = q.data /\ y.invalid /\ y.fetch = q.fetch
    BY <1>1, MarkedIs
<1>3. x = IF k # screen \/ (Fetching(q) /\ q.data = NoData) THEN y ELSE Refetched(y)
    BY <1>1 DEF Invalidated
<1>4. CASE k # screen \/ (Fetching(q) /\ q.data = NoData)
    BY <1>2, <1>3, <1>4 DEF Outlives
<1>5. CASE ~(k # screen \/ (Fetching(q) /\ q.data = NoData))
    BY <1>2, <1>3, <1>5, RefetchedIs, FetchesAre
<1>6. QED BY <1>4, <1>5

LEMMA EmptyIs ==
    ASSUME NEW k \in Key
    PROVE  Empty \in Query(k) /\ Empty.data = NoData /\ ~Empty.invalid /\ Empty.fetch = NoFetch
BY FetchesAre, AnswersAre DEF Query, Empty

(* What keeps a query well typed. *)
LEMMA NewFetchOk ==
    ASSUME NEW k \in Key, NEW q, QueryOk(k, q), NEW f \in Fetch(k), NEW x \in Query(k),
           x.data = q.data, x.fetch = f,
           k \in Lists => /\ f.pc = "paged" => DOMAIN f.urls \subseteq Born
                          /\ f.pc = "answered" => PageOk(f.data),
           k \in Details => /\ f.pc # "paged"
                            /\ f.pc = "answered" => f.data = NoData \/ k[2] \in Born
    PROVE  QueryOk(k, x)
BY DEF QueryOk

LEMMA NewDataOk ==
    ASSUME NEW k \in Key, NEW q, QueryOk(k, q), NEW x \in Query(k), x.fetch \in {q.fetch, NoFetch, Asked},
           k \in Lists => x.data = NoData \/ PageOk(x.data),
           k \in Details => x.data = NoData \/ k[2] \in Born
    PROVE  QueryOk(k, x)
BY FetchesAre DEF QueryOk

LEMMA QueryTyped == ASSUME NEW k, NEW q, QueryOk(k, q) PROVE q \in Query(k)
BY DEF QueryOk

LEMMA DataStays ==
    ASSUME NEW k \in Key, NEW q, QueryOk(k, q)
    PROVE  /\ k \in Lists => q.data = NoData \/ PageOk(q.data)
           /\ k \in Details => q.data = NoData \/ k[2] \in Born
BY DEF QueryOk

LEMMA QueryKept ==
    ASSUME Table, Table', NEW k \in Key, NEW q, QueryOk(k, q), ops <= ops', Born \subseteq Born'
    PROVE  QueryOk(k, q)'
<1>1. ops \in Int /\ ops' \in Int
    BY DEF Table
<1>2. \A d : PageOk(d) => PageOk(d)'
    <2>1. TAKE d
    <2>2. HAVE PageOk(d)
    <2>3. d.total \in Int /\ d.total >= -ops
        BY <2>2, LinksAssumption DEF PageOk, Page, Total
    <2>4. QED BY <1>1, <2>2, <2>3 DEF PageOk
<1>3. QED BY <1>2 DEF QueryOk

LEMMA MutKept ==
    ASSUME Table, ops' \in Int, NEW m, MutOk(m), ops <= ops', Born \subseteq Born'
    PROVE  MutOk(m)'
<1>1. ops \in Int
    BY DEF Table
<1>2. \A d : PageOk(d) => PageOk(d)'
    <2>1. TAKE d
    <2>2. HAVE PageOk(d)
    <2>3. d.total \in Int /\ d.total >= -ops
        BY <2>2, LinksAssumption DEF PageOk, Page, Total
    <2>4. QED BY <1>1, <2>2, <2>3 DEF PageOk
<1>3. QED BY <1>2 DEF MutOk

(* The cache after a step, when each of its queries is still sound. *)
LEMMA CacheStays ==
    ASSUME Typed, Table', ops <= ops', Born \subseteq Born', DOMAIN cache' = Key,
           \A k \in Key : QueryOk(k, cache'[k]),
           screen' \in Key, excused' \subseteq Key, turns' \in 0..MaxTurns, losses' \in 0..MaxLosses
    PROVE  Typed'
<1>1. ASSUME NEW k \in Key PROVE QueryOk(k, cache[k])'
    <2>1. PICK q : q = cache'[k]
        OBVIOUS
    <2>2. QueryOk(k, q)'
        BY <2>1, QueryKept DEF Typed
    <2>3. QED BY <2>1, <2>2 DEF QueryOk
<1>2. QED BY <1>1 DEF Typed, Key, Lists, Details

LEMMA TableStays ==
    ASSUME Table, links' = links, ops' = ops, muts' = muts
    PROVE  Table' /\ Born' = Born
BY DEF Table, Exists, Born, Unwritten, MutOk, PageOk

LEMMA OneQuery ==
    ASSUME Typed, links' = links, ops' = ops, muts' = muts,
           NEW k \in Key, NEW x, QueryOk(k, x), cache' = [cache EXCEPT ![k] = x],
           screen' \in Key, excused' \subseteq Key, turns' \in 0..MaxTurns, losses' \in 0..MaxLosses
    PROVE  Typed'
<1>1. Table' /\ Born' = Born /\ ops <= ops'
    BY TableStays DEF Typed, Table
<1>2. DOMAIN cache' = Key /\ \A e \in Key : QueryOk(e, cache'[e])
    BY DEF Typed
<1>3. QED BY <1>1, <1>2, CacheStays

(* The API answers, and the answer arrives. *)
LEMMA ReadPageTyped ==
    ASSUME Typed, NEW k \in Key, ReadPage(k)
    PROVE  Typed'
<1>1. Table /\ QueryOk(k, cache[k]) /\ k \in Lists
    BY DEF Typed, ReadPage
<1>2. PICK f : f = [pc |-> "paged", urls |-> PageOf(k[2])]
    OBVIOUS
<1>3. PICK x : x = [cache[k] EXCEPT !.fetch = f]
    OBVIOUS
<1>4. f \in Fetch(k) /\ f.pc = "paged" /\ f.urls = PageOf(k[2]) /\ DOMAIN f.urls \subseteq Born
    BY <1>1, <1>2, PageOfIs, FetchesAre DEF Table
<1>5. x \in Query(k) /\ x.data = cache[k].data /\ x.fetch = f
    BY <1>1, <1>3, <1>4, WithFetchIs, QueryTyped
<1>6. QueryOk(k, x)
    BY <1>1, <1>4, <1>5, NewFetchOk, KeysDiffer
<1>7. cache' = [cache EXCEPT ![k] = x]
    BY <1>2, <1>3 DEF ReadPage
<1>8. QED BY <1>6, <1>7, OneQuery DEF ReadPage, Typed

LEMMA ReadTotalTyped ==
    ASSUME Typed, NEW k \in Key, ReadTotal(k)
    PROVE  Typed'
<1>1. Table /\ QueryOk(k, cache[k]) /\ cache[k].fetch.pc = "paged" /\ k \in Lists
    BY KeysDiffer DEF Typed, ReadTotal, QueryOk
<1>2. PICK u : u = cache[k].fetch.urls
    OBVIOUS
<1>3. u \in Urls /\ DOMAIN u \subseteq Born
    BY <1>1, <1>2, FetchIs, QueryIs DEF QueryOk
<1>4. PICK d : d = WithTotal(k[2], u)
    OBVIOUS
<1>5. PageOk(d)
    BY <1>1, <1>3, <1>4, PageReadIs, KeysDiffer
<1>6. PICK f : f = [pc |-> "answered", data |-> d]
    OBVIOUS
<1>7. f \in Fetch(k) /\ f.pc = "answered" /\ f.data = d
    BY <1>1, <1>5, <1>6, FetchesAre, AnswersAre DEF PageOk
<1>8. PICK x : x = [cache[k] EXCEPT !.fetch = f]
    OBVIOUS
<1>9. x \in Query(k) /\ x.data = cache[k].data /\ x.fetch = f
    BY <1>1, <1>7, <1>8, WithFetchIs, QueryTyped
<1>10. QueryOk(k, x)
    BY <1>1, <1>5, <1>7, <1>9, NewFetchOk, KeysDiffer
<1>11. cache' = [cache EXCEPT ![k] = x]
    BY <1>2, <1>4, <1>6, <1>8 DEF ReadTotal
<1>12. QED BY <1>10, <1>11, OneQuery DEF ReadTotal, Typed

(* What getUrl() answers. *)
LEMMA DetailReadIs ==
    ASSUME Table, NEW c \in Code, NEW d, d = Server(<<"detail", c>>)
    PROVE  d \in Detail \cup {NoData} /\ (d # NoData => c \in Born)
<1>1. <<"detail", c>> \notin Lists
    BY KeysDiffer
<1>2. d = IF Exists(c) THEN [ver |-> links[c].ver] ELSE NoData
    BY <1>1 DEF Server
<1>3. Exists(c) => links[c].ver \in 1..MaxOps + 1 /\ c \in Born
    BY LinksAssumption DEF Table, Born, Link
<1>4. QED BY <1>2, <1>3 DEF Detail

LEMMA ReadDetailTyped ==
    ASSUME Typed, NEW k \in Key, ReadDetail(k)
    PROVE  Typed'
<1>1. Table /\ QueryOk(k, cache[k]) /\ k \in Details
    BY DEF Typed, ReadDetail
<1>2. PICK d : d = Server(k)
    OBVIOUS
<1>3. d \in Answers(k) /\ (d # NoData => k[2] \in Born)
    BY <1>1, <1>2, DetailReadIs, KeysDiffer, AnswersAre
<1>4. PICK f : f = [pc |-> "answered", data |-> d]
    OBVIOUS
<1>5. f \in Fetch(k) /\ f.pc = "answered" /\ f.data = d
    BY <1>3, <1>4, FetchesAre
<1>6. PICK x : x = [cache[k] EXCEPT !.fetch = f]
    OBVIOUS
<1>7. x \in Query(k) /\ x.data = cache[k].data /\ x.fetch = f
    BY <1>1, <1>5, <1>6, WithFetchIs, QueryTyped
<1>8. QueryOk(k, x)
    BY <1>1, <1>3, <1>5, <1>7, NewFetchOk, KeysDiffer
<1>9. cache' = [cache EXCEPT ![k] = x]
    BY <1>2, <1>4, <1>6 DEF ReadDetail
<1>10. QED BY <1>8, <1>9, OneQuery DEF ReadDetail, Typed

LEMMA FetchEndsTyped ==
    ASSUME Typed, NEW k \in Key, FetchEnds(k)
    PROVE  Typed'
<1>1. Table /\ QueryOk(k, cache[k]) /\ cache[k].fetch.pc = "answered"
    BY DEF Typed, FetchEnds
<1>0. cache[k] \in Query(k)
    BY <1>1, QueryTyped
<1>2. PICK d : d = cache[k].fetch.data
    OBVIOUS
<1>3. d \in Answers(k) /\ (k \in Lists => PageOk(d)) /\ (k \in Details => d = NoData \/ k[2] \in Born)
    BY <1>1, <1>2, FetchIs, QueryIs DEF QueryOk
<1>4. CASE d = NoData
    <2>1. PICK x : x = Failed(cache[k], "missing")
        OBVIOUS
    <2>2. x \in Query(k) /\ x.data = cache[k].data /\ x.fetch = NoFetch
        BY <1>0, <2>1, FailedIs
    <2>3. QueryOk(k, x)
        BY <1>1, <2>2, NewDataOk, DataStays
    <2>4. cache' = [cache EXCEPT ![k] = x]
        BY <1>2, <1>4, <2>1 DEF FetchEnds, Failed
    <2>5. excused' = excused
        BY <1>2, <1>4 DEF FetchEnds
    <2>6. QED BY <2>3, <2>4, <2>5, OneQuery DEF FetchEnds, Typed
<1>5. CASE d # NoData
    <2>1. PICK y : y = WithData(cache[k], d)
        OBVIOUS
    <2>2. y \in Query(k) /\ y.data = d
        BY <1>0, <1>3, <2>1, WithDataIs
    <2>3. PICK x : x = [y EXCEPT !.fetch = NoFetch]
        OBVIOUS
    <2>4. x \in Query(k) /\ x.data = d /\ x.fetch = NoFetch
        BY <2>2, <2>3, WithFetchIs, FetchesAre
    <2>5. QueryOk(k, x)
        BY <1>1, <1>3, <2>4, NewDataOk
    <2>6. cache' = [cache EXCEPT ![k] = x]
        BY <1>2, <1>5, <2>1, <2>3 DEF FetchEnds
    <2>7. excused' \subseteq Key
        BY <1>2, <1>5 DEF FetchEnds, Overtaken, Typed
    <2>8. QED BY <2>5, <2>6, <2>7, OneQuery DEF FetchEnds, Typed
<1>6. QED BY <1>4, <1>5

LEMMA FetchFailsTyped ==
    ASSUME Typed, NEW k \in Key, FetchFails(k)
    PROVE  Typed'
<1>1. Table /\ QueryOk(k, cache[k]) /\ losses' \in 0..MaxLosses
    BY LinksAssumption DEF Typed, FetchFails, Fault
<1>2. PICK x : x = Failed(cache[k], "failed")
    OBVIOUS
<1>3. x \in Query(k) /\ x.data = cache[k].data /\ x.fetch = NoFetch
    <2>1. cache[k] \in Query(k)
        BY <1>1, QueryTyped
    <2>2. QED BY <1>2, <2>1, FailedIs
<1>4. QueryOk(k, x)
    BY <1>1, <1>3, NewDataOk, DataStays
<1>5. cache' = [cache EXCEPT ![k] = x]
    BY <1>2 DEF FetchFails, Failed
<1>6. QED BY <1>1, <1>4, <1>5, OneQuery DEF FetchFails, Typed

LEMMA RetryTyped ==
    ASSUME Typed, Retry
    PROVE  Typed'
<1>1. Table /\ QueryOk(screen, cache[screen]) /\ turns' \in 0..MaxTurns /\ screen \in Key
    BY LinksAssumption DEF Typed, Retry, Turn
<1>2. PICK x : x = Refetched(cache[screen])
    OBVIOUS
<1>3. x \in Query(screen) /\ x.data = cache[screen].data /\ x.fetch = Asked
    BY <1>1, <1>2, RefetchedIs, QueryTyped
<1>4. QueryOk(screen, x)
    BY <1>1, <1>3, NewDataOk, DataStays
<1>5. cache' = [cache EXCEPT ![screen] = x]
    BY <1>2 DEF Retry
<1>6. excused' \subseteq Key
    BY DEF Retry, Typed
<1>7. QED BY <1>1, <1>4, <1>5, <1>6, OneQuery DEF Retry, Typed

(* A mutation that goes on. *)
Inserted(m, c) == [m EXCEPT !.pc = "done", !.code = c, !.ver = 1]
Read(m, v)    == [m EXCEPT !.pc = "done", !.ver = v]

LEMMA InsertedIs ==
    ASSUME NEW m \in Mut, NEW c \in 0..MaxCode, NEW x, x = Inserted(m, c)
    PROVE  x \in Mut /\ x.kind = m.kind /\ x.pc = "done" /\ x.code = c /\ x.snapshot = m.snapshot
<1>1. PICK v \in 0..MaxOps + 1 : v = 1
    BY LinksAssumption
<1>2. x = [m EXCEPT !.pc = "done", !.code = c, !.ver = v]
    BY <1>1 DEF Inserted
<1>3. QED BY <1>2 DEF Mut

LEMMA ReadIs ==
    ASSUME NEW m \in Mut, NEW v \in 0..MaxOps + 1, NEW x, x = Read(m, v)
    PROVE  x \in Mut /\ x.kind = m.kind /\ x.pc = "done" /\ x.code = m.code /\ x.ver = v /\ x.snapshot = m.snapshot
BY DEF Mut, Read

LEMMA NowIs ==
    ASSUME NEW m \in Mut, NEW p \in {"written", "done", "failed"}, NEW x, x = [m EXCEPT !.pc = p]
    PROVE  x \in Mut /\ x.kind = m.kind /\ x.pc = p /\ x.code = m.code /\ x.ver = m.ver /\ x.snapshot = m.snapshot
BY DEF Mut

LEMMA BecomesIs ==
    ASSUME Table, NEW m \in muts, NEW n, n.pc # "sent", Becomes(m, n)
    PROVE  /\ IsFiniteSet(muts') /\ Cardinality(Unwritten)' \in Nat /\ Cardinality(Unwritten) \in Nat
           /\ Cardinality(Unwritten)' <= Cardinality(Unwritten)
           /\ m.pc = "sent" => Cardinality(Unwritten)' = Cardinality(Unwritten) - 1
<1>1. Unwritten \in SUBSET muts
    BY DEF Unwritten
<1>2. IsFiniteSet(Unwritten) /\ IsFiniteSet(muts \ {m})
    BY <1>1, FS_Subset, FS_RemoveElement DEF Table
<1>3. IsFiniteSet(muts')
    BY <1>2, FS_AddElement DEF Becomes
<1>4. Unwritten' = Unwritten \ {m}
    BY DEF Unwritten, Becomes
<1>5. Cardinality(Unwritten)' = Cardinality(Unwritten \ {m})
    BY <1>4
<1>6. /\ Cardinality(Unwritten) \in Nat /\ Cardinality(Unwritten \ {m}) \in Nat
      /\ Cardinality(Unwritten \ {m}) = IF m \in Unwritten THEN Cardinality(Unwritten) - 1 ELSE Cardinality(Unwritten)
    BY <1>2, FS_RemoveElement, FS_CardinalityType
<1>7. m.pc = "sent" <=> m \in Unwritten
    BY DEF Unwritten
<1>8. QED BY <1>3, <1>5, <1>6, <1>7

(* A step that changes the table of links and one mutation alone. *)
LEMMA BecomesTyped ==
    ASSUME Typed, NEW m \in muts, NEW n, n.pc # "sent", Becomes(m, n), MutOk(n)',
           links' \in [Code -> Link], Born \subseteq Born', \A c \in Code : Exists(c)' => c \in Born',
           \A c \in Code : links'[c].ver \in {links[c].ver, IF m.pc = "sent" THEN links[c].ver + 1 ELSE links[c].ver},
           ops' = ops, cache' = cache, screen' = screen, turns' = turns, losses' \in 0..MaxLosses,
           excused' \subseteq Key
    PROVE  Typed'
<1>1. /\ IsFiniteSet(muts') /\ Cardinality(Unwritten)' \in Nat /\ Cardinality(Unwritten) \in Nat
      /\ Cardinality(Unwritten)' <= Cardinality(Unwritten)
      /\ m.pc = "sent" => Cardinality(Unwritten)' = Cardinality(Unwritten) - 1
    BY BecomesIs DEF Typed
<1>2. ASSUME NEW c \in Code PROVE links'[c].ver + Cardinality(Unwritten)' <= ops' + 1
    <2>1. /\ links[c].ver \in Nat /\ ops \in Nat
          /\ links[c].ver + Cardinality(Unwritten) <= ops + 1
        BY LinksAssumption DEF Typed, Table, Link
    <2>2. QED BY <1>1, <2>1
<1>3. ASSUME NEW x \in muts' PROVE MutOk(x)'
    <2>1. CASE x = n
        BY <2>1
    <2>2. CASE x # n
        <3>1. MutOk(x) /\ ops \in Int /\ ops <= ops'
            BY <2>2 DEF Becomes, Typed, Table
        <3>2. QED BY <3>1, MutKept DEF Typed
    <2>3. QED BY <2>1, <2>2
<1>4. Table'
    BY <1>1, <1>2, <1>3 DEF Table, Typed
<1>5. ops <= ops' /\ DOMAIN cache' = Key /\ \A k \in Key : QueryOk(k, cache'[k])
    BY DEF Typed, Table
<1>6. QED BY <1>4, <1>5, CacheStays DEF Typed

LEMMA BornAre == Table => \A c \in Code : links[c].ver \in Nat /\ (c \in Born <=> links[c].ver # 0)
BY LinksAssumption DEF Table, Born, Link

(* The mutation m of a sound table, and what it may become. *)
LEMMA GoesOnOk ==
    ASSUME Table, NEW m, MutOk(m), NEW p \in {"written", "done", "failed"}, NEW x, x = [m EXCEPT !.pc = p],
           p = "written" => m.kind \in Updates, m.kind \in Updates => p # "done"
    PROVE  MutOk(x) /\ x.pc = p
BY NowIs DEF MutOk, Updates

LEMMA KindsAre == \A m \in Mut : m.kind \in {"create", "delete"} \cup Updates
BY DEF Mut, Updates

LEMMA WriteTyped ==
    ASSUME Typed, NEW m \in muts, Write(m)
    PROVE  Typed'
<1>1. Table /\ MutOk(m) /\ m \in Mut /\ m.pc = "sent"
    BY DEF Typed, Table, MutOk, Write
<1>2. UNCHANGED <<cache, screen, ops, turns, losses, excused>>
    BY DEF Write
<1>0. ops \in Int /\ ops <= ops' /\ ops' \in Int
    BY <1>1, <1>2 DEF Table
<1>3. CASE m.kind = "create"
    <2>1. PICK c \in Code : /\ links[c].ver = 0
                            /\ links' = [links EXCEPT ![c] = [ver |-> 1, live |-> TRUE]]
                            /\ Becomes(m, Inserted(m, c))
        BY <1>3 DEF Write, Inserted
    <2>2. PICK x : x = Inserted(m, c)
        OBVIOUS
    <2>3. x \in Mut /\ x.kind = "create" /\ x.pc = "done" /\ x.snapshot = m.snapshot
        BY <1>1, <1>3, <2>2, InsertedIs, LinksAssumption DEF Code
    <2>4. MutOk(x)
        BY <1>1, <2>3 DEF MutOk, Updates
    <2>5. [ver |-> 1, live |-> TRUE] \in Link
        BY LinksAssumption DEF Link
    <2>6. links' \in [Code -> Link] /\ Born \subseteq Born'
        BY <1>1, <2>1, <2>5 DEF Table, Born
    <2>7. \A d \in Code : Exists(d)' => d \in Born'
        BY <1>1, <2>1 DEF Table, Born, Exists
    <2>8. \A d \in Code : links'[d].ver \in {links[d].ver, links[d].ver + 1}
        BY <1>1, <2>1 DEF Table
    <2>9. MutOk(x)'
        BY <1>0, <1>1, <2>4, <2>6, MutKept
    <2>10. QED BY <1>1, <1>2, <2>1, <2>2, <2>3, <2>6, <2>7, <2>8, <2>9, BecomesTyped DEF Typed
<1>4. CASE m.kind # "create" /\ ~Exists(m.code)
    <2>1. PICK x : x = [m EXCEPT !.pc = "failed"]
        OBVIOUS
    <2>2. links' = links /\ Becomes(m, x)
        BY <1>4, <2>1 DEF Write
    <2>3. MutOk(x) /\ x.pc = "failed"
        BY <1>1, <2>1, GoesOnOk
    <2>4. Born' = Born /\ \A d \in Code : Exists(d)' => d \in Born'
        BY <1>1, <2>2 DEF Table, Born, Exists
    <2>5. MutOk(x)'
        BY <1>0, <1>1, <2>3, <2>4, MutKept
    <2>6. links' \in [Code -> Link] /\ \A d \in Code : links'[d].ver = links[d].ver
        BY <1>1, <2>2 DEF Table
    <2>7. QED BY <1>1, <1>2, <2>2, <2>3, <2>4, <2>5, <2>6, BecomesTyped DEF Typed
<1>5. CASE m.kind # "create" /\ Exists(m.code)
    <2>1. PICK p \in {"done", "written"} : p = IF m.kind = "delete" THEN "done" ELSE "written"
        OBVIOUS
    <2>2. PICK x : x = [m EXCEPT !.pc = p]
        OBVIOUS
    <2>3. PICK b \in BOOLEAN : b = (m.kind # "delete")
        OBVIOUS
    <2>4. links' = [links EXCEPT ![m.code] = [ver |-> links[m.code].ver + 1, live |-> b]] /\ Becomes(m, x)
        BY <1>5, <2>1, <2>2, <2>3 DEF Write
    <2>5. MutOk(x) /\ x.pc = p /\ m.code \in Code /\ m.code \in Born
        BY <1>1, <1>5, <2>1, <2>2, GoesOnOk, KindsAre DEF MutOk, Born, Updates
    <2>6. links[m.code].ver \in Nat /\ links[m.code].ver <= MaxOps
        <3>1. /\ IsFiniteSet(muts') /\ Cardinality(Unwritten)' \in Nat /\ Cardinality(Unwritten) \in Nat
              /\ Cardinality(Unwritten)' = Cardinality(Unwritten) - 1
            BY <1>1, <2>1, <2>4, <2>5, BecomesIs
        <3>2. links[m.code].ver + Cardinality(Unwritten) <= ops + 1 /\ ops \in 0..MaxOps /\ links[m.code].ver \in Nat
            BY <1>1, <2>5, LinksAssumption DEF Table, Link
        <3>3. QED BY <3>1, <3>2, LinksAssumption
    <2>7. [ver |-> links[m.code].ver + 1, live |-> b] \in Link
        BY <2>6, LinksAssumption DEF Link
    <2>8. \A d \in Code : links'[d] = IF d = m.code THEN [ver |-> links[m.code].ver + 1, live |-> b] ELSE links[d]
        BY <1>1, <2>4 DEF Table
    <2>9. links' \in [Code -> Link]
        BY <1>1, <2>4, <2>7 DEF Table
    <2>10. \A d \in Code : links'[d].ver \in {links[d].ver, links[d].ver + 1} /\ (d # m.code => links'[d] = links[d])
        BY <2>8
    <2>11. links'[m.code].ver > 0
        BY <2>5, <2>6, <2>8
    <2>12. Born \subseteq Born' /\ \A d \in Code : Exists(d)' => d \in Born'
        BY <1>1, <2>10, <2>11 DEF Table, Born, Exists
    <2>13. MutOk(x)'
        BY <1>0, <1>1, <2>5, <2>12, MutKept
    <2>14. QED BY <1>1, <1>2, <2>1, <2>4, <2>5, <2>9, <2>10, <2>12, <2>13, BecomesTyped DEF Typed
<1>6. QED BY <1>3, <1>4, <1>5

LEMMA ReadBackTyped ==
    ASSUME Typed, NEW m \in muts, ReadBack(m)
    PROVE  Typed'
<1>1. Table /\ MutOk(m) /\ m \in Mut /\ m.pc = "written" /\ m.kind \in Updates /\ m.code \in Code
    <2>1. Table /\ MutOk(m) /\ m.pc = "written"
        BY DEF Typed, Table, ReadBack
    <2>2. m \in Mut /\ m.kind \in Updates
        BY <2>1, KindsAre DEF MutOk, Updates
    <2>3. QED BY <2>1, <2>2 DEF MutOk, Born, Updates
<1>2. UNCHANGED <<links, cache, screen, ops, turns, losses, excused>>
    BY DEF ReadBack
<1>3. PICK x : x = IF Exists(m.code) THEN Read(m, links[m.code].ver) ELSE [m EXCEPT !.pc = "failed"]
    OBVIOUS
<1>4. MutOk(x) /\ x.pc # "sent"
    <2>1. CASE Exists(m.code)
        <3>1. links[m.code].ver \in 0..MaxOps + 1 /\ links[m.code].ver > 0
            BY <1>1, <2>1 DEF Table, Born, Link
        <3>2. x = Read(m, links[m.code].ver)
            BY <1>3, <2>1
        <3>3. x \in Mut /\ x.kind = m.kind /\ x.pc = "done" /\ x.code = m.code /\ x.snapshot = m.snapshot
              /\ x.ver = links[m.code].ver
            BY <1>1, <3>1, <3>2, ReadIs
        <3>4. QED BY <1>1, <3>1, <3>3 DEF MutOk, Updates
    <2>2. CASE ~Exists(m.code)
        BY <1>1, <1>3, <2>2, GoesOnOk
    <2>3. QED BY <2>1, <2>2
<1>5. Becomes(m, x)
    BY <1>3 DEF ReadBack, Read
<1>6. Born' = Born /\ \A d \in Code : Exists(d)' => d \in Born'
    BY <1>1, <1>2 DEF Table, Born, Exists
<1>7. MutOk(x)'
    BY <1>1, <1>2, <1>4, <1>6, MutKept DEF Table
<1>8. QED BY <1>1, <1>2, <1>4, <1>5, <1>6, <1>7, BecomesTyped DEF Typed, Table

LEMMA MutationLostTyped ==
    ASSUME Typed, NEW m \in muts, MutationLost(m)
    PROVE  Typed'
<1>1. Table /\ MutOk(m) /\ m \in Mut
    BY DEF Typed, Table, MutOk
<1>2. UNCHANGED <<links, cache, screen, ops, turns>> /\ losses' \in 0..MaxLosses
    BY LinksAssumption DEF MutationLost, Fault, Typed
<1>3. PICK x : x = [m EXCEPT !.pc = "failed"]
    OBVIOUS
<1>4. MutOk(x) /\ x.pc = "failed"
    BY <1>1, <1>3, GoesOnOk
<1>5. Becomes(m, x)
    BY <1>3 DEF MutationLost
<1>6. Born' = Born /\ \A d \in Code : Exists(d)' => d \in Born'
    BY <1>1, <1>2 DEF Table, Born, Exists
<1>7. MutOk(x)'
    BY <1>1, <1>2, <1>4, <1>6, MutKept DEF Table
<1>8. excused' \subseteq Key
    BY KeysDiffer DEF MutationLost, Typed
<1>9. QED BY <1>1, <1>2, <1>4, <1>5, <1>6, <1>7, <1>8, BecomesTyped DEF Typed, Table

(* A component that is left: its mutations go on. *)
LEMMA LeftIs ==
    ASSUME NEW m \in Mut, NEW k, NEW x, x \in {m, Left(m, k)}
    PROVE  /\ x \in Mut /\ x.kind = m.kind /\ x.code = m.code /\ x.pc = m.pc /\ x.ver = m.ver
           /\ x.snapshot = m.snapshot
<1>1. CASE x = m
    BY <1>1
<1>2. CASE x # m
    <2>1. x = [m EXCEPT !.here = FALSE]
        BY <1>2 DEF Left
    <2>2. QED BY <2>1 DEF Mut
<1>3. QED BY <1>1, <1>2

LEMMA LeftOk ==
    ASSUME NEW m, MutOk(m), NEW k, NEW x, x \in {m, Left(m, k)}
    PROVE  /\ MutOk(x) /\ x.kind = m.kind /\ x.code = m.code /\ x.pc = m.pc /\ x.ver = m.ver
           /\ x.snapshot = m.snapshot
<1>1. m \in Mut
    BY DEF MutOk
<1>2. /\ x \in Mut /\ x.kind = m.kind /\ x.code = m.code /\ x.pc = m.pc /\ x.ver = m.ver
      /\ x.snapshot = m.snapshot
    BY <1>1, LeftIs
<1>3. QED BY <1>2 DEF MutOk

Moved(f) == {f[m] : m \in muts}
Sending(M) == {m \in M : m.pc = "sent"}

LEMMA MovedIs ==
    ASSUME Table, NEW k, NEW f, \A m \in muts : f[m] \in {m, Left(m, k)}, NEW M, M = Moved(f),
           NEW U, U = Sending(M)
    PROVE  /\ IsFiniteSet(M) /\ \A x \in M : MutOk(x)
           /\ Cardinality(U) \in Nat /\ IsFiniteSet(U) /\ Cardinality(U) <= Cardinality(Unwritten)
<1>1. \A m \in muts : MutOk(f[m]) /\ f[m].pc = m.pc
    BY LeftOk DEF Table
<1>2. PICK g : g = [m \in muts |-> f[m]]
    OBVIOUS
<1>3. g \in Surjection(muts, M)
    BY <1>2, SMT DEF Surjection, Moved
<1>4. IsFiniteSet(M)
    BY <1>3, FS_Surjection DEF Table
<1>6. PICK h : h = [m \in Unwritten |-> f[m]]
    OBVIOUS
<1>7. U = {f[m] : m \in Unwritten}
    BY <1>1 DEF Unwritten, Moved, Sending
<1>8. h \in Surjection(Unwritten, U)
    BY <1>6, <1>7, SMT DEF Surjection
<1>9. Unwritten \in SUBSET muts
    BY DEF Unwritten
<1>10. IsFiniteSet(Unwritten)
    BY <1>9, FS_Subset DEF Table
<1>11. IsFiniteSet(U) /\ Cardinality(U) <= Cardinality(Unwritten)
    BY <1>8, <1>10, FS_Surjection
<1>12. Cardinality(U) \in Nat
    BY <1>11, FS_CardinalityType
<1>13. QED BY <1>1, <1>4, <1>11, <1>12 DEF Moved

(* The mutations after a step that asks for one, or for none. *)
LEMMA MovesOn ==
    ASSUME Table, NEW k, NEW f, \A m \in muts : f[m] \in {m, Left(m, k)}, muts' = {f[m] : m \in muts},
           links' = links, ops' = ops
    PROVE  Table' /\ Born' = Born
<1>1. PICK M : M = Moved(f)
    OBVIOUS
<1>2. PICK U : U = Sending(M)
    OBVIOUS
<1>3. /\ IsFiniteSet(M) /\ \A x \in M : MutOk(x)
      /\ Cardinality(U) \in Nat /\ Cardinality(U) <= Cardinality(Unwritten)
    BY <1>1, <1>2, MovedIs
<1>4. Unwritten' = U /\ muts' = M
    BY <1>1, <1>2 DEF Unwritten, Moved, Sending
<1>5. \A x \in muts' : MutOk(x)'
    BY <1>3, <1>4 DEF MutOk, Born, PageOk
<1>6. Cardinality(Unwritten)' = Cardinality(U)
    BY <1>4
<1>7. IsFiniteSet(Unwritten) /\ Cardinality(Unwritten) \in Nat
    <2>1. Unwritten \in SUBSET muts
        BY DEF Unwritten
    <2>2. IsFiniteSet(Unwritten)
        BY <2>1, FS_Subset DEF Table
    <2>3. QED BY <2>2, FS_CardinalityType
<1>8. ASSUME NEW c \in Code PROVE links'[c].ver + Cardinality(Unwritten)' <= ops' + 1
    <2>1. links[c].ver \in Nat /\ ops \in Nat /\ links[c].ver + Cardinality(Unwritten) <= ops + 1
        BY BornAre DEF Table
    <2>2. QED BY <1>3, <1>6, <1>7, <2>1
<1>9. Born' = Born /\ \A c \in Code : Exists(c)' => c \in Born'
    BY DEF Born, Table, Exists
<1>10. QED BY <1>3, <1>4, <1>5, <1>8, <1>9 DEF Table

LEMMA AsksFor ==
    ASSUME Table, NEW k, NEW f, \A m \in muts : f[m] \in {m, Left(m, k)}, NEW n, n.pc = "sent", MutOk(n)',
           muts' = {f[m] : m \in muts} \cup {n}, links' = links, ops < MaxOps, ops' = ops + 1
    PROVE  Table' /\ Born' = Born
<1>1. PICK M : M = Moved(f)
    OBVIOUS
<1>2. PICK U : U = Sending(M)
    OBVIOUS
<1>3. /\ IsFiniteSet(M) /\ \A x \in M : MutOk(x)
      /\ Cardinality(U) \in Nat /\ IsFiniteSet(U) /\ Cardinality(U) <= Cardinality(Unwritten)
    BY <1>1, <1>2, MovedIs
<1>4. Unwritten' = U \cup {n} /\ muts' = M \cup {n}
    BY <1>1, <1>2 DEF Unwritten, Moved, Sending
<1>5. IsFiniteSet(muts')
    BY <1>3, <1>4, FS_AddElement
<1>6. IsFiniteSet(U \cup {n}) /\ Cardinality(U \cup {n}) \in Nat /\ Cardinality(U \cup {n}) <= Cardinality(U) + 1
    <2>1. /\ IsFiniteSet(U \cup {n})
          /\ Cardinality(U \cup {n}) = IF n \in U THEN Cardinality(U) ELSE Cardinality(U) + 1
        BY <1>3, FS_AddElement
    <2>2. QED BY <1>3, <2>1
<1>7. Born' = Born /\ \A c \in Code : Exists(c)' => c \in Born'
    BY DEF Born, Table, Exists
<1>8. ops \in Int /\ ops' \in Int /\ ops <= ops' /\ ops' \in 0..MaxOps
    BY LinksAssumption DEF Table
<1>9. \A x \in M : MutOk(x)'
    BY <1>3, <1>7, <1>8, MutKept
<1>10. \A x \in muts' : MutOk(x)'
    BY <1>4, <1>9
<1>11. Cardinality(Unwritten)' = Cardinality(U \cup {n})
    BY <1>4
<1>12. Cardinality(Unwritten) \in Nat
    <2>1. Unwritten \in SUBSET muts
        BY DEF Unwritten
    <2>2. IsFiniteSet(Unwritten)
        BY <2>1, FS_Subset DEF Table
    <2>3. QED BY <2>2, FS_CardinalityType
<1>13. ASSUME NEW c \in Code PROVE links'[c].ver + Cardinality(Unwritten)' <= ops' + 1
    <2>1. links[c].ver \in Nat /\ ops \in Nat /\ links[c].ver + Cardinality(Unwritten) <= ops + 1
        BY BornAre DEF Table
    <2>2. QED BY <1>3, <1>6, <1>11, <1>12, <2>1
<1>14. QED BY <1>5, <1>7, <1>8, <1>10, <1>13 DEF Table

LEMMA NewMutation ==
    ASSUME Table, ops < MaxOps, ops' = ops + 1, Born' = Born, NEW kind \in {"create", "status", "expiresAt", "delete"},
           NEW c \in 0..MaxCode, kind # "create" => c \in Born, NEW s \in [Lists -> Page \cup {NoData}],
           \A k \in Lists : s[k] # NoData => PageOk(s[k]), NEW n, n = Mutation(kind, c, s)
    PROVE  MutOk(n)' /\ n.pc = "sent" /\ n.kind = kind /\ n.code = c
<1>1. ops + 1 \in 1..MaxOps /\ 0 \in 0..MaxOps + 1
    BY LinksAssumption DEF Table
<1>2. n \in Mut /\ n.kind = kind /\ n.code = c /\ n.pc = "sent" /\ n.snapshot = s
    BY <1>1 DEF Mutation, Mut
<1>3. MutOk(n)
    BY <1>2 DEF MutOk
<1>4. ops' \in Int /\ ops <= ops'
    BY DEF Table
<1>5. QED BY <1>2, <1>3, <1>4, MutKept

(* The links a menu is on the screen for have been written. *)
LEMMA OfferedAreBorn ==
    ASSUME Typed, NEW c \in Code, Offered(c)
    PROVE  c \in Born
<1>1. ASSUME NEW k \in Lists, c \in RowsOf(k) PROVE c \in Born
    <2>1. QueryOk(k, cache[k]) /\ cache[k].data # NoData /\ c \in DOMAIN cache[k].data.urls
        BY <1>1, KeysDiffer DEF Typed, RowsOf
    <2>2. PageOk(cache[k].data)
        BY <2>1 DEF QueryOk
    <2>3. QED BY <2>1, <2>2 DEF PageOk
<1>2. CASE screen \in Details
    <2>1. c = screen[2] /\ DetailScreen(c) = "link" /\ screen = <<"detail", c>> /\ screen \in Key
        BY <1>2, KeysDiffer DEF Offered
    <2>2. cache[screen].data # NoData \/ \E k \in Lists : c \in RowsOf(k)
        BY <2>1 DEF DetailScreen
    <2>3. QueryOk(screen, cache[screen])
        BY <2>1 DEF Typed
    <2>4. cache[screen].data # NoData => c \in Born
        BY <1>2, <2>1, <2>3 DEF QueryOk
    <2>5. QED BY <1>1, <2>2, <2>4
<1>3. CASE screen \notin Details
    <2>1. screen \in Lists
        BY <1>3, KeysDiffer DEF Typed
    <2>2. c \in RowsOf(Standing(screen[2]))
        BY <1>3 DEF Offered
    <2>3. Standing(screen[2]) \in Lists
        BY <2>1 DEF Standing, Lists
    <2>4. QED BY <1>1, <2>2, <2>3
<1>4. QED BY <1>2, <1>3

LEMMA AskedTyped ==
    ASSUME Typed, Table', Born' = Born, ops <= ops', cache' = cache, screen' = screen, turns' = turns, losses' = losses,
           excused' = excused
    PROVE  Typed'
<1>1. DOMAIN cache' = Key /\ \A k \in Key : QueryOk(k, cache'[k])
    BY DEF Typed
<1>2. QED BY <1>1, CacheStays DEF Typed

LEMMA AsksTyped ==
    ASSUME Typed, Op, NEW kind \in {"create", "status", "expiresAt"}, NEW c \in 0..MaxCode, kind # "create" => c \in Born,
           muts' = muts \cup {Mutation(kind, c, NoSnapshot)},
           UNCHANGED <<links, cache, screen, turns, losses, excused>>
    PROVE  Typed'
<1>1. PICK n : n = Mutation(kind, c, NoSnapshot)
    OBVIOUS
<1>2. NoSnapshot \in [Lists -> Page \cup {NoData}] /\ \A k \in Lists : NoSnapshot[k] = NoData
    BY DEF NoSnapshot
<1>3. Table /\ ops < MaxOps /\ ops' = ops + 1 /\ ops <= ops'
    BY DEF Typed, Op, Table
<1>4. Born' = Born
    BY DEF Born
<1>5. MutOk(n)' /\ n.pc = "sent"
    BY <1>1, <1>2, <1>3, <1>4, NewMutation
<1>6. PICK f : f = [m \in muts |-> m]
    OBVIOUS
<1>7. muts' = {f[m] : m \in muts} \cup {n} /\ (\A m \in muts : f[m] \in {m, Left(m, screen)}) /\ links' = links
    BY <1>1, <1>6
<1>8. Table'
    BY <1>3, <1>5, <1>7, AsksFor
<1>9. QED BY <1>3, <1>4, <1>8, AskedTyped

LEMMA AskShortenTyped == ASSUME Typed, AskShorten PROVE Typed'
BY AsksTyped, LinksAssumption DEF AskShorten

LEMMA AskUpdateTyped ==
    ASSUME Typed, NEW c \in Code, NEW kind \in Updates, AskUpdate(c, kind)
    PROVE  Typed'
<1>1. c \in Born /\ c \in 0..MaxCode /\ kind \in {"create", "status", "expiresAt"}
    BY OfferedAreBorn, LinksAssumption DEF AskUpdate, Code, Updates
<1>2. QED BY <1>1, AsksTyped DEF AskUpdate

LEMMA CancelledIs ==
    ASSUME NEW k, NEW q \in Query(k), NEW x, x = Cancelled(q)
    PROVE  x \in Query(k) /\ x.data = q.data /\ x.invalid = q.invalid /\ x.fetch = NoFetch
BY WithFetchIs, FetchesAre DEF Cancelled

(* A page without one row. *)
Rowless(d, c) == [d EXCEPT !.urls = [x \in DOMAIN @ \ {c} |-> @[x]], !.total = @ - 1]

LEMMA RowlessIs ==
    ASSUME Table, ops < MaxOps, NEW d, PageOk(d), NEW c, NEW e, e = Rowless(d, c)
    PROVE  e \in Page /\ e.total >= -(ops + 1) /\ DOMAIN e.urls \subseteq Born
<1>1. d.urls \in Urls /\ d.total \in Total /\ d.hasMore \in BOOLEAN /\ d.total >= -ops /\ DOMAIN d.urls \subseteq Born
    BY DEF PageOk, Page
<1>2. PICK u : u = [x \in DOMAIN d.urls \ {c} |-> d.urls[x]]
    OBVIOUS
<1>3. DOMAIN u \subseteq DOMAIN d.urls /\ \A x \in DOMAIN u : u[x] = d.urls[x]
    BY <1>2
<1>4. DOMAIN u \in SUBSET Code /\ (\A x \in DOMAIN u : u[x] \in 1..MaxOps + 1) /\ u = [x \in DOMAIN u |-> u[x]]
    BY <1>1, <1>2, <1>3, UrlsAre
<1>5. u \in Urls
    BY <1>4, UrlsIs
<1>6. PICK n : n = d.total - 1
    OBVIOUS
<1>7. n \in Total /\ n >= -(ops + 1)
    BY <1>1, <1>6, LinksAssumption DEF Table, Total
<1>8. d \in Page /\ e = [d EXCEPT !.urls = u, !.total = n]
    BY <1>2, <1>6 DEF Rowless, PageOk
<1>9. e \in Page /\ e.urls = u /\ e.total = n
    BY <1>5, <1>7, <1>8 DEF Page
<1>10. QED BY <1>1, <1>3, <1>7, <1>9

(* A page of the list after onMutate() of a delete. *)
LEMMA RemovedRowOk ==
    ASSUME Table, Table', ops < MaxOps, ops' = ops + 1, Born' = Born, NEW k \in Lists, NEW q, QueryOk(k, q), NEW c,
           NEW x, x = WithoutRow(Cancelled(q), c)
    PROVE  QueryOk(k, x)' /\ x.fetch = NoFetch
<1>1. k \in Key /\ q \in Query(k) /\ (q.data = NoData \/ PageOk(q.data)) /\ k \notin Details
    BY KeysDiffer, QueryTyped, DataStays
<1>2. PICK y : y = Cancelled(q)
    OBVIOUS
<1>3. y \in Query(k) /\ y.data = q.data /\ y.fetch = NoFetch
    BY <1>1, <1>2, CancelledIs
<1>4. CASE q.data = NoData
    <2>1. x = y
        BY <1>2, <1>3, <1>4 DEF WithoutRow
    <2>2. QED BY <1>1, <1>3, <1>4, <2>1, FetchesAre DEF QueryOk
<1>5. CASE q.data # NoData
    <2>1. PICK d : d = Rowless(q.data, c)
        OBVIOUS
    <2>2. d \in Page /\ d.total >= -(ops + 1) /\ DOMAIN d.urls \subseteq Born
        BY <1>1, <1>5, <2>1, RowlessIs
    <2>3. x = WithData(y, d)
        BY <1>2, <1>3, <1>5, <2>1 DEF WithoutRow, Rowless
    <2>4. d \in Answers(k)
        BY <1>1, <2>2, AnswersAre
    <2>5. x \in Query(k) /\ x.data = d /\ x.fetch = NoFetch
        BY <1>3, <2>3, <2>4, WithDataIs
    <2>6. PageOk(d)'
        BY <2>2 DEF PageOk
    <2>7. QED BY <1>1, <2>5, <2>6, FetchesAre DEF QueryOk
<1>6. QED BY <1>4, <1>5

LEMMA AskDeleteTyped ==
    ASSUME Typed, NEW c \in Code, AskDelete(c)
    PROVE  Typed'
<1>1. PICK k \in Key : OnMutate(c, k)
    BY PagesAssumption DEF AskDelete, Typed, Key, Lists
<1>2. PICK s : s = [e \in Lists |-> cache[e].data]
    OBVIOUS
<1>3. PICK n : n = Mutation("delete", c, s)
    OBVIOUS
<1>4. PICK after : after = [e \in Key |-> IF e \in Lists THEN WithoutRow(Cancelled(cache[e]), c) ELSE cache[e]]
    OBVIOUS
<1>5. PICK f : f = [m \in muts |-> IF Unmounts(m, c, k) THEN Left(m, k) ELSE m]
    OBVIOUS
<1>6. /\ screen' = k /\ UNCHANGED <<links, turns, losses, excused>> /\ Op
      /\ cache' = IF k # screen /\ after[k].data = NoData THEN [after EXCEPT ![k] = Refetched(@)] ELSE after
      /\ muts' = {IF Unmounts(m, c, k) THEN Left(m, k) ELSE m : m \in muts} \cup {n}
    BY <1>1, <1>2, <1>3, <1>4 DEF OnMutate
<1>7. muts' = {f[m] : m \in muts} \cup {n} /\ \A m \in muts : f[m] \in {m, Left(m, k)}
    BY <1>5, <1>6
<1>8. Table /\ Lists \subseteq Key /\ \A e \in Key : QueryOk(e, cache[e])
    BY KeysDiffer DEF Typed
<1>9. ops < MaxOps /\ ops' = ops + 1 /\ ops <= ops' /\ Born' = Born
    BY <1>6, <1>8 DEF Op, Table, Born
<1>10. \A e \in Lists : s[e] = NoData \/ PageOk(s[e])
    BY <1>2, <1>8, DataStays
<1>11. s \in [Lists -> Page \cup {NoData}]
    BY <1>2, <1>10 DEF PageOk
<1>12. c \in Born /\ c \in 0..MaxCode
    BY <1>1, OfferedAreBorn, LinksAssumption DEF OnMutate, Code
<1>13. MutOk(n)' /\ n.pc = "sent"
    BY <1>3, <1>8, <1>9, <1>10, <1>11, <1>12, NewMutation
<1>14. Table'
    BY <1>6, <1>7, <1>8, <1>9, <1>13, AsksFor
<1>15. ASSUME NEW e \in Key PROVE QueryOk(e, after[e])'
    <2>1. CASE e \in Lists
        <3>1. PICK x : x = WithoutRow(Cancelled(cache[e]), c)
            OBVIOUS
        <3>2. PICK q : q = cache[e]
            OBVIOUS
        <3>3. QueryOk(e, x)'
            BY <1>8, <1>9, <1>14, <2>1, <3>1, <3>2, RemovedRowOk
        <3>4. after[e] = x
            BY <1>4, <2>1, <3>1
        <3>5. QED BY <3>3, <3>4
    <2>2. CASE e \notin Lists
        <3>1. PICK q : q = cache[e]
            OBVIOUS
        <3>2. QueryOk(e, q)'
            BY <1>8, <1>9, <1>14, <3>1, QueryKept
        <3>3. after[e] = q
            BY <1>4, <2>2, <3>1
        <3>4. QED BY <3>2, <3>3
    <2>3. QED BY <2>1, <2>2
<1>16. ASSUME NEW e \in Key PROVE QueryOk(e, cache[e])'
    <2>1. PICK y : y = after[k]
        OBVIOUS
    <2>2. PICK x : x = Refetched(y)
        OBVIOUS
    <2>3. QueryOk(k, y)'
        BY <1>8, <1>15, <2>1
    <2>4. y \in Query(k)
        BY <2>3 DEF QueryOk
    <2>5. x \in Query(k) /\ x.data = y.data /\ x.fetch = Asked
        BY <2>2, <2>4, RefetchedIs
    <2>6. QueryOk(k, x)'
        BY <2>3, <2>5, FetchesAre DEF QueryOk
    <2>7. cache'[e] \in {after[e], IF e = k THEN x ELSE after[e]}
        BY <1>4, <1>6, <2>1, <2>2
    <2>8. QED BY <1>15, <2>6, <2>7 DEF QueryOk
<1>17. DOMAIN cache' = Key
    BY <1>4, <1>6
<1>18. screen' \in Key /\ excused' \subseteq Key /\ turns' \in 0..MaxTurns /\ losses' \in 0..MaxLosses
    BY <1>1, <1>6, <1>8 DEF Typed
<1>19. QED BY <1>14, <1>16, <1>17, <1>18 DEF Typed, Key, Lists, Details

LEMMA OpenTyped ==
    ASSUME Typed, NEW k \in Key, NEW old \in BOOLEAN, Open(k, old)
    PROVE  Typed'
<1>1. PICK f : f = [m \in muts |-> Left(m, k)]
    OBVIOUS
<1>2. muts' = {f[m] : m \in muts} /\ \A m \in muts : f[m] = Left(m, k)
    BY <1>1 DEF Open
<1>3. links' = links /\ ops' = ops /\ losses' = losses /\ screen' = k /\ turns' \in 0..MaxTurns
    BY LinksAssumption DEF Open, Turn, Typed
<1>4. Table' /\ Born' = Born /\ ops <= ops'
    <2>1. Table /\ ops <= ops'
        BY <1>3 DEF Typed, Table
    <2>2. \A m \in muts : f[m] \in {m, Left(m, k)}
        BY <1>2
    <2>3. QED BY <1>2, <1>3, <2>1, <2>2, MovesOn
<1>5. PICK x : x = Refetched(cache[k])
    OBVIOUS
<1>6. QueryOk(k, cache[k]) /\ cache[k] \in Query(k) /\ Table
    BY QueryTyped DEF Typed
<1>7. x \in Query(k) /\ x.data = cache[k].data /\ x.fetch = Asked
    BY <1>5, <1>6, RefetchedIs
<1>8. QueryOk(k, x)
    BY <1>6, <1>7, NewDataOk, DataStays
<1>9. cache' \in {cache, [cache EXCEPT ![k] = x]}
    BY <1>5 DEF Open, Mounted
<1>10. DOMAIN cache' = Key /\ \A e \in Key : QueryOk(e, cache'[e])
    BY <1>8, <1>9 DEF Typed
<1>11. excused' \subseteq Key
    BY DEF Open, Typed
<1>12. QED BY <1>3, <1>4, <1>10, <1>11, CacheStays DEF Typed

(* The pages after invalidateQueries(): none is taken for fresh, and a fetch that *)
(* read before is known to be old.                                                *)
AllInvalid == \A k \in Lists : cache'[k].invalid /\ (cache'[k].fetch.pc \in {"none", "asked"} \/ k \in excused')

LEMMA InvalidateIs ==
    ASSUME Typed, NEW c, \A k \in Key : QueryOk(k, c[k]), NEW late \in SUBSET Key, InvalidateLists(c, late)
    PROVE  /\ DOMAIN cache' = Key /\ \A k \in Key : QueryOk(k, cache'[k])
           /\ excused' \subseteq Key /\ AllInvalid
           /\ \A k \in Details : cache'[k] = c[k] /\ (k \in excused \cup late => k \in excused')
<1>1. \A k \in Key : cache'[k] = IF k \in Lists THEN Invalidated(k, c[k]) ELSE c[k]
    BY DEF InvalidateLists
<1>2. DOMAIN cache' = Key /\ Lists \subseteq Key /\ Details \subseteq Key /\ excused \subseteq Key
    BY KeysDiffer DEF InvalidateLists, Typed
<1>3. excused' = ((excused \cup late) \ {k \in Lists : k = screen}) \cup {k \in Lists : Outlives(k, c[k])}
    BY DEF InvalidateLists
<1>4. ASSUME NEW k \in Lists
      PROVE  /\ QueryOk(k, cache'[k]) /\ cache'[k].invalid
             /\ cache'[k].fetch.pc \in {"none", "asked"} \/ k \in excused'
    <2>1. PICK q : q = c[k]
        OBVIOUS
    <2>2. QueryOk(k, q) /\ k \in Key
        BY <1>2, <2>1
    <2>3. q \in Query(k)
        BY <2>2, QueryTyped
    <2>4. PICK x : x = Invalidated(k, q)
        OBVIOUS
    <2>5. /\ x \in Query(k) /\ x.data = q.data /\ x.invalid /\ x.fetch \in {q.fetch, Asked}
          /\ x.fetch.pc \notin {"none", "asked"} => Outlives(k, q)
        BY <2>3, <2>4, InvalidatedIs
    <2>6. QueryOk(k, x)
        BY <2>2, <2>5, NewDataOk, DataStays
    <2>7. cache'[k] = x
        BY <1>1, <2>1, <2>2, <2>4
    <2>8. QED BY <1>3, <2>1, <2>5, <2>6, <2>7
<1>5. \A k \in Details : cache'[k] = c[k] /\ k \notin Lists
    BY <1>1, <1>2, KeysDiffer
<1>6. excused' \subseteq Key
    BY <1>2, <1>3
<1>7. \A k \in Details : k \in excused \cup late => k \in excused'
    BY <1>3, <1>5
<1>8. QED BY <1>2, <1>4, <1>5, <1>6, <1>7, KeysDiffer DEF AllInvalid

LEMMA SettledTable ==
    ASSUME Typed, NEW m \in muts, Settled(m)
    PROVE  Table' /\ Born' = Born /\ ops' = ops /\ links' = links
<1>1. Unwritten' \in SUBSET Unwritten /\ Unwritten \in SUBSET muts /\ muts' \in SUBSET muts
    BY DEF Settled, Unwritten
<1>2. IsFiniteSet(muts) /\ IsFiniteSet(muts') /\ IsFiniteSet(Unwritten)
    BY <1>1, FS_Subset DEF Typed, Table
<1>3. PICK U : U = Unwritten'
    OBVIOUS
<1>4. Cardinality(U) <= Cardinality(Unwritten) /\ Cardinality(U) \in Nat /\ Cardinality(Unwritten) \in Nat
    BY <1>1, <1>2, <1>3, FS_Subset, FS_CardinalityType
<1>5. Cardinality(Unwritten)' = Cardinality(U)
    BY <1>3
<1>6. links' = links /\ ops' = ops /\ Born' = Born /\ Table
    BY DEF Settled, Born, Typed
<1>7. ASSUME NEW c \in Code PROVE links'[c].ver + Cardinality(Unwritten)' <= ops' + 1
    <2>1. links[c].ver \in Nat /\ ops \in Nat /\ links[c].ver + Cardinality(Unwritten) <= ops + 1
        BY <1>6, BornAre DEF Table
    <2>2. QED BY <1>4, <1>5, <1>6, <2>1
<1>8. \A x \in muts' : MutOk(x)'
    BY <1>1, <1>6 DEF Table, MutOk, PageOk
<1>9. QED BY <1>2, <1>6, <1>7, <1>8 DEF Table, Exists

LEMMA SettledTyped ==
    ASSUME Typed, NEW m \in muts, Settled(m), DOMAIN cache' = Key, \A k \in Key : QueryOk(k, cache'[k]),
           excused' \subseteq Key
    PROVE  Typed'
<1>1. Table' /\ Born' = Born /\ ops <= ops'
    BY SettledTable DEF Typed, Table
<1>2. UNCHANGED <<screen, turns, losses>>
    BY DEF Settled
<1>3. QED BY <1>1, <1>2, CacheStays DEF Typed

(* What the three answers do: nothing, or every page is invalidated. *)
LEMMA CreateAnsweredIs ==
    ASSUME Typed, NEW m \in muts, CreateAnswered(m)
    PROVE  /\ Typed' /\ m.kind = "create"
           /\ (m.pc = "failed" /\ UNCHANGED <<cache, excused>>) \/ AllInvalid
           /\ \A k \in Details : cache'[k] = cache[k] /\ (k \in excused => k \in excused')
<1>1. \A k \in Key : QueryOk(k, cache[k])
    BY DEF Typed
<1>2. m.kind = "create" /\ Settled(m)
    BY DEF CreateAnswered
<1>3. CASE m.pc = "done"
    <2>1. InvalidateLists(cache, {})
        BY <1>3 DEF CreateAnswered
    <2>2. /\ DOMAIN cache' = Key /\ \A k \in Key : QueryOk(k, cache'[k])
          /\ excused' \subseteq Key /\ AllInvalid
          /\ \A k \in Details : cache'[k] = cache[k] /\ (k \in excused => k \in excused')
        BY <1>1, <2>1, InvalidateIs
    <2>3. QED BY <1>2, <2>2, SettledTyped
<1>4. CASE m.pc # "done"
    <2>1. m.pc = "failed" /\ UNCHANGED <<cache, excused>>
        BY <1>4 DEF CreateAnswered
    <2>2. QED BY <1>1, <1>2, <2>1, SettledTyped DEF Typed
<1>5. QED BY <1>3, <1>4

LEMMA UpdateAnsweredIs ==
    ASSUME Typed, NEW m \in muts, UpdateAnswered(m)
    PROVE  /\ Typed' /\ m.kind \in Updates /\ m.code \in Code
           /\ LET k == <<"detail", m.code>> IN
              \/ m.pc = "failed" /\ UNCHANGED <<cache, excused>>
              \/ m.pc = "done" /\ AllInvalid /\ (k \in excused' \/ cache'[k].data = Server(k))
           /\ \A k \in Details : k # <<"detail", m.code>> =>
                 cache'[k] = cache[k] /\ (k \in excused => k \in excused')
<1>1. MutOk(m) /\ m.kind \in Updates /\ Settled(m)
    BY DEF Typed, Table, UpdateAnswered, Updates
<1>2. m.code \in Code /\ m.code \in Born /\ (m.pc = "done" => m.ver \in 1..MaxOps + 1)
    BY <1>1, LinksAssumption DEF MutOk, Updates, Born, Mut
<1>3. \A k \in Key : QueryOk(k, cache[k])
    BY DEF Typed
<1>4. PICK k : k = <<"detail", m.code>>
    OBVIOUS
<1>5. k \in Details /\ k \in Key /\ k[2] = m.code /\ k \notin Lists
    BY <1>2, <1>4, KeysDiffer
<1>6. CASE m.pc = "done"
    <2>1. PICK d : d = [ver |-> m.ver]
        OBVIOUS
    <2>2. d \in Answers(k) /\ d # NoData
        BY <1>2, <1>5, <1>6, <2>1, AnswersAre, NoDataAssumption DEF Detail
    <2>3. PICK q : q = cache[k]
        OBVIOUS
    <2>4. QueryOk(k, q) /\ q \in Query(k)
        BY <1>3, <1>5, <2>3, QueryTyped
    <2>5. PICK x : x = WithData(q, d)
        OBVIOUS
    <2>6. x \in Query(k) /\ x.data = d /\ x.fetch = q.fetch
        BY <2>2, <2>4, <2>5, WithDataIs
    <2>7. QueryOk(k, x)
        BY <1>2, <1>5, <2>4, <2>6, NewDataOk
    <2>8. PICK c : c = [cache EXCEPT ![k] = x]
        OBVIOUS
    <2>9. \A e \in Key : QueryOk(e, c[e]) /\ c[e] = IF e = k THEN x ELSE cache[e]
        BY <1>3, <2>7, <2>8 DEF Typed
    <2>10. PICK o : o = Overtaken(k, d)
        OBVIOUS
    <2>11. InvalidateLists(c, o)
        BY <1>4, <1>6, <2>1, <2>3, <2>5, <2>8, <2>10 DEF UpdateAnswered
    <2>12. o \in SUBSET Key /\ (d # Server(k) => k \in o)
        BY <1>5, <2>10 DEF Overtaken
    <2>13. /\ DOMAIN cache' = Key /\ \A e \in Key : QueryOk(e, cache'[e])
           /\ excused' \subseteq Key /\ AllInvalid
           /\ \A e \in Details : cache'[e] = c[e] /\ (e \in excused \cup o => e \in excused')
        BY <2>9, <2>11, <2>12, InvalidateIs
    <2>14. Typed'
        BY <1>1, <2>13, SettledTyped
    <2>15. k \in excused' \/ cache'[k].data = Server(k)
        BY <1>5, <2>6, <2>9, <2>12, <2>13
    <2>16. \A e \in Details : e # k => cache'[e] = cache[e] /\ (e \in excused => e \in excused')
        BY <2>9, <2>13, KeysDiffer
    <2>17. QED BY <1>1, <1>2, <1>4, <1>6, <2>13, <2>14, <2>15, <2>16
<1>7. CASE m.pc # "done"
    <2>1. m.pc = "failed" /\ UNCHANGED <<cache, excused>>
        BY <1>7 DEF UpdateAnswered
    <2>2. Typed'
        BY <1>1, <1>3, <2>1, SettledTyped DEF Typed
    <2>3. QED BY <1>1, <1>2, <2>1, <2>2
<1>8. QED BY <1>6, <1>7

LEMMA DeleteAnsweredIs ==
    ASSUME Typed, NEW m \in muts, DeleteAnswered(m)
    PROVE  /\ Typed' /\ m.kind = "delete" /\ m.code \in Code
           /\ AllInvalid
           /\ \A k \in Details : k # <<"detail", m.code>> =>
                 cache'[k] = cache[k] /\ (k \in excused => k \in excused')
           /\ cache'[<<"detail", m.code>>].data = NoData
<1>1. MutOk(m) /\ m.kind = "delete" /\ Settled(m) /\ m \in Mut
    BY DEF Typed, Table, DeleteAnswered, MutOk
<1>2. m.code \in Code
    BY <1>1 DEF MutOk, Born
<1>3. \A k \in Key : QueryOk(k, cache[k])
    BY DEF Typed
<1>4. PICK k : k = <<"detail", m.code>>
    OBVIOUS
<1>5. k \in Details /\ k \in Key /\ k \notin Lists
    BY <1>2, <1>4, KeysDiffer
<1>6. PICK r : r = IF m.pc = "done" THEN cache ELSE RolledBack(m)
    OBVIOUS
<1>7. ASSUME NEW e \in Key PROVE QueryOk(e, RolledBack(m)[e]) /\ (e \notin Lists => RolledBack(m)[e] = cache[e])
    <2>1. RolledBack(m)[e] = IF e \in Lists /\ m.snapshot[e] # NoData THEN WithData(cache[e], m.snapshot[e])
                             ELSE cache[e]
        BY DEF RolledBack
    <2>2. CASE e \in Lists /\ m.snapshot[e] # NoData
        <3>1. PICK d : d = m.snapshot[e]
            OBVIOUS
        <3>2. PageOk(d)
            BY <1>1, <2>2, <3>1 DEF MutOk
        <3>3. d \in Answers(e)
            BY <2>2, <3>2, AnswersAre DEF PageOk
        <3>4. PICK q : q = cache[e]
            OBVIOUS
        <3>5. QueryOk(e, q) /\ q \in Query(e)
            BY <1>3, <3>4, QueryTyped
        <3>6. PICK x : x = WithData(q, d)
            OBVIOUS
        <3>7. x \in Query(e) /\ x.data = d /\ x.fetch = q.fetch
            BY <3>3, <3>5, <3>6, WithDataIs
        <3>8. QueryOk(e, x)
            BY <2>2, <3>2, <3>5, <3>7, NewDataOk, KeysDiffer
        <3>9. QED BY <2>1, <2>2, <3>1, <3>4, <3>6, <3>8
    <2>3. CASE ~(e \in Lists /\ m.snapshot[e] # NoData)
        BY <1>3, <2>1, <2>3
    <2>4. QED BY <2>2, <2>3
<1>8. /\ \A e \in Key : QueryOk(e, r[e]) /\ (e \notin Lists => r[e] = cache[e])
      /\ DOMAIN r = Key
    BY <1>3, <1>6, <1>7 DEF Typed, RolledBack
<1>9. PICK b \in BOOLEAN : InvalidateLists(Removed(r, k, b), {})
    BY <1>4, <1>6 DEF DeleteAnswered
<1>10. PICK x : x = IF k = screen /\ b THEN Refetched(Empty) ELSE Empty
    OBVIOUS
<1>11. x \in Query(k) /\ x.data = NoData /\ x.fetch \in {NoFetch, Asked}
    BY <1>5, <1>10, EmptyIs, RefetchedIs
<1>12. QueryOk(k, x)
    BY <1>3, <1>5, <1>11, NewDataOk
<1>13. PICK c : c = Removed(r, k, b)
    OBVIOUS
<1>14. \A e \in Key : c[e] = IF e = k THEN x ELSE r[e]
    BY <1>8, <1>10, <1>13 DEF Removed
<1>15. \A e \in Key : QueryOk(e, c[e])
    BY <1>8, <1>12, <1>14
<1>16. InvalidateLists(c, {})
    BY <1>9, <1>13
<1>17. /\ DOMAIN cache' = Key /\ \A e \in Key : QueryOk(e, cache'[e])
       /\ excused' \subseteq Key /\ AllInvalid
       /\ \A e \in Details : cache'[e] = c[e] /\ (e \in excused => e \in excused')
    BY <1>15, <1>16, InvalidateIs
<1>18. Typed'
    BY <1>1, <1>17, SettledTyped
<1>19. \A e \in Details : e # k => cache'[e] = cache[e] /\ (e \in excused => e \in excused')
    BY <1>8, <1>14, <1>17, KeysDiffer
<1>20. cache'[k].data = NoData
    BY <1>5, <1>11, <1>14, <1>17
<1>21. QED BY <1>1, <1>2, <1>4, <1>17, <1>18, <1>19, <1>20

LEMMA TypedStart == ASSUME LinksInit PROVE Typed
<1>1. Unwritten = {} /\ Cardinality(Unwritten) = 0 /\ IsFiniteSet(muts)
    BY FS_EmptySet DEF LinksInit, Unwritten
<1>2. /\ \A c \in Code : links[c] = IF c <= Initial THEN [ver |-> 1, live |-> TRUE] ELSE [ver |-> 0, live |-> FALSE]
      /\ links = [c \in Code |-> links[c]]
    BY DEF LinksInit
<1>3. [ver |-> 1, live |-> TRUE] \in Link /\ [ver |-> 0, live |-> FALSE] \in Link
    BY LinksAssumption DEF Link
<1>4. links \in [Code -> Link]
    BY <1>2, <1>3
<1>5. \A c \in Code : links[c].ver \in {0, 1} /\ (links[c].live => links[c].ver = 1)
    BY <1>2
<1>6. ops = 0 /\ 0 \in 0..MaxOps /\ muts = {}
    BY LinksAssumption DEF LinksInit
<1>7. Table
    BY <1>1, <1>4, <1>5, <1>6 DEF Table, Exists, Born
<1>8. PICK x : x = [Empty EXCEPT !.fetch = Asked]
    OBVIOUS
<1>9. ASSUME NEW k \in Key PROVE QueryOk(k, cache[k])
    <2>1. Empty \in Query(k) /\ Empty.data = NoData /\ Empty.fetch = NoFetch
        BY EmptyIs
    <2>2. x \in Query(k) /\ x.data = NoData /\ x.fetch = Asked
        BY <1>8, <2>1, WithFetchIs, FetchesAre
    <2>3. cache[k] \in {Empty, x}
        BY <1>8 DEF LinksInit
    <2>4. QED BY <2>1, <2>2, <2>3, FetchesAre DEF QueryOk
<1>10. DOMAIN cache = Key /\ screen \in Key /\ excused \subseteq Key /\ turns \in 0..MaxTurns /\ losses \in 0..MaxLosses
    BY KeysDiffer, LinksAssumption DEF LinksInit
<1>11. QED BY <1>7, <1>9, <1>10 DEF Typed

LEMMA TypedStep == ASSUME Typed, [LinksNext]_linkVars PROVE Typed'
<1>1. CASE Using
    <2>1. CASE \E c \in Code : AskToggle(c) \/ AskExpiry(c)
        BY <2>1, AskUpdateTyped DEF AskToggle, AskExpiry, Updates
    <2>2. QED BY <1>1, <2>1, AskShortenTyped, AskDeleteTyped, OpenTyped, RetryTyped DEF Using
<1>2. CASE Answering
    BY <1>2, ReadPageTyped, ReadTotalTyped, ReadDetailTyped, FetchEndsTyped, WriteTyped, ReadBackTyped,
       CreateAnsweredIs, UpdateAnsweredIs, DeleteAnsweredIs DEF Answering
<1>3. CASE Losing
    BY <1>3, FetchFailsTyped, MutationLostTyped DEF Losing
<1>4. CASE UNCHANGED linkVars
    <2>1. Table' /\ Born' = Born /\ ops <= ops'
        BY <1>4, TableStays DEF linkVars, Typed, Table
    <2>2. QED BY <1>4, <2>1, AskedTyped DEF linkVars
<1>5. QED BY <1>1, <1>2, <1>3, <1>4 DEF LinksNext

(* The query cache, its fetches and the mutations of hooks/urls are what their     *)
(* types say: the total of a page stays in range through every optimistic removal  *)
(* of onMutate(), and a link is not written more often than the tab asked for.     *)
THEOREM LinksTyped == LinksSpec => []LinksTypeOK
<1>1. Typed => LinksTypeOK
    BY DEF Typed, Table, QueryOk, MutOk, LinksTypeOK
<1>2. QED BY <1>1, TypedStart, TypedStep, PTL DEF LinksSpec

--------------------------------------------------------------------------------
(* The links: what a step does to the pages *)

(* An answer that will invalidate the pages is on its way. *)
Deleting == \E m \in muts : m.kind = "delete"
Tells(m) ==
    \/ m.kind = "delete"
    \/ m.kind = "create" /\ m.pc = "done"
    \/ m.kind \in Updates /\ (m.pc = "done" \/ (m.pc = "written" /\ Exists(m.code)))
Telling == \E m \in muts : Tells(m)

(* What a step does to the query of a page, other than to invalidate it. *)
Fetched(q, r)  == r.data = q.data /\ r.invalid = q.invalid /\ r.fetch = Asked
PageRead(k, q, r) ==
    r.data = q.data /\ r.invalid = q.invalid /\ q.fetch = Asked /\ r.fetch = [pc |-> "paged", urls |-> PageOf(k[2])]
TotalRead(k, q, r) ==
    /\ r.data = q.data /\ r.invalid = q.invalid /\ q.fetch.pc = "paged"
    /\ r.fetch = [pc |-> "answered", data |-> WithTotal(k[2], q.fetch.urls)]
Shown(q, r) == q.fetch.pc = "answered" /\ r.data = q.fetch.data /\ ~r.invalid /\ r.fetch = NoFetch
Lost(q, r)  == r.data = q.data /\ r.invalid /\ r.fetch = NoFetch

(* A page goes on by itself: it is fetched anew, or its fetch goes one step on. *)
Goes(k) ==
    LET q == cache[k] r == cache'[k] IN
    \/ Fetched(q, r)
    \/ /\ k \in excused => k \in excused'
       /\ r = q \/ PageRead(k, q, r) \/ TotalRead(k, q, r) \/ Shown(q, r) \/ Lost(q, r)

(* A step without a delete. *)
Ordinary ==
    /\ ~Deleting
    /\ \A c \in Code : Exists(c) => Exists(c)'
    /\ \A k \in Lists : Goes(k)
    /\ Telling' \/ (links' = links /\ (Telling => Lists \subseteq excused'))

(* What every step is: an answer that invalidates all pages, one with a delete     *)
(* under way after it, or an ordinary one.                                          *)
Classified == (AllInvalid /\ links' = links) \/ Deleting' \/ Ordinary

(* The user's steps. *)
LEMMA UnchangedGoes ==
    ASSUME cache' = cache, excused \subseteq excused'
    PROVE  \A k \in Lists : Goes(k)
BY DEF Goes

LEMMA AsksGo ==
    ASSUME Typed, NEW n, muts' = muts \cup {n}, UNCHANGED <<links, cache, excused>>
    PROVE  Classified
<1>1. (Deleting => Deleting') /\ (Telling => Telling')
    BY DEF Deleting, Telling, Tells, Exists
<1>2. \A c \in Code : Exists(c) => Exists(c)'
    BY DEF Exists
<1>3. QED BY <1>1, <1>2, UnchangedGoes DEF Classified, Ordinary

LEMMA MutsGo ==
    ASSUME Typed, NEW k, muts' = {Left(m, k) : m \in muts}, links' = links
    PROVE  (Deleting => Deleting') /\ (Telling => Telling')
<1>1. ASSUME NEW m \in muts PROVE /\ Left(m, k) \in muts'
                                  /\ Left(m, k).kind = m.kind /\ Left(m, k).pc = m.pc /\ Left(m, k).code = m.code
    BY LeftOk DEF Typed, Table
<1>2. Deleting => Deleting'
    BY <1>1 DEF Deleting
<1>3. ASSUME NEW m \in muts, Tells(m) PROVE Telling'
    <2>1. PICK x \in muts' : x = Left(m, k) /\ x.kind = m.kind /\ x.pc = m.pc /\ x.code = m.code
        BY <1>1
    <2>2. Tells(x)'
        BY <1>3, <2>1 DEF Tells, Exists
    <2>3. QED BY <2>2 DEF Telling
<1>4. QED BY <1>2, <1>3 DEF Telling

LEMMA OneGoes ==
    ASSUME Typed, NEW k \in Key, NEW x, cache' = [cache EXCEPT ![k] = x], links' = links,
           Deleting => Deleting', Telling => Telling', excused \ {k} \subseteq excused',
           k \in Lists => Goes(k)
    PROVE  Classified
<1>1. ASSUME NEW e \in Lists PROVE Goes(e)
    <2>1. CASE e = k
        BY <2>1
    <2>2. CASE e # k
        BY <2>2, KeysDiffer DEF Goes, Typed
    <2>3. QED BY <2>1, <2>2
<1>2. \A c \in Code : Exists(c) => Exists(c)'
    BY DEF Exists
<1>3. QED BY <1>1, <1>2 DEF Classified, Ordinary

LEMMA StillTelling == ASSUME muts' = muts, links' = links PROVE Deleting' = Deleting /\ Telling' = Telling
BY DEF Deleting, Telling, Tells, Exists

LEMMA OpenGoes ==
    ASSUME Typed, NEW k \in Key, NEW old \in BOOLEAN, Open(k, old)
    PROVE  Classified
<1>1. links' = links /\ (Deleting => Deleting') /\ (Telling => Telling')
    BY MutsGo DEF Open
<1>2. PICK q : q = cache[k]
    OBVIOUS
<1>3. PICK x : x = Refetched(q)
    OBVIOUS
<1>4. q \in Query(k)
    BY <1>2, QueryTyped DEF Typed
<1>5. x.data = q.data /\ x.invalid = q.invalid /\ x.fetch = Asked
    BY <1>3, <1>4, RefetchedIs
<1>6. cache' = cache \/ cache' = [cache EXCEPT ![k] = x]
    BY <1>2, <1>3 DEF Open, Mounted
<1>7. CASE cache' = cache
    <2>1. excused' = excused
        BY <1>7 DEF Open
    <2>2. \A c \in Code : Exists(c) => Exists(c)'
        BY <1>1 DEF Exists
    <2>3. QED BY <1>1, <1>7, <2>1, <2>2, UnchangedGoes DEF Classified, Ordinary
<1>8. CASE cache' = [cache EXCEPT ![k] = x]
    <2>1. excused \ {k} \subseteq excused'
        BY DEF Open
    <2>2. Fetched(cache[k], cache'[k])
        BY <1>2, <1>5, <1>8 DEF Typed, Fetched
    <2>3. QED BY <1>1, <1>8, <2>1, <2>2, OneGoes DEF Goes
<1>9. QED BY <1>6, <1>7, <1>8

LEMMA RetryGoes == ASSUME Typed, Retry PROVE Classified
<1>1. PICK q : q = cache[screen]
    OBVIOUS
<1>2. PICK x : x = Refetched(q)
    OBVIOUS
<1>3. q \in Query(screen) /\ screen \in Key /\ links' = links /\ muts' = muts
    BY <1>1, QueryTyped DEF Typed, Retry
<1>4. x.data = q.data /\ x.invalid = q.invalid /\ x.fetch = Asked
    BY <1>2, <1>3, RefetchedIs
<1>5. cache' = [cache EXCEPT ![screen] = x] /\ excused \ {screen} \subseteq excused'
    BY <1>1, <1>2 DEF Retry
<1>6. Fetched(cache[screen], cache'[screen])
    BY <1>1, <1>3, <1>4, <1>5 DEF Typed, Fetched
<1>7. Goes(screen)
    BY <1>6 DEF Goes
<1>8. (Deleting => Deleting') /\ (Telling => Telling')
    BY <1>3, StillTelling
<1>9. QED BY <1>3, <1>5, <1>7, <1>8, OneGoes

LEMMA AskDeleteGoes == ASSUME Typed, NEW c \in Code, AskDelete(c) PROVE Classified
<1>1. PICK n : n.kind = "delete" /\ n \in muts'
    <2>1. PICK n : n = Mutation("delete", c, [e \in Lists |-> cache[e].data])
        OBVIOUS
    <2>2. n.kind = "delete"
        BY <2>1 DEF Mutation
    <2>3. n \in muts'
        BY <2>1 DEF AskDelete, OnMutate
    <2>4. QED BY <2>2, <2>3
<1>2. QED BY <1>1 DEF Classified, Deleting

(* The answers of fetches. *)
LEMMA ReadPageGoes == ASSUME Typed, NEW k \in Key, ReadPage(k) PROVE Classified
<1>1. PICK q : q = cache[k]
    OBVIOUS
<1>2. PICK f : f = [pc |-> "paged", urls |-> PageOf(k[2])]
    OBVIOUS
<1>3. PICK x : x = [q EXCEPT !.fetch = f]
    OBVIOUS
<1>4. q \in Query(k) /\ Table /\ k \in Lists
    BY <1>1, QueryTyped DEF Typed, ReadPage
<1>5. f \in Fetch(k)
    BY <1>2, <1>4, PageOfIs, FetchesAre
<1>6. x.data = q.data /\ x.invalid = q.invalid /\ x.fetch = f
    BY <1>3, <1>4, <1>5, WithFetchIs
<1>7. cache' = [cache EXCEPT ![k] = x] /\ excused' = excused /\ links' = links /\ muts' = muts /\ q.fetch = Asked
    BY <1>1, <1>2, <1>3 DEF ReadPage
<1>8. PageRead(k, cache[k], cache'[k])
    BY <1>1, <1>2, <1>6, <1>7 DEF Typed, PageRead
<1>9. Goes(k)
    BY <1>7, <1>8 DEF Goes
<1>10. (Deleting => Deleting') /\ (Telling => Telling')
    BY <1>7, StillTelling
<1>11. QED BY <1>7, <1>9, <1>10, OneGoes

LEMMA ReadTotalGoes == ASSUME Typed, NEW k \in Key, ReadTotal(k) PROVE Classified
<1>1. PICK q : q = cache[k]
    OBVIOUS
<1>2. PICK f : f = [pc |-> "answered", data |-> WithTotal(k[2], q.fetch.urls)]
    OBVIOUS
<1>3. PICK x : x = [q EXCEPT !.fetch = f]
    OBVIOUS
<1>4. q \in Query(k) /\ QueryOk(k, q) /\ Table /\ q.fetch.pc = "paged" /\ k \in Lists
    BY <1>1, QueryTyped, KeysDiffer DEF Typed, ReadTotal, QueryOk
<1>5. cache' = [cache EXCEPT ![k] = x] /\ excused' = excused /\ links' = links /\ muts' = muts
    BY <1>1, <1>2, <1>3 DEF ReadTotal
<1>6. f \in Fetch(k)
    <2>1. q.fetch.urls \in Urls /\ DOMAIN q.fetch.urls \subseteq Born
        BY <1>4, FetchIs, QueryIs DEF QueryOk
    <2>2. PageOk(WithTotal(k[2], q.fetch.urls))
        BY <1>4, <2>1, PageReadIs, KeysDiffer
    <2>3. QED BY <1>2, <1>4, <2>2, FetchesAre, AnswersAre DEF PageOk
<1>7. x.data = q.data /\ x.invalid = q.invalid /\ x.fetch = f
    BY <1>3, <1>4, <1>6, WithFetchIs
<1>8. TotalRead(k, cache[k], cache'[k])
    BY <1>1, <1>2, <1>4, <1>5, <1>7 DEF Typed, TotalRead
<1>9. Goes(k)
    BY <1>5, <1>8 DEF Goes
<1>10. (Deleting => Deleting') /\ (Telling => Telling')
    BY <1>5, StillTelling
<1>11. QED BY <1>5, <1>9, <1>10, OneGoes

LEMMA ReadDetailGoes == ASSUME Typed, NEW k \in Key, ReadDetail(k) PROVE Classified
<1>1. PICK x : x = [cache[k] EXCEPT !.fetch = [pc |-> "answered", data |-> Server(k)]]
    OBVIOUS
<1>2. /\ cache' = [cache EXCEPT ![k] = x] /\ excused' = excused /\ links' = links /\ muts' = muts
      /\ k \notin Lists
    BY <1>1, KeysDiffer DEF ReadDetail
<1>3. (Deleting => Deleting') /\ (Telling => Telling')
    BY <1>2, StillTelling
<1>4. QED BY <1>2, <1>3, OneGoes

LEMMA FetchEndsGoes == ASSUME Typed, NEW k \in Key, FetchEnds(k) PROVE Classified
<1>1. PICK q : q = cache[k]
    OBVIOUS
<1>2. PICK d : d = q.fetch.data
    OBVIOUS
<1>3. q \in Query(k) /\ QueryOk(k, q) /\ q.fetch.pc = "answered" /\ links' = links /\ muts' = muts
    BY <1>1, QueryTyped DEF Typed, FetchEnds
<1>4. PICK x : x = IF d = NoData THEN Failed(q, "missing") ELSE [WithData(q, d) EXCEPT !.fetch = NoFetch]
    OBVIOUS
<1>5. cache' = [cache EXCEPT ![k] = x]
    BY <1>1, <1>2, <1>4 DEF FetchEnds, Failed
<1>6. k \in Lists => excused' = excused
    BY KeysDiffer DEF FetchEnds, Overtaken
<1>7. ASSUME k \in Lists PROVE Goes(k)
    <2>1. PageOk(d)
        BY <1>2, <1>3, <1>7 DEF QueryOk
    <2>2. d # NoData /\ d \in Answers(k)
        BY <1>7, <2>1, PagesReal, AnswersAre
    <2>3. PICK y : y = WithData(q, d)
        OBVIOUS
    <2>4. y \in Query(k) /\ y.data = d /\ ~y.invalid
        BY <1>3, <2>2, <2>3, WithDataIs
    <2>5. x = [y EXCEPT !.fetch = NoFetch]
        BY <1>4, <2>2, <2>3
    <2>6. x.data = d /\ x.invalid = y.invalid /\ x.fetch = NoFetch
        BY <2>4, <2>5, WithFetchIs, FetchesAre
    <2>7. cache'[k] = x
        BY <1>5 DEF Typed
    <2>8. Shown(cache[k], cache'[k])
        BY <1>1, <1>2, <1>3, <2>4, <2>6, <2>7 DEF Shown
    <2>9. QED BY <1>6, <1>7, <2>8 DEF Goes
<1>8. (Deleting => Deleting') /\ (Telling => Telling')
    BY <1>3, StillTelling
<1>9. excused \ {k} \subseteq excused'
    BY DEF FetchEnds
<1>10. QED BY <1>3, <1>5, <1>7, <1>8, <1>9, OneGoes

LEMMA FetchFailsGoes == ASSUME Typed, NEW k \in Key, FetchFails(k) PROVE Classified
<1>1. PICK q : q = cache[k]
    OBVIOUS
<1>2. PICK x : x = Failed(q, "failed")
    OBVIOUS
<1>3. q \in Query(k)
    BY <1>1, QueryTyped DEF Typed
<1>4. x.data = q.data /\ x.invalid /\ x.fetch = NoFetch
    BY <1>2, <1>3, FailedIs
<1>5. cache' = [cache EXCEPT ![k] = x] /\ links' = links /\ muts' = muts /\ excused' = excused
    BY <1>1, <1>2 DEF FetchFails, Failed
<1>6. Lost(cache[k], cache'[k])
    BY <1>1, <1>4, <1>5 DEF Typed, Lost
<1>7. Goes(k)
    BY <1>5, <1>6 DEF Goes
<1>8. (Deleting => Deleting') /\ (Telling => Telling')
    BY <1>5, StillTelling
<1>9. QED BY <1>5, <1>7, <1>8, OneGoes

(* A mutation goes on in the API, or is lost. *)
LEMMA BecomesGoes ==
    ASSUME Typed, NEW m \in muts, NEW n, Becomes(m, n), n.kind = m.kind, cache' = cache, excused \subseteq excused',
           \A c \in Code : Exists(c) => Exists(c)' \/ n.kind = "delete",
           Tells(n)' \/ (links' = links /\ (Tells(m) => Lists \subseteq excused'))
    PROVE  Classified
<1>1. Deleting => Deleting'
    BY DEF Becomes, Deleting
<1>2. n \in muts'
    BY DEF Becomes
<1>3. CASE n.kind = "delete"
    BY <1>2, <1>3 DEF Classified, Deleting
<1>4. CASE n.kind # "delete"
    <2>1. ASSUME Telling, links' = links PROVE Telling' \/ Lists \subseteq excused'
        <3>1. PICK x \in muts : Tells(x)
            BY <2>1 DEF Telling
        <3>2. CASE x = m
            BY <1>2, <3>1, <3>2 DEF Telling
        <3>3. CASE x # m
            <4>1. x \in muts' /\ Tells(x)'
                BY <2>1, <3>1, <3>3 DEF Becomes, Tells, Exists
            <4>2. QED BY <4>1 DEF Telling
        <3>4. QED BY <3>2, <3>3
    <2>2. Tells(n)' => Telling'
        BY <1>2 DEF Telling
    <2>3. QED BY <1>1, <1>4, <2>1, <2>2, UnchangedGoes DEF Classified, Ordinary
<1>5. QED BY <1>3, <1>4

LEMMA WriteGoes == ASSUME Typed, NEW m \in muts, Write(m) PROVE Classified
<1>1. Table /\ MutOk(m) /\ m \in Mut /\ m.pc = "sent" /\ cache' = cache /\ excused' = excused
    BY DEF Typed, Table, MutOk, Write
<1>2. CASE m.kind = "create"
    <2>1. PICK c \in Code : /\ links' = [links EXCEPT ![c] = [ver |-> 1, live |-> TRUE]]
                            /\ Becomes(m, Inserted(m, c))
        BY <1>2 DEF Write, Inserted
    <2>2. PICK x : x = Inserted(m, c)
        OBVIOUS
    <2>3. x.kind = "create" /\ x.pc = "done"
        BY <1>1, <1>2, <2>2, InsertedIs, LinksAssumption DEF Code
    <2>4. \A d \in Code : Exists(d) => Exists(d)'
        BY <1>1, <2>1 DEF Exists, Table
    <2>5. Tells(x)'
        BY <2>3 DEF Tells
    <2>6. QED BY <1>1, <1>2, <2>1, <2>2, <2>3, <2>4, <2>5, BecomesGoes
<1>3. CASE m.kind # "create" /\ ~Exists(m.code)
    <2>1. PICK x : x = [m EXCEPT !.pc = "failed"]
        OBVIOUS
    <2>2. links' = links /\ Becomes(m, x)
        BY <1>3, <2>1 DEF Write
    <2>3. x.kind = m.kind /\ x.pc = "failed"
        BY <1>1, <2>1, NowIs
    <2>4. Tells(x)' \/ ~Tells(m)
        BY <1>1, <2>3 DEF Tells
    <2>5. \A d \in Code : Exists(d) => Exists(d)'
        BY <2>2 DEF Exists
    <2>6. QED BY <1>1, <2>2, <2>3, <2>4, <2>5, BecomesGoes
<1>4. CASE m.kind # "create" /\ Exists(m.code)
    <2>1. PICK p \in {"done", "written"} : p = IF m.kind = "delete" THEN "done" ELSE "written"
        OBVIOUS
    <2>2. PICK x : x = [m EXCEPT !.pc = p]
        OBVIOUS
    <2>3. x.kind = m.kind /\ x.pc = p /\ x.code = m.code
        BY <1>1, <2>2, NowIs
    <2>4. Becomes(m, x) /\ links' = [links EXCEPT ![m.code] = [ver |-> @.ver + 1, live |-> m.kind # "delete"]]
        BY <1>4, <2>1, <2>2 DEF Write
    <2>5. m.code \in Code
        BY <1>1, <1>4 DEF MutOk, Born
    <2>6. m.kind # "delete" => \A d \in Code : (Exists(d) => Exists(d)') /\ (d = m.code => Exists(d)')
        BY <1>1, <2>4, <2>5 DEF Exists, Table
    <2>7. Tells(x)'
        BY <1>1, <1>4, <2>1, <2>3, <2>5, <2>6, KindsAre DEF Tells
    <2>8. QED BY <1>1, <2>3, <2>4, <2>6, <2>7, BecomesGoes
<1>5. QED BY <1>2, <1>3, <1>4

LEMMA ReadBackGoes == ASSUME Typed, NEW m \in muts, ReadBack(m) PROVE Classified
<1>1. Table /\ MutOk(m) /\ m \in Mut /\ m.pc = "written" /\ m.kind \in Updates /\ m.code \in Code
    <2>1. Table /\ MutOk(m) /\ m.pc = "written"
        BY DEF Typed, Table, ReadBack
    <2>2. QED BY <2>1 DEF MutOk, Born, Updates
<1>2. links' = links /\ cache' = cache /\ excused' = excused
    BY DEF ReadBack
<1>3. PICK x : x = IF Exists(m.code) THEN Read(m, links[m.code].ver) ELSE [m EXCEPT !.pc = "failed"]
    OBVIOUS
<1>4. Becomes(m, x)
    BY <1>3 DEF ReadBack, Read
<1>5. x.kind = m.kind /\ (Exists(m.code) => x.pc = "done")
    <2>1. links[m.code].ver \in 0..MaxOps + 1
        BY <1>1 DEF Table, Link
    <2>2. QED BY <1>1, <1>3, <2>1, ReadIs, NowIs
<1>6. Tells(x)' \/ ~Tells(m)
    BY <1>1, <1>5 DEF Tells, Updates
<1>7. \A d \in Code : Exists(d) => Exists(d)'
    BY <1>2 DEF Exists
<1>8. QED BY <1>2, <1>4, <1>5, <1>6, <1>7, BecomesGoes

LEMMA MutationLostGoes == ASSUME Typed, NEW m \in muts, MutationLost(m) PROVE Classified
<1>1. Table /\ MutOk(m) /\ m \in Mut
    BY DEF Typed, Table, MutOk
<1>2. links' = links /\ cache' = cache /\ excused \subseteq excused'
    BY DEF MutationLost
<1>3. PICK x : x = [m EXCEPT !.pc = "failed"]
    OBVIOUS
<1>4. x.kind = m.kind /\ Becomes(m, x)
    BY <1>1, <1>3, NowIs DEF MutationLost
<1>5. Tells(x)' \/ ~Tells(m) \/ Lists \subseteq excused'
    BY <1>4 DEF Tells, MutationLost
<1>6. \A d \in Code : Exists(d) => Exists(d)'
    BY <1>2 DEF Exists
<1>7. QED BY <1>2, <1>4, <1>5, <1>6, BecomesGoes

(* An answer that failed has nothing to tell, one that succeeded invalidates. *)
LEMMA SettledGoes ==
    ASSUME Typed, NEW m \in muts, Settled(m), m.kind # "delete", m.pc = "failed", UNCHANGED <<cache, excused>>
    PROVE  Classified
<1>1. muts' = muts \ {m} /\ links' = links
    BY DEF Settled
<1>2. ~Tells(m)
    BY DEF Tells
<1>3. Deleting => Deleting'
    BY <1>1 DEF Deleting
<1>4. Telling => Telling'
    BY <1>1, <1>2 DEF Telling, Tells, Exists
<1>5. \A d \in Code : Exists(d) => Exists(d)'
    BY <1>1 DEF Exists
<1>6. QED BY <1>1, <1>3, <1>4, <1>5, UnchangedGoes DEF Classified, Ordinary

LEMMA EveryStep == ASSUME Typed, [LinksNext]_linkVars PROVE Classified
<1>1. CASE Using
    <2>1. ASSUME AskShorten \/ \E c \in Code : AskToggle(c) \/ AskExpiry(c) PROVE Classified
        <3>1. PICK n : muts' = muts \cup {n} /\ UNCHANGED <<links, cache, excused>>
            BY <2>1 DEF AskShorten, AskToggle, AskExpiry, AskUpdate
        <3>2. QED BY <3>1, AsksGo
    <2>2. QED BY <1>1, <2>1, AskDeleteGoes, OpenGoes, RetryGoes DEF Using
<1>2. CASE Answering
    <2>1. ASSUME NEW m \in muts, CreateAnswered(m) PROVE Classified
        <3>1. Settled(m) /\ links' = links /\ m.kind # "delete"
            BY <2>1 DEF CreateAnswered, Settled
        <3>2. QED BY <2>1, <3>1, CreateAnsweredIs, SettledGoes DEF Classified
    <2>2. ASSUME NEW m \in muts, UpdateAnswered(m) PROVE Classified
        <3>1. Settled(m) /\ links' = links /\ m.kind # "delete"
            BY <2>2 DEF UpdateAnswered, Settled
        <3>2. QED BY <2>2, <3>1, UpdateAnsweredIs, SettledGoes DEF Classified
    <2>3. ASSUME NEW m \in muts, DeleteAnswered(m) PROVE Classified
        <3>1. links' = links
            BY <2>3 DEF DeleteAnswered, Settled
        <3>2. QED BY <2>3, <3>1, DeleteAnsweredIs DEF Classified
    <2>4. QED BY <1>2, <2>1, <2>2, <2>3, ReadPageGoes, ReadTotalGoes, ReadDetailGoes, FetchEndsGoes, WriteGoes,
              ReadBackGoes DEF Answering
<1>3. CASE Losing
    BY <1>3, FetchFailsGoes, MutationLostGoes DEF Losing
<1>4. CASE UNCHANGED linkVars
    <2>1. links' = links /\ cache' = cache /\ excused' = excused /\ muts' = muts
        BY <1>4 DEF linkVars
    <2>2. (Deleting => Deleting') /\ (Telling => Telling')
        BY <2>1, StillTelling
    <2>3. \A d \in Code : Exists(d) => Exists(d)'
        BY <2>1 DEF Exists
    <2>4. QED BY <2>1, <2>2, <2>3, UnchangedGoes DEF Classified, Ordinary
<1>5. QED BY <1>1, <1>2, <1>3, <1>4 DEF LinksNext

--------------------------------------------------------------------------------
(* The links: the pages are what the API holds *)

(* A fetch that has read a row of a link. *)
HasRead(k, c) ==
    LET f == cache[k].fetch IN
    \/ f.pc = "paged" /\ c \in DOMAIN f.urls
    \/ f.pc = "answered" /\ c \in DOMAIN f.data.urls
(* GhostIsDoomed of what is under way: a row that was read before its link went. *)
GhostsReadToo == \A k \in Lists, c \in Code : HasRead(k, c) /\ ~Exists(c) => Deleting \/ k \in excused

LEMMA PageOfExists == \A p, c : c \in DOMAIN PageOf(p) => Exists(c)
BY DEF PageOf

LEMMA GhostsStep ==
    ASSUME Typed, Classified, GhostIsDoomed, GhostsReadToo
    PROVE  GhostIsDoomed' /\ GhostsReadToo'
<1>1. CASE AllInvalid
    BY <1>1 DEF AllInvalid, GhostIsDoomed, GhostsReadToo, Corrected, HasRead
<1>2. CASE Deleting'
    BY <1>2 DEF Deleting, GhostIsDoomed, GhostsReadToo, Corrected
<1>3. CASE Ordinary
    <2>1. ASSUME NEW k \in Lists, NEW c \in Code, ~Exists(c)'
          PROVE  /\ Holds(k, c)' => Corrected(k, c)' \/ k \in excused'
                 /\ HasRead(k, c)' => k \in excused'
        <3>1. ~Exists(c) /\ ~Deleting /\ Goes(k)
            BY <1>3, <2>1 DEF Ordinary
        <3>2. HasRead(k, c) => k \in excused
            BY <3>1 DEF GhostsReadToo
        <3>3. Holds(k, c) => Corrected(k, c) \/ k \in excused
            BY <3>1 DEF GhostIsDoomed
        <3>4. PICK q : q = cache[k]
            OBVIOUS
        <3>5. PICK r : r = cache'[k]
            OBVIOUS
        <3>6. /\ (q.fetch.pc = "paged" /\ c \in DOMAIN q.fetch.urls)
                 \/ (q.fetch.pc = "answered" /\ c \in DOMAIN q.fetch.data.urls) => k \in excused
              /\ q.data # NoData /\ c \in DOMAIN q.data.urls =>
                    \/ q.invalid \/ q.fetch.pc = "asked" \/ k \in excused
                    \/ q.fetch.pc = "paged" /\ c \notin DOMAIN q.fetch.urls
                    \/ q.fetch.pc = "answered" /\ c \notin DOMAIN q.fetch.data.urls
            BY <3>1, <3>2, <3>3, <3>4 DEF HasRead, Holds, Corrected, Deleting
        <3>7. SUFFICES
              /\ r.data # NoData /\ c \in DOMAIN r.data.urls =>
                    \/ r.invalid \/ r.fetch.pc = "asked" \/ k \in excused'
                    \/ r.fetch.pc = "paged" /\ c \notin DOMAIN r.fetch.urls
                    \/ r.fetch.pc = "answered" /\ c \notin DOMAIN r.fetch.data.urls
              /\ (r.fetch.pc = "paged" /\ c \in DOMAIN r.fetch.urls)
                 \/ (r.fetch.pc = "answered" /\ c \in DOMAIN r.fetch.data.urls) => k \in excused'
            BY <3>5 DEF HasRead, Holds, Corrected
        <3>8. \/ Fetched(q, r)
              \/ /\ k \in excused => k \in excused'
                 /\ r = q \/ PageRead(k, q, r) \/ TotalRead(k, q, r) \/ Shown(q, r) \/ Lost(q, r)
            BY <3>1, <3>4, <3>5 DEF Goes
        <3>9. CASE Fetched(q, r)
            BY <3>9, FetchesAre DEF Fetched
        <3>10. CASE (k \in excused => k \in excused') /\ r = q
            BY <3>6, <3>10
        <3>11. CASE PageRead(k, q, r)
            <4>1. r.data = q.data /\ r.invalid = q.invalid /\ r.fetch.pc = "paged" /\ r.fetch.urls = PageOf(k[2])
                BY <3>11 DEF PageRead
            <4>2. c \notin DOMAIN r.fetch.urls
                BY <3>1, <4>1, PageOfExists
            <4>3. QED BY <4>1, <4>2
        <3>12. CASE (k \in excused => k \in excused') /\ TotalRead(k, q, r)
            <4>1. /\ r.data = q.data /\ r.invalid = q.invalid /\ q.fetch.pc = "paged" /\ r.fetch.pc = "answered"
                  /\ r.fetch.data = WithTotal(k[2], q.fetch.urls)
                BY <3>12 DEF TotalRead
            <4>2. r.fetch.data.urls = q.fetch.urls
                BY <4>1 DEF WithTotal
            <4>3. QED BY <3>6, <3>12, <4>1, <4>2
        <3>13. CASE (k \in excused => k \in excused') /\ Shown(q, r)
            BY <3>6, <3>13, FetchesAre DEF Shown
        <3>14. CASE Lost(q, r)
            BY <3>14, FetchesAre DEF Lost
        <3>15. QED BY <3>8, <3>9, <3>10, <3>11, <3>12, <3>13, <3>14
    <2>2. QED BY <2>1 DEF GhostIsDoomed, GhostsReadToo
<1>4. QED BY <1>1, <1>2, <1>3 DEF Classified

(* What a page shows, and what its fetch has read, is what the API holds. *)
ListTrue(k) ==
    LET q == cache[k] IN
    /\ q.fetch.pc = "paged" => q.fetch.urls = PageOf(k[2])
    /\ q.fetch.pc = "answered" => q.fetch.data = Server(k)
    /\ q.data # NoData /\ ~q.invalid /\ ~Fetching(q) => q.data = Server(k)
ListsTrue == Telling \/ \A k \in Lists \ excused : ListTrue(k)

LEMMA SameServer ==
    ASSUME links' = links
    PROVE  /\ \A k : Server(k)' = Server(k)
           /\ \A k : PageOf(k[2])' = PageOf(k[2])
BY DEF Server, PageOf, CountAll, WithTotal, Newer, Exists

LEMMA ListsStep ==
    ASSUME Typed, Classified, ListsTrue
    PROVE  ListsTrue'
<1>1. CASE AllInvalid
    <2>1. ASSUME NEW k \in Lists, k \notin excused' PROVE ListTrue(k)'
        BY <1>1, <2>1 DEF AllInvalid, ListTrue
    <2>2. QED BY <2>1 DEF ListsTrue
<1>2. CASE Deleting'
    BY <1>2 DEF ListsTrue, Deleting, Telling, Tells
<1>3. CASE Telling'
    BY <1>3 DEF ListsTrue
<1>4. CASE Ordinary /\ ~Telling'
    <2>1. links' = links /\ (Telling => Lists \subseteq excused')
        BY <1>4 DEF Ordinary
    <2>2. ASSUME NEW k \in Lists, k \notin excused' PROVE ListTrue(k)'
        <3>1. Goes(k) /\ ~Telling
            BY <1>4, <2>1, <2>2 DEF Ordinary
        <3>2. k \notin excused => ListTrue(k)
            BY <3>1 DEF ListsTrue
        <3>3. PICK q : q = cache[k]
            OBVIOUS
        <3>4. PICK r : r = cache'[k]
            OBVIOUS
        <3>5. PICK s : s = Server(k)
            OBVIOUS
        <3>6. PICK p : p = PageOf(k[2])
            OBVIOUS
        <3>7. s = WithTotal(k[2], p)
            BY <3>5, <3>6 DEF Server
        <3>8. k \notin excused => /\ q.fetch.pc = "paged" => q.fetch.urls = p
                                  /\ q.fetch.pc = "answered" => q.fetch.data = s
                                  /\ q.data # NoData /\ ~q.invalid /\ q.fetch.pc = "none" => q.data = s
            BY <3>2, <3>3, <3>5, <3>6 DEF ListTrue, Fetching
        <3>9. SUFFICES /\ r.fetch.pc = "paged" => r.fetch.urls = p
                       /\ r.fetch.pc = "answered" => r.fetch.data = s
                       /\ r.data # NoData /\ ~r.invalid /\ r.fetch.pc = "none" => r.data = s
            <4>1. Server(k)' = s /\ PageOf(k[2])' = p
                BY <2>1, <3>5, <3>6, SameServer
            <4>2. QED BY <3>4, <4>1 DEF ListTrue, Fetching
        <3>10. \/ Fetched(q, r)
               \/ /\ k \notin excused
                  /\ r = q \/ PageRead(k, q, r) \/ TotalRead(k, q, r) \/ Shown(q, r) \/ Lost(q, r)
            BY <2>2, <3>1, <3>3, <3>4 DEF Goes
        <3>11. CASE Fetched(q, r)
            BY <3>11, FetchesAre DEF Fetched
        <3>12. CASE k \notin excused /\ r = q
            BY <3>8, <3>12
        <3>13. CASE PageRead(k, q, r)
            BY <3>6, <3>13 DEF PageRead
        <3>14. CASE k \notin excused /\ TotalRead(k, q, r)
            BY <3>7, <3>8, <3>14 DEF TotalRead
        <3>15. CASE k \notin excused /\ Shown(q, r)
            BY <3>8, <3>15, FetchesAre DEF Shown
        <3>16. CASE Lost(q, r)
            BY <3>16, FetchesAre DEF Lost
        <3>17. QED BY <3>10, <3>11, <3>12, <3>13, <3>14, <3>15, <3>16
    <2>3. QED BY <2>2 DEF ListsTrue
<1>5. QED BY <1>1, <1>2, <1>3, <1>4 DEF Classified

(* The page of a link: a mutation of the link is still to be answered, or what it *)
(* shows is what the API holds.                                                   *)
TellsOf(c) == \E m \in muts : m.code = c /\ m.kind # "create" /\ Tells(m)
DetailTrue(c) ==
    LET k == <<"detail", c>> q == cache[k] IN
    \/ k \in excused \/ TellsOf(c)
    \/ q.data # NoData /\ ~q.invalid /\ ~Fetching(q) => q.data = Server(k)
DetailsTrue == \A c \in Code : DetailTrue(c)

(* A step that leaves a link's page, and what the API holds of the link, alone. *)
Untouched(c) ==
    LET k == <<"detail", c>> IN
    /\ links'[c] = links[c] /\ cache'[k] = cache[k] /\ (k \in excused => k \in excused')
    /\ TellsOf(c) => TellsOf(c)' \/ k \in excused'

LEMMA ServerOf == ASSUME NEW c \in Code, links'[c] = links[c] PROVE Server(<<"detail", c>>)' = Server(<<"detail", c>>)
<1>1. <<"detail", c>> \notin Lists /\ <<"detail", c>>[2] = c
    BY KeysDiffer
<1>2. Lists' = Lists
    BY DEF Lists
<1>3. QED BY <1>1, <1>2 DEF Server, Exists

LEMMA UntouchedTrue ==
    ASSUME NEW c \in Code, Untouched(c), DetailTrue(c)
    PROVE  DetailTrue(c)'
BY ServerOf DEF Untouched, DetailTrue

(* Which links' mutations a step leaves to tell. *)
LEMMA TellsKept ==
    ASSUME NEW c \in Code, \A m \in muts : m.code = c /\ Tells(m) => \E x \in muts' :
                 x.code = c /\ x.kind = m.kind /\ (m.kind # "create" => x.pc = m.pc), links'[c] = links[c]
    PROVE  TellsOf(c) => TellsOf(c)'
<1>1. ASSUME NEW m \in muts, m.code = c, m.kind # "create", Tells(m) PROVE TellsOf(c)'
    <2>1. PICK x \in muts' : x.code = c /\ x.kind = m.kind /\ x.pc = m.pc
        BY <1>1
    <2>2. Tells(x)'
        BY <1>1, <2>1 DEF Tells, Exists
    <2>3. QED BY <1>1, <2>1, <2>2 DEF TellsOf
<1>2. QED BY <1>1 DEF TellsOf

LEMMA OthersUntouched ==
    ASSUME Typed, NEW c \in Code, NEW k \in Key, NEW x, k # <<"detail", c>>, cache' = [cache EXCEPT ![k] = x],
           links' = links, muts' = muts, excused \ {k} \subseteq excused'
    PROVE  Untouched(c)
<1>1. TellsOf(c) => TellsOf(c)'
    BY DEF TellsOf, Tells, Exists
<1>2. <<"detail", c>> \in Key
    BY KeysDiffer
<1>3. QED BY <1>1, <1>2 DEF Untouched, Typed

LEMMA AsksDetail ==
    ASSUME Typed, NEW c \in Code, NEW n, muts' = muts \cup {n}, UNCHANGED <<links, cache, excused>>
    PROVE  Untouched(c)
BY DEF Untouched, TellsOf, Tells, Exists

LEMMA AskDeleteDetail ==
    ASSUME Typed, NEW c \in Code, NEW d \in Code, AskDelete(d)
    PROVE  Untouched(c)
<1>1. PICK k : OnMutate(d, k) /\ (k = screen \/ k = <<"list", 1>>)
    BY DEF AskDelete
<1>2. PICK n : muts' = {IF Unmounts(m, d, k) THEN Left(m, k) ELSE m : m \in muts} \cup {n}
    BY <1>1 DEF OnMutate
<1>3. ASSUME NEW m \in muts, m.code = c
      PROVE  \E x \in muts' : x.code = c /\ x.kind = m.kind /\ x.pc = m.pc
    <2>1. PICK x \in muts' : x = IF Unmounts(m, d, k) THEN Left(m, k) ELSE m
        BY <1>2
    <2>2. x.code = m.code /\ x.kind = m.kind /\ x.pc = m.pc
        BY <2>1, LeftOk DEF Typed, Table
    <2>3. QED BY <1>3, <2>1, <2>2
<1>4. links' = links /\ excused' = excused
    BY <1>1 DEF OnMutate
<1>5. TellsOf(c) => TellsOf(c)'
    BY <1>3, <1>4, TellsKept
<1>6. cache'[<<"detail", c>>] = cache[<<"detail", c>>]
    <2>1. PICK e \in Key : e = <<"detail", c>> /\ e \notin Lists /\ (e = k => k = screen)
        BY <1>1, KeysDiffer
    <2>2. PICK after : after = [x \in Key |-> IF x \in Lists THEN WithoutRow(Cancelled(cache[x]), d) ELSE cache[x]]
        OBVIOUS
    <2>3. cache' = IF k # screen /\ after[k].data = NoData THEN [after EXCEPT ![k] = Refetched(@)] ELSE after
        BY <1>1, <2>2 DEF OnMutate
    <2>4. cache'[e] = after[e] /\ after[e] = cache[e]
        BY <2>1, <2>2, <2>3
    <2>5. QED BY <2>1, <2>4
<1>7. QED BY <1>4, <1>5, <1>6 DEF Untouched

LEMMA OpenDetail ==
    ASSUME Typed, NEW c \in Code, NEW k \in Key, NEW old \in BOOLEAN, Open(k, old)
    PROVE  Untouched(c) \/ DetailTrue(c)'
<1>1. ASSUME NEW m \in muts, m.code = c
      PROVE  \E x \in muts' : x.code = c /\ x.kind = m.kind /\ x.pc = m.pc
    <2>1. PICK x \in muts' : x = Left(m, k)
        BY DEF Open
    <2>2. x.code = m.code /\ x.kind = m.kind /\ x.pc = m.pc
        BY <2>1, LeftOk DEF Typed, Table
    <2>3. QED BY <1>1, <2>1, <2>2
<1>2. links' = links
    BY DEF Open
<1>3. TellsOf(c) => TellsOf(c)'
    BY <1>1, <1>2, TellsKept
<1>4. PICK q : q = cache[k]
    OBVIOUS
<1>5. PICK x : x = Refetched(q)
    OBVIOUS
<1>6. q \in Query(k) /\ <<"detail", c>> \in Key
    BY <1>4, QueryTyped, KeysDiffer DEF Typed
<1>7. x.fetch.pc = "asked"
    BY <1>5, <1>6, RefetchedIs, FetchesAre
<1>8. cache' = cache \/ cache' = [cache EXCEPT ![k] = x]
    BY <1>4, <1>5 DEF Open, Mounted
<1>9. CASE cache' = cache
    <2>1. excused' = excused
        BY <1>9 DEF Open
    <2>2. QED BY <1>2, <1>3, <1>9, <2>1 DEF Untouched
<1>10. CASE cache' = [cache EXCEPT ![k] = x] /\ k = <<"detail", c>>
    <2>1. cache'[<<"detail", c>>].fetch.pc = "asked"
        BY <1>7, <1>10 DEF Typed
    <2>2. QED BY <2>1 DEF DetailTrue, Fetching
<1>11. CASE cache' = [cache EXCEPT ![k] = x] /\ k # <<"detail", c>>
    <2>1. excused \ {k} \subseteq excused'
        BY DEF Open
    <2>2. QED BY <1>2, <1>3, <1>6, <1>11, <2>1 DEF Untouched, Typed
<1>12. QED BY <1>8, <1>9, <1>10, <1>11

LEMMA RetryDetail == ASSUME Typed, NEW c \in Code, Retry PROVE Untouched(c) \/ DetailTrue(c)'
<1>1. PICK q : q = cache[screen]
    OBVIOUS
<1>2. PICK x : x = Refetched(q)
    OBVIOUS
<1>3. q \in Query(screen) /\ screen \in Key /\ links' = links /\ muts' = muts
    BY <1>1, QueryTyped DEF Typed, Retry
<1>4. x.fetch.pc = "asked"
    BY <1>2, <1>3, RefetchedIs, FetchesAre
<1>5. cache' = [cache EXCEPT ![screen] = x] /\ excused \ {screen} \subseteq excused'
    BY <1>1, <1>2 DEF Retry
<1>6. CASE screen = <<"detail", c>>
    <2>1. cache'[<<"detail", c>>].fetch.pc = "asked"
        BY <1>3, <1>4, <1>5, <1>6 DEF Typed
    <2>2. QED BY <2>1 DEF DetailTrue, Fetching
<1>7. CASE screen # <<"detail", c>>
    BY <1>3, <1>5, <1>7, OthersUntouched
<1>8. QED BY <1>6, <1>7

(* While a link is fetched, what is on the screen is not taken for its last word. *)
LEMMA FetchingDetail ==
    ASSUME Typed, NEW c \in Code, NEW k \in Key, NEW x, x.fetch.pc # "none", cache' = [cache EXCEPT ![k] = x],
           links' = links, muts' = muts, excused' = excused
    PROVE  Untouched(c) \/ DetailTrue(c)'
<1>1. CASE k # <<"detail", c>>
    BY <1>1, OthersUntouched
<1>2. CASE k = <<"detail", c>>
    <2>1. cache'[<<"detail", c>>].fetch.pc # "none"
        BY <1>2 DEF Typed
    <2>2. QED BY <2>1 DEF DetailTrue, Fetching
<1>3. QED BY <1>1, <1>2

LEMMA ReadsDetail ==
    ASSUME Typed, NEW c \in Code, NEW k \in Key, ReadPage(k) \/ ReadTotal(k) \/ ReadDetail(k)
    PROVE  Untouched(c) \/ DetailTrue(c)'
<1>1. PICK q \in Query(k) : q = cache[k]
    BY QueryTyped DEF Typed
<1>2. links' = links /\ muts' = muts /\ excused' = excused
    BY DEF ReadPage, ReadTotal, ReadDetail
<1>3. CASE ReadPage(k)
    <2>1. PICK f : f = [pc |-> "paged", urls |-> PageOf(k[2])]
        OBVIOUS
    <2>2. PICK x : x = [q EXCEPT !.fetch = f]
        OBVIOUS
    <2>3. cache' = [cache EXCEPT ![k] = x] /\ f.pc # "none"
        BY <1>1, <1>3, <2>1, <2>2 DEF ReadPage
    <2>4. x.fetch = f
        BY <1>1, <2>2 DEF Query
    <2>5. QED BY <1>2, <2>3, <2>4, FetchingDetail
<1>4. CASE ReadTotal(k)
    <2>1. PICK f : f = [pc |-> "answered", data |-> WithTotal(k[2], q.fetch.urls)]
        OBVIOUS
    <2>2. PICK x : x = [q EXCEPT !.fetch = f]
        OBVIOUS
    <2>3. cache' = [cache EXCEPT ![k] = x] /\ f.pc # "none"
        BY <1>1, <1>4, <2>1, <2>2 DEF ReadTotal
    <2>4. x.fetch = f
        BY <1>1, <2>2 DEF Query
    <2>5. QED BY <1>2, <2>3, <2>4, FetchingDetail
<1>5. CASE ReadDetail(k)
    <2>1. PICK f : f = [pc |-> "answered", data |-> Server(k)]
        OBVIOUS
    <2>2. PICK x : x = [q EXCEPT !.fetch = f]
        OBVIOUS
    <2>3. cache' = [cache EXCEPT ![k] = x] /\ f.pc # "none"
        BY <1>1, <1>5, <2>1, <2>2 DEF ReadDetail
    <2>4. x.fetch = f
        BY <1>1, <2>2 DEF Query
    <2>5. QED BY <1>2, <2>3, <2>4, FetchingDetail
<1>6. QED BY <1>3, <1>4, <1>5

LEMMA FetchFailsDetail ==
    ASSUME Typed, NEW c \in Code, NEW k \in Key, FetchFails(k)
    PROVE  Untouched(c) \/ DetailTrue(c)'
<1>1. PICK q : q = cache[k]
    OBVIOUS
<1>2. PICK x : x = Failed(q, "failed")
    OBVIOUS
<1>3. q \in Query(k)
    BY <1>1, QueryTyped DEF Typed
<1>4. x.invalid
    BY <1>2, <1>3, FailedIs
<1>5. cache' = [cache EXCEPT ![k] = x] /\ links' = links /\ muts' = muts /\ excused' = excused
    BY <1>1, <1>2 DEF FetchFails, Failed
<1>6. CASE k # <<"detail", c>>
    BY <1>5, <1>6, OthersUntouched
<1>7. CASE k = <<"detail", c>>
    <2>1. cache'[<<"detail", c>>].invalid
        BY <1>4, <1>5, <1>7 DEF Typed
    <2>2. QED BY <2>1 DEF DetailTrue
<1>8. QED BY <1>6, <1>7

LEMMA FetchEndsDetail ==
    ASSUME Typed, NEW c \in Code, NEW k \in Key, FetchEnds(k)
    PROVE  Untouched(c) \/ DetailTrue(c)'
<1>1. PICK q : q = cache[k]
    OBVIOUS
<1>2. PICK d : d = q.fetch.data
    OBVIOUS
<1>3. q \in Query(k) /\ q.fetch.pc = "answered" /\ links' = links /\ muts' = muts
    BY <1>1, QueryTyped DEF Typed, FetchEnds
<1>4. PICK x : x = IF d = NoData THEN Failed(q, "missing") ELSE [WithData(q, d) EXCEPT !.fetch = NoFetch]
    OBVIOUS
<1>5. cache' = [cache EXCEPT ![k] = x]
    BY <1>1, <1>2, <1>4 DEF FetchEnds, Failed
<1>6. CASE k # <<"detail", c>>
    <2>1. excused \ {k} \subseteq excused'
        BY DEF FetchEnds
    <2>2. QED BY <1>3, <1>5, <1>6, <2>1, OthersUntouched
<1>7. CASE k = <<"detail", c>> /\ d = NoData
    <2>1. x.invalid
        BY <1>3, <1>4, <1>7, FailedIs
    <2>2. cache'[<<"detail", c>>].invalid
        BY <1>5, <1>7, <2>1 DEF Typed
    <2>3. QED BY <2>2 DEF DetailTrue
<1>8. CASE k = <<"detail", c>> /\ d # NoData
    <2>1. d \in Answers(k)
        BY <1>2, <1>3, FetchIs, QueryIs
    <2>2. PICK y : y = WithData(q, d)
        OBVIOUS
    <2>3. y \in Query(k) /\ y.data = d
        BY <1>3, <2>1, <2>2, WithDataIs
    <2>4. x = [y EXCEPT !.fetch = NoFetch]
        BY <1>4, <1>8, <2>2
    <2>5. x.data = d
        BY <2>3, <2>4, WithFetchIs, FetchesAre
    <2>6. cache'[<<"detail", c>>].data = d
        BY <1>5, <1>8, <2>5 DEF Typed
    <2>7. d # Server(k) => k \in excused'
        BY <1>1, <1>2, <1>8, KeysDiffer DEF FetchEnds, Overtaken
    <2>8. Server(k)' = Server(k)
        BY <1>3, SameServer
    <2>9. QED BY <1>8, <2>6, <2>7, <2>8 DEF DetailTrue
<1>9. QED BY <1>6, <1>7, <1>8

(* A mutation goes on in the API, or is lost. *)
LEMMA BecomesDetail ==
    ASSUME Typed, NEW c \in Code, NEW m \in muts, NEW n, Becomes(m, n), cache' = cache, excused \subseteq excused',
           links'[c] = links[c],
           m.code = c /\ m.kind # "create" /\ Tells(m) =>
               (n.code = c /\ n.kind = m.kind /\ Tells(n)') \/ <<"detail", c>> \in excused'
    PROVE  Untouched(c)
<1>1. ASSUME TellsOf(c) PROVE TellsOf(c)' \/ <<"detail", c>> \in excused'
    <2>1. PICK x \in muts : x.code = c /\ x.kind # "create" /\ Tells(x)
        BY <1>1 DEF TellsOf
    <2>2. CASE x = m
        BY <2>1, <2>2 DEF Becomes, TellsOf
    <2>3. CASE x # m
        <3>1. x \in muts'
            BY <2>3 DEF Becomes
        <3>2. Tells(x)'
            BY <2>1 DEF Tells, Exists
        <3>3. QED BY <2>1, <3>1, <3>2 DEF TellsOf
    <2>4. QED BY <2>2, <2>3
<1>2. QED BY <1>1 DEF Untouched

LEMMA WriteDetail ==
    ASSUME Typed, NEW c \in Code, NEW m \in muts, Write(m)
    PROVE  Untouched(c) \/ DetailTrue(c)'
<1>1. Table /\ MutOk(m) /\ m \in Mut /\ m.pc = "sent" /\ cache' = cache /\ excused' = excused
    BY DEF Typed, Table, MutOk, Write
<1>2. CASE m.kind = "create"
    <2>1. PICK d \in Code : /\ links[d].ver = 0 /\ links' = [links EXCEPT ![d] = [ver |-> 1, live |-> TRUE]]
                            /\ Becomes(m, Inserted(m, d))
        BY <1>2 DEF Write, Inserted
    <2>2. CASE d = c
        <3>1. c \notin Born
            BY <2>1, <2>2 DEF Born
        <3>2. PICK k \in Details : k = <<"detail", c>> /\ k[2] = c /\ k \in Key
            BY KeysDiffer
        <3>3. QueryOk(k, cache[k])
            BY <3>2 DEF Typed
        <3>4. cache[k].data = NoData
            BY <3>1, <3>2, <3>3 DEF QueryOk
        <3>5. cache'[<<"detail", c>>].data = NoData
            BY <1>1, <3>2, <3>4
        <3>6. QED BY <3>5 DEF DetailTrue
    <2>3. CASE d # c
        <3>1. links'[c] = links[c]
            BY <1>1, <2>1, <2>3 DEF Table
        <3>2. QED BY <1>1, <1>2, <2>1, <3>1, BecomesDetail
    <2>4. QED BY <2>2, <2>3
<1>3. CASE m.kind # "create" /\ ~Exists(m.code)
    <2>1. PICK x : x = [m EXCEPT !.pc = "failed"]
        OBVIOUS
    <2>2. links' = links /\ Becomes(m, x)
        BY <1>3, <2>1 DEF Write
    <2>3. x.kind = m.kind /\ x.pc = "failed" /\ x.code = m.code
        BY <1>1, <2>1, NowIs
    <2>4. Tells(m) => Tells(x)'
        BY <1>1, <2>3 DEF Tells
    <2>5. QED BY <1>1, <2>2, <2>3, <2>4, BecomesDetail
<1>4. CASE m.kind # "create" /\ Exists(m.code)
    <2>1. PICK p \in {"done", "written"} : p = IF m.kind = "delete" THEN "done" ELSE "written"
        OBVIOUS
    <2>2. PICK x : x = [m EXCEPT !.pc = p]
        OBVIOUS
    <2>3. x.kind = m.kind /\ x.pc = p /\ x.code = m.code
        BY <1>1, <2>2, NowIs
    <2>4. Becomes(m, x) /\ links' = [links EXCEPT ![m.code] = [ver |-> @.ver + 1, live |-> m.kind # "delete"]]
        BY <1>4, <2>1, <2>2 DEF Write
    <2>5. m.code \in Code
        BY <1>1, <1>4 DEF MutOk, Born
    <2>6. CASE m.code = c
        <3>1. m.kind # "delete" => Exists(c)'
            BY <1>1, <2>4, <2>5, <2>6 DEF Exists, Table
        <3>2. Tells(x)'
            BY <1>1, <1>4, <2>1, <2>3, <2>6, <3>1, KindsAre DEF Tells
        <3>3. x \in muts'
            BY <2>4 DEF Becomes
        <3>4. QED BY <1>4, <2>3, <2>6, <3>2, <3>3 DEF DetailTrue, TellsOf
    <2>7. CASE m.code # c
        <3>1. links'[c] = links[c]
            BY <1>1, <2>4, <2>5, <2>7 DEF Table
        <3>2. QED BY <1>1, <2>4, <2>7, <3>1, BecomesDetail
    <2>8. QED BY <2>6, <2>7
<1>5. QED BY <1>2, <1>3, <1>4

LEMMA ReadBackDetail ==
    ASSUME Typed, NEW c \in Code, NEW m \in muts, ReadBack(m)
    PROVE  Untouched(c)
<1>1. Table /\ MutOk(m) /\ m \in Mut /\ m.pc = "written" /\ m.kind \in Updates /\ m.code \in Code
    <2>1. Table /\ MutOk(m) /\ m.pc = "written"
        BY DEF Typed, Table, ReadBack
    <2>2. QED BY <2>1 DEF MutOk, Born, Updates
<1>2. links' = links /\ cache' = cache /\ excused' = excused
    BY DEF ReadBack
<1>3. PICK x : x = IF Exists(m.code) THEN Read(m, links[m.code].ver) ELSE [m EXCEPT !.pc = "failed"]
    OBVIOUS
<1>4. Becomes(m, x)
    BY <1>3 DEF ReadBack, Read
<1>5. x.kind = m.kind /\ x.code = m.code /\ (Exists(m.code) => x.pc = "done")
    <2>1. links[m.code].ver \in 0..MaxOps + 1
        BY <1>1 DEF Table, Link
    <2>2. QED BY <1>1, <1>3, <2>1, ReadIs, NowIs
<1>6. Tells(m) => Tells(x)'
    BY <1>1, <1>5 DEF Tells, Updates
<1>7. QED BY <1>2, <1>4, <1>5, <1>6, BecomesDetail

LEMMA MutationLostDetail ==
    ASSUME Typed, NEW c \in Code, NEW m \in muts, MutationLost(m)
    PROVE  Untouched(c)
<1>1. Table /\ MutOk(m) /\ m \in Mut
    BY DEF Typed, Table, MutOk
<1>2. links' = links /\ cache' = cache /\ excused \subseteq excused'
    BY DEF MutationLost
<1>3. PICK x : x = [m EXCEPT !.pc = "failed"]
    OBVIOUS
<1>4. x.kind = m.kind /\ x.code = m.code /\ Becomes(m, x)
    BY <1>1, <1>3, NowIs DEF MutationLost
<1>5. m.code = c /\ m.kind # "create" /\ Tells(m) => Tells(x)' \/ <<"detail", c>> \in excused'
    BY <1>4, KeysDiffer DEF Tells, MutationLost
<1>6. QED BY <1>2, <1>4, <1>5, BecomesDetail

(* An answer arrives. *)
LEMMA SettledDetail ==
    ASSUME Typed, NEW c \in Code, NEW m \in muts, Settled(m),
           m.kind = "create" \/ m.code # c \/ ~Tells(m),
           cache'[<<"detail", c>>] = cache[<<"detail", c>>],
           <<"detail", c>> \in excused => <<"detail", c>> \in excused'
    PROVE  Untouched(c)
<1>1. links' = links /\ muts' = muts \ {m}
    BY DEF Settled
<1>2. ASSUME TellsOf(c) PROVE TellsOf(c)'
    <2>1. PICK x \in muts : x.code = c /\ x.kind # "create" /\ Tells(x)
        BY <1>2 DEF TellsOf
    <2>2. x \in muts' /\ Tells(x)'
        BY <1>1, <2>1 DEF Tells, Exists
    <2>3. QED BY <2>1, <2>2 DEF TellsOf
<1>3. QED BY <1>1, <1>2 DEF Untouched

LEMMA AnswersDetail ==
    ASSUME Typed, NEW c \in Code, NEW m \in muts, CreateAnswered(m) \/ UpdateAnswered(m) \/ DeleteAnswered(m)
    PROVE  Untouched(c) \/ DetailTrue(c)'
<1>0. PICK k \in Details : k = <<"detail", c>> /\ k[2] = c
    BY KeysDiffer
<1>1. CASE CreateAnswered(m)
    <2>1. Settled(m)
        BY <1>1 DEF CreateAnswered
    <2>2. QED BY <1>0, <1>1, <2>1, CreateAnsweredIs, SettledDetail
<1>2. CASE UpdateAnswered(m)
    <2>1. Settled(m) /\ links' = links
        BY <1>2 DEF UpdateAnswered, Settled
    <2>2. CASE m.code # c
        <3>1. k # <<"detail", m.code>>
            BY <1>0, <2>2, KeysDiffer
        <3>2. cache'[k] = cache[k] /\ (k \in excused => k \in excused')
            BY <1>2, <3>1, UpdateAnsweredIs
        <3>3. QED BY <1>0, <2>1, <2>2, <3>2, SettledDetail
    <2>3. CASE m.code = c /\ m.pc = "failed"
        <3>1. UNCHANGED <<cache, excused>> /\ m.kind \in Updates
            BY <1>2, <2>3, UpdateAnsweredIs
        <3>2. ~Tells(m)
            BY <2>3, <3>1 DEF Tells, Updates
        <3>3. QED BY <2>1, <3>1, <3>2, SettledDetail
    <2>4. CASE m.code = c /\ m.pc # "failed"
        <3>1. k \in excused' \/ cache'[k].data = Server(k)
            BY <1>0, <1>2, <2>4, UpdateAnsweredIs
        <3>2. Server(k)' = Server(k)
            BY <2>1, SameServer
        <3>3. QED BY <1>0, <3>1, <3>2 DEF DetailTrue
    <2>5. QED BY <2>2, <2>3, <2>4
<1>3. CASE DeleteAnswered(m)
    <2>1. Settled(m)
        BY <1>3 DEF DeleteAnswered
    <2>2. CASE m.code # c
        <3>1. k # <<"detail", m.code>>
            BY <1>0, <2>2, KeysDiffer
        <3>2. cache'[k] = cache[k] /\ (k \in excused => k \in excused')
            BY <1>3, <3>1, DeleteAnsweredIs
        <3>3. QED BY <1>0, <2>1, <2>2, <3>2, SettledDetail
    <2>3. CASE m.code = c
        <3>1. cache'[<<"detail", c>>].data = NoData
            BY <1>3, <2>3, DeleteAnsweredIs
        <3>2. QED BY <3>1 DEF DetailTrue
    <2>4. QED BY <2>2, <2>3
<1>4. QED BY <1>1, <1>2, <1>3

LEMMA DetailsStep ==
    ASSUME Typed, [LinksNext]_linkVars, DetailsTrue
    PROVE  DetailsTrue'
<1>1. ASSUME NEW c \in Code PROVE Untouched(c) \/ DetailTrue(c)'
    <2>1. CASE Using
        <3>1. ASSUME AskShorten \/ \E d \in Code : AskToggle(d) \/ AskExpiry(d) PROVE Untouched(c)
            <4>1. PICK n : muts' = muts \cup {n} /\ UNCHANGED <<links, cache, excused>>
                BY <3>1 DEF AskShorten, AskToggle, AskExpiry, AskUpdate
            <4>2. QED BY <4>1, AsksDetail
        <3>2. QED BY <2>1, <3>1, AskDeleteDetail, OpenDetail, RetryDetail DEF Using
    <2>2. CASE Answering
        BY <2>2, ReadsDetail, FetchEndsDetail, WriteDetail, ReadBackDetail, AnswersDetail DEF Answering
    <2>3. CASE Losing
        BY <2>3, FetchFailsDetail, MutationLostDetail DEF Losing
    <2>4. CASE UNCHANGED linkVars
        BY <2>4 DEF linkVars, Untouched, TellsOf, Tells, Exists
    <2>5. QED BY <2>1, <2>2, <2>3, <2>4 DEF LinksNext
<1>2. ASSUME NEW c \in Code PROVE DetailTrue(c)'
    BY <1>1, UntouchedTrue DEF DetailsTrue
<1>3. QED BY <1>2 DEF DetailsTrue

--------------------------------------------------------------------------------
(* The links: the invariant *)

(* A page that shows or has read what is no longer so is explained: by a mutation    *)
(* whose answer invalidates it (useDeleteUrl, useUpdateUrl, useCreateShortUrl), by   *)
(* its own flags, or by what the tab cannot know (excused).                          *)
LinksInv == Typed /\ GhostIsDoomed /\ GhostsReadToo /\ ListsTrue /\ DetailsTrue

LEMMA LinksStart == ASSUME LinksInit PROVE LinksInv
<1>1. Typed
    BY TypedStart
<1>2. ASSUME NEW k \in Key PROVE cache[k].data = NoData /\ cache[k].fetch.pc \in {"none", "asked"}
    <2>1. PICK x : x = [Empty EXCEPT !.fetch = Asked]
        OBVIOUS
    <2>2. Empty \in Query(k) /\ Empty.data = NoData /\ Empty.fetch = NoFetch
        BY EmptyIs
    <2>3. x.data = NoData /\ x.fetch = Asked
        BY <2>1, <2>2, WithFetchIs, FetchesAre
    <2>4. cache[k] \in {Empty, x}
        BY <2>1 DEF LinksInit
    <2>5. QED BY <2>2, <2>3, <2>4, FetchesAre
<1>3. GhostIsDoomed /\ GhostsReadToo
    BY <1>2, KeysDiffer DEF GhostIsDoomed, GhostsReadToo, Holds, HasRead
<1>4. ListsTrue /\ DetailsTrue
    BY <1>2, KeysDiffer DEF ListsTrue, ListTrue, DetailsTrue, DetailTrue
<1>5. QED BY <1>1, <1>3, <1>4 DEF LinksInv

LEMMA LinksStep == ASSUME LinksInv, [LinksNext]_linkVars PROVE LinksInv'
<1>1. Typed' /\ Classified
    BY TypedStep, EveryStep DEF LinksInv
<1>2. GhostIsDoomed' /\ GhostsReadToo'
    BY <1>1, GhostsStep DEF LinksInv
<1>3. ListsTrue'
    BY <1>1, ListsStep DEF LinksInv
<1>4. DetailsTrue'
    BY DetailsStep DEF LinksInv
<1>5. QED BY <1>1, <1>2, <1>3, <1>4 DEF LinksInv

LEMMA LinksAlways == LinksSpec => []LinksInv
BY LinksStart, LinksStep, PTL DEF LinksSpec

(* useDeleteUrl() removes the row in onMutate(), restores its snapshot in onError()  *)
(* and invalidates the lists in onSettled(): through mutations, rollbacks and        *)
(* refetches that cross, a row of a link that is gone is in no page of the cache     *)
(* unless something under way will correct it - or the page is excused: its fetch    *)
(* read before the delete and outlived the invalidation, or a create or PATCH was    *)
(* done and its answer lost.                                                         *)
THEOREM GhostsAreDoomed == LinksSpec => []GhostIsDoomed
<1>1. LinksInv => GhostIsDoomed
    BY DEF LinksInv
<1>2. QED BY <1>1, LinksAlways, PTL

(* When every answer of the mutations and fetches of hooks/urls is there, each page  *)
(* that counts as fresh and is not excused is what listUrls() would answer, in rows, *)
(* order and total, and the page of a link what getUrl() would.  Excused are pages   *)
(* whose fetch outlived an invalidation, all pages after a lost answer of a create   *)
(* or a PATCH, and links whose answer was overtaken by a later write.                *)
THEOREM RestIsServer == LinksSpec => []SettledIsServer
<1>1. LinksInv => SettledIsServer
    <2>1. SUFFICES ASSUME LinksInv, NEW k \in Key, k \notin excused, Quiet(k)
                   PROVE  cache[k].data = Server(k)
        BY DEF SettledIsServer
    <2>2. muts = {} /\ ~Telling /\ \A c \in Code : ~TellsOf(c)
        BY <2>1 DEF Quiet, Telling, TellsOf
    <2>3. CASE k \in Lists
        BY <2>1, <2>2, <2>3 DEF LinksInv, ListsTrue, ListTrue, Quiet
    <2>4. CASE k \in Details
        <3>1. k[2] \in Code /\ k = <<"detail", k[2]>>
            BY <2>4, KeysDiffer
        <3>2. DetailTrue(k[2])
            BY <2>1, <3>1 DEF LinksInv, DetailsTrue
        <3>3. QED BY <2>1, <2>2, <3>1, <3>2 DEF DetailTrue, Quiet
    <2>5. QED BY <2>1, <2>3, <2>4, KeysDiffer
<1>2. QED BY <1>1, LinksAlways, PTL
================================================================================
