----------------------------- MODULE LinkCreation ------------------------------
(***************************************************************************)
(* How a link gets its short code: createShortUrl() of                     *)
(* apps/api/src/services/url.service.ts, with the codes of utils/shortCode *)
(* and ids of which only the promise of UniqueIds is known.                *)
(*                                                                         *)
(* A generated code is the id, permuted, in base 62.  An alias is chosen   *)
(* by a user and may be a code whose id has not been handed out yet.  The  *)
(* primary key and the unique index of Postgres decide who is first.       *)
(***************************************************************************)
EXTENDS Naturals, Sequences, FiniteSets

CONSTANTS
    Requests,       \* requests under way at the same time
    Aliases,        \* what customAlias may be
    Reserved,       \* RESERVED_CODES
    Base, Length,   \* 62, CODE_LENGTH
    P1, C1, P2, C2, \* SHORTCODE_KEYS
    Primes,         \* the prime factors of Base: 2 and 31
    Attempts,       \* GENERATION_ATTEMPTS
    MaxId,          \* bound: the ids there are
    NoAlias

ASSUME SizesAssumption == Base \in Nat \ {0, 1} /\ Length \in Nat \ {0}
ASSUME PrimesAssumption ==
    /\ Primes \subseteq Nat \ {0}
    /\ \A d \in 2..Base : Base % d = 0 => \E q \in Primes : d % q = 0

(* Powers of Base; CodeSpace is 62n ** 7n. *)
Power[k \in 0..Length] == IF k = 0 THEN 1 ELSE Power[k - 1] * Base
CodeSpace == Power[Length]

ASSUME BoundsAssumption == Attempts \in Nat \ {0} /\ MaxId \in Nat /\ MaxId < CodeSpace
ASSUME AliasAssumption == NoAlias \notin Aliases
(* parseShortcodeKeys(): any other keys stop the boot. *)
ShortcodeKeys ==
    /\ {P1, C1, P2, C2} \subseteq 1..CodeSpace - 1
    /\ \A q \in Primes : P1 % q # 0 /\ P2 % q # 0
ASSUME KeysAssumption == ShortcodeKeys

Id == 1..MaxId

--------------------------------------------------------------------------------
(***************************************************************************)
(* Short codes.  A code is the sequence of its digits.                     *)
(***************************************************************************)

Affine(x, p, c) == (x * p + c) % CodeSpace

Digit(x, k) == (x \div Power[k]) % Base

(* Mutant: the digit at the top is lost. *)
ReverseAllButOne(x) ==
    LET r[k \in 0..Length - 1] == IF k = 0 THEN 0 ELSE r[k - 1] * Base + Digit(x, k - 1)
    IN r[Length - 1]

ReverseDigits(x) ==
    LET r[k \in 0..Length] == IF k = 0 THEN 0 ELSE r[k - 1] * Base + Digit(x, k - 1)
    IN r[Length]

Permute(id) == Affine(ReverseDigits(Affine(id, P1, C1)), P2, C2)

EncodeBase62(n) == [k \in 1..Length |-> Digit(n, Length - k)]

DecodeBase62(code) ==
    LET v[k \in 0..Len(code)] == IF k = 0 THEN 0 ELSE v[k - 1] * Base + code[k]
    IN v[Len(code)]

GenerateShortCode(id) == EncodeBase62(Permute(id))

Generated == {GenerateShortCode(id) : id \in Id}
Code == Generated \cup Aliases

--------------------------------------------------------------------------------
VARIABLES
    log,    \* the ids handed out: the variable of UniqueIds
    urls,   \* the table
    req     \* per request: where it is; "beaten": the rows that were there first

vars == <<log, urls, req>>

Ids == INSTANCE UniqueIds

Row     == [id : Id, code : Code, custom : BOOLEAN]
Ended   == {"created", "refused", "taken", "gaveUp", "failed"}
Request == [pc : {"idle", "nextId", "insert"} \cup Ended, alias : Aliases \cup {NoAlias},
            id : 0..MaxId, attempt : 0..Attempts, beaten : SUBSET Row]
Idle    == [pc |-> "idle", alias |-> NoAlias, id |-> 0, attempt |-> 0, beaten |-> {}]

TypeOK ==
    /\ log \in Seq(Id)
    /\ urls \subseteq Row
    /\ req \in [Requests -> Request]

Init == Ids!Init /\ urls = {} /\ req = [r \in Requests |-> Idle]

Custom(r) == req[r].alias # NoAlias
Goes(r, pc) == req' = [req EXCEPT ![r].pc = pc]

(* The bound on ids is felt where a request starts, never in its middle. *)
Active == {r \in Requests : req[r].pc \in {"nextId", "insert"}}
Spare == Len(log) + (Cardinality(Active) + 1) * Attempts <= MaxId

(* createShortUrl(): an alias needs a user and must not be reserved. *)
Begin(r, alias, user) ==
    LET refused == alias # NoAlias /\ (~user \/ alias \in Reserved) IN
    /\ req[r].pc = "idle"
    /\ refused \/ Spare
    /\ req' = [req EXCEPT ![r] = [Idle EXCEPT !.pc = IF refused THEN "refused" ELSE "nextId",
                                              !.alias = alias]]
    /\ UNCHANGED <<log, urls>>

(* Mutants: ids that were handed out before may come again; they begin with 0. *)
NextIdAgain(r) ==
    /\ req[r].pc = "nextId"
    /\ \E id \in Id : log' = Append(log, id) /\ req' = [req EXCEPT ![r].pc = "insert", ![r].id = id]
    /\ UNCHANGED urls

NextIdFromZero(r) ==
    /\ req[r].pc = "nextId"
    /\ \E id \in Id : Ids!Issue(id - 1) /\ req' = [req EXCEPT ![r].pc = "insert", ![r].id = id - 1]
    /\ UNCHANGED urls

(* "await nextId()" *)
NextId(r) ==
    /\ req[r].pc = "nextId"
    /\ \E id \in Id : Ids!Issue(id) /\ req' = [req EXCEPT ![r].pc = "insert", ![r].id = id]
    /\ UNCHANGED urls

NewRow(r) ==
    [id |-> req[r].id, custom |-> Custom(r),
     code |-> IF Custom(r) THEN req[r].alias ELSE GenerateShortCode(req[r].id)]

(* The rows an INSERT meets: by the primary key or by the unique index. *)
Conflicts(row) == {u \in urls : u.id = row.id \/ u.code = row.code}

Insert(r) ==
    /\ req[r].pc = "insert" /\ Conflicts(NewRow(r)) = {}
    /\ urls' = urls \cup {NewRow(r)}
    /\ Goes(r, "created")
    /\ UNCHANGED log

Beaten(r) == req[r].beaten \cup Conflicts(NewRow(r))

(* Mutant: one attempt too few. *)
OneFewer(r) == [req[r] EXCEPT !.pc = IF req[r].attempt + 2 < Attempts THEN "nextId" ELSE "gaveUp",
                              !.attempt = @ + 1, !.beaten = Beaten(r)]

(* A generated code was taken: "for (let attempt = 0; ...)". *)
TryAgain(r) == [req[r] EXCEPT !.pc = IF req[r].attempt + 1 < Attempts THEN "nextId" ELSE "gaveUp",
                              !.attempt = @ + 1, !.beaten = Beaten(r)]

(* P2002 *)
Conflict(r) ==
    /\ req[r].pc = "insert" /\ Conflicts(NewRow(r)) # {}
    /\ IF Custom(r) THEN Goes(r, "taken") ELSE req' = [req EXCEPT ![r] = TryAgain(r)]
    /\ UNCHANGED <<log, urls>>

(* nextId() rejects; or the INSERT fails, or its answer is lost: a 500. *)
Fails(r) ==
    /\ req[r].pc \in {"nextId", "insert"}
    /\ \/ UNCHANGED urls
       \/ /\ req[r].pc = "insert" /\ Conflicts(NewRow(r)) = {}
          /\ urls' = urls \cup {NewRow(r)}
    /\ Goes(r, "failed")
    /\ UNCHANGED log

(* The answer; the request slot is free again. *)
End(r) ==
    /\ req[r].pc \in Ended
    /\ req' = [req EXCEPT ![r] = Idle]
    /\ UNCHANGED <<log, urls>>

(* A deleted or expired link is purged; its code may be used again. *)
Purge(row) ==
    /\ urls' = urls \ {row}
    /\ UNCHANGED <<log, req>>

Next ==
    \/ \E r \in Requests :
          \/ \E alias \in Aliases \cup {NoAlias}, user \in BOOLEAN : Begin(r, alias, user)
          \/ NextId(r) \/ Insert(r) \/ Conflict(r) \/ Fails(r) \/ End(r)
    \/ \E row \in urls : Purge(row)

Spec == Init /\ [][Next]_vars

--------------------------------------------------------------------------------
CodeTable == [n \in 0..CodeSpace - 1 |-> GenerateShortCode(n)]

(* "A composition of bijections is a bijection, so distinct ids always give *)
(* distinct values below 62^7, and therefore distinct 7-character codes":   *)
(* no other id there may ever be has the code of one that was handed out,   *)
(* and the code is read back as the number it was made of.                  *)
CodesDistinct ==
    \A id \in Ids!Issued :
        /\ \A n \in 0..CodeSpace - 1 : CodeTable[n] = CodeTable[id] => n = id
        /\ DecodeBase62(CodeTable[id]) = Permute(id)

(* "Generated codes can't collide with each other, but an alias can take a  *)
(* future code": what a generated code finds in its place is an alias, and  *)
(* nothing is ever refused for its id, whatever was created, purged or left *)
(* behind by a lost answer meanwhile.                                       *)
OnlyAliasesCollide ==
    \A r \in Requests : req[r].pc = "insert" =>
        \A u \in Conflicts(NewRow(r)) : u.id # req[r].id /\ (u.custom \/ Custom(r))

(* A create gives up only after it has met an alias in each attempt, each   *)
(* time another one.                                                        *)
GivesUpOnlyOnAliases ==
    \A r \in Requests :
        req[r].pc = "gaveUp" => /\ Cardinality(req[r].beaten) = Attempts
                                /\ \A u \in req[r].beaten : u.custom
================================================================================
