--------------------------- MODULE IdAllocatorProofs ---------------------------
(***************************************************************************)
(* No id is handed out twice, for any number of instances and callers, any *)
(* placement of them and any block size.                                   *)
(*                                                                         *)
(* UniqueLog is not inductive: it holds because every id handed out lies   *)
(* in a block nobody else has or will have, below the "next" of the        *)
(* instance that still holds it.  A block is named by its last id; it is   *)
(* held by an instance (end[i]) or on its way to one (reply[c]).           *)
(*                                                                         *)
(* That no block is burned is about the shared promise (Sharing): it is    *)
(* there exactly while its refill is under way, and nobody waits for       *)
(* another one.                                                            *)
(***************************************************************************)
EXTENDS IdAllocator, TLAPS

(* Two blocks have no id in common. *)
Apart(a, b) == a + BlockSize <= b \/ b + BlockSize <= a

(* A block held by an instance was reserved, and next is in it or just past it. *)
HeldBlocks ==
    \A i \in Instances :
        IF end[i] = 0 THEN next[i] > 0
        ELSE /\ BlockSize <= end[i] /\ end[i] <= seq
             /\ end[i] + 1 <= next[i] + BlockSize /\ next[i] <= end[i] + 1

(* So was a block on its way, and it is on its way to a refill under way. *)
MovingBlocks ==
    \A c \in Callers : reply[c] # 0 => /\ BlockSize <= reply[c] /\ reply[c] <= seq
                                       /\ Refilling(c)

BlocksApart ==
    /\ \A i, j \in Instances : i # j /\ end[i] # 0 /\ end[j] # 0 => Apart(end[i], end[j])
    /\ \A i \in Instances, c \in Callers :
           end[i] # 0 /\ reply[c] # 0 => Apart(end[i], reply[c])
    /\ \A c, d \in Callers : c # d /\ reply[c] # 0 /\ reply[d] # 0 => Apart(reply[c], reply[d])

(* The ids handed out were reserved; those of a held block are below its next,  *)
(* and none is in a block on its way.                                           *)
LogBelow ==
    \A k \in DOMAIN log :
        /\ 0 < log[k] /\ log[k] <= seq
        /\ \A i \in Instances : end[i] # 0 => log[k] < next[i] \/ log[k] > end[i]
        /\ \A c \in Callers :
               reply[c] # 0 => log[k] + BlockSize <= reply[c] \/ log[k] > reply[c]

IInv == /\ TypeOK /\ seq <= MaxSeq
        /\ HeldBlocks /\ MovingBlocks /\ BlocksApart /\ LogBelow /\ UniqueLog

LEMMA InitIInv == Init => IInv
BY HostAssumption, MaxSeqAssumption
   DEF Init, IInv, TypeOK, HeldBlocks, MovingBlocks, BlocksApart, LogBelow, UniqueLog

(* Handing out next[i] of a held block: it is in the block, hence in no other, *)
(* and above every id the block gave before.                                   *)
LEMMA TakeStep ==
    ASSUME IInv, NEW c \in Callers, pc[c] # "waiting", Take(c)
    PROVE  IInv'
<1> DEFINE i == Host[c]
<1> USE HostAssumption, BlockAssumption, MaxSeqAssumption
<1>0. /\ i \in Instances /\ next \in [Instances -> Nat] /\ end \in [Instances -> Nat]
      /\ reply \in [Callers -> Nat] /\ log \in Seq(Nat) /\ seq \in Nat
  BY DEF IInv, TypeOK
<1>1. /\ next[i] <= end[i] /\ end[i] # 0 /\ BlockSize <= end[i] /\ end[i] <= seq
      /\ end[i] + 1 <= next[i] + BlockSize /\ 0 < next[i]
  BY <1>0 DEF IInv, HeldBlocks, Take, Exhausted
<1>2. /\ next' = [next EXCEPT ![i] = @ + 1] /\ log' = Append(log, next[i])
      /\ UNCHANGED <<seq, end, refill, awaits, reply>>
      /\ pc' = [pc EXCEPT ![c] = "idle"]
  BY DEF Take
<1>3. /\ Len(log') = Len(log) + 1 /\ log'[Len(log) + 1] = next[i] /\ log' \in Seq(Nat)
      /\ \A k \in 1..Len(log) : log'[k] = log[k]
      /\ DOMAIN log = 1..Len(log) /\ DOMAIN log' = 1..(Len(log) + 1) /\ Len(log) \in Nat
      /\ \A k \in 1..Len(log) : log[k] \in Nat
  BY <1>0, <1>2
<1>4. \A k \in 1..Len(log) : log[k] # next[i]
  <2> TAKE k \in 1..Len(log)
  <2>1. log[k] < next[i] \/ log[k] > end[i]
    BY <1>0, <1>1, <1>3 DEF IInv, LogBelow
  <2> QED
    BY <2>1, <1>0, <1>1, <1>3
<1>5. TypeOK' /\ (seq <= MaxSeq)'
  <2>1. next[i] \in Nat \ {0} /\ log \in Seq(Nat \ {0})
    BY <1>0, <1>1 DEF IInv, TypeOK
  <2>2. log' \in Seq(Nat \ {0})
    BY <2>1, <1>2
  <2> QED
    BY <2>2, <1>0, <1>2 DEF IInv, TypeOK
<1>6. HeldBlocks'
  BY <1>0, <1>1, <1>2 DEF IInv, HeldBlocks
<1>7. MovingBlocks'
  <2> SUFFICES ASSUME NEW d \in Callers, reply[d] # 0
               PROVE  BlockSize <= reply[d] /\ reply[d] <= seq /\ Refilling(d)'
    BY <1>2 DEF MovingBlocks
  <2>1. BlockSize <= reply[d] /\ reply[d] <= seq /\ Refilling(d)
    BY DEF IInv, MovingBlocks
  <2>2. d # c
    BY <2>1 DEF Refilling
  <2> QED
    BY <1>2, <2>1, <2>2 DEF Refilling, IInv, TypeOK
<1>8. BlocksApart'
  BY <1>2 DEF IInv, BlocksApart, Apart
<1>9. LogBelow'
  <2> SUFFICES ASSUME NEW k \in 1..(Len(log) + 1)
               PROVE  /\ 0 < log'[k] /\ log'[k] <= seq
                      /\ \A j \in Instances : end[j] # 0 => log'[k] < next'[j] \/ log'[k] > end[j]
                      /\ \A d \in Callers :
                           reply[d] # 0 => log'[k] + BlockSize <= reply[d] \/ log'[k] > reply[d]
    BY <1>2, <1>3 DEF LogBelow
  <2>1. CASE k \in 1..Len(log)
    <3>1. /\ 0 < log[k] /\ log[k] <= seq /\ log[k] \in Nat /\ log'[k] = log[k]
          /\ \A j \in Instances : end[j] # 0 => log[k] < next[j] \/ log[k] > end[j]
          /\ \A d \in Callers :
               reply[d] # 0 => log[k] + BlockSize <= reply[d] \/ log[k] > reply[d]
      BY <2>1, <1>3 DEF IInv, LogBelow
    <3>2. \A j \in Instances : next'[j] >= next[j] /\ next'[j] \in Nat
      BY <1>0, <1>2
    <3> QED
      BY <3>1, <3>2, <1>0
  <2>2. CASE k = Len(log) + 1
    <3>1. log'[k] = next[i] /\ 0 < next[i] /\ next[i] <= seq
      BY <2>2, <1>0, <1>1, <1>3
    <3>2. ASSUME NEW j \in Instances, end[j] # 0
          PROVE  next[i] < next'[j] \/ next[i] > end[j]
      <4>1. CASE j = i
        BY <4>1, <1>0, <1>2
      <4>2. CASE j # i
        <5>1. Apart(end[i], end[j])
          BY <4>2, <3>2, <1>0, <1>1 DEF IInv, BlocksApart
        <5>2. next'[j] = next[j] /\ (end[j] + 1 <= next[j] + BlockSize)
          BY <4>2, <3>2, <1>0, <1>2 DEF IInv, HeldBlocks
        <5> QED
          BY <5>1, <5>2, <1>0, <1>1 DEF Apart
      <4> QED
        BY <4>1, <4>2
    <3>3. ASSUME NEW d \in Callers, reply[d] # 0
          PROVE  next[i] + BlockSize <= reply[d] \/ next[i] > reply[d]
      <4>1. Apart(end[i], reply[d])
        BY <3>3, <1>0, <1>1 DEF IInv, BlocksApart
      <4> QED
        BY <4>1, <1>0, <1>1 DEF Apart
    <3> QED
      BY <3>1, <3>2, <3>3
  <2> QED
    BY <2>1, <2>2, <1>3
<1>10. UniqueLog'
  <2> SUFFICES ASSUME NEW j \in 1..(Len(log) + 1), NEW k \in 1..(Len(log) + 1), log'[j] = log'[k]
               PROVE  j = k
    BY <1>3 DEF UniqueLog
  <2>1. CASE j \in 1..Len(log) /\ k \in 1..Len(log)
    BY <2>1, <1>3 DEF IInv, UniqueLog
  <2>2. CASE j = Len(log) + 1 \/ k = Len(log) + 1
    BY <2>2, <1>3, <1>4
  <2> QED
    BY <2>1, <2>2, <1>3
<1> QED
  BY <1>5, <1>6, <1>7, <1>8, <1>9, <1>10 DEF IInv

(* Asking for a block, or joining the callers that wait for one, moves no block. *)
LEMMA WaitStep ==
    ASSUME IInv, NEW c \in Callers, pc[c] # "waiting", Wait(c)
    PROVE  IInv'
<1> USE HostAssumption
<1>1. /\ refill' = [refill EXCEPT ![Host[c]] = Shared(c)]
      /\ awaits' = [awaits EXCEPT ![c] = Shared(c)]
      /\ pc' = [pc EXCEPT ![c] = "waiting"]
      /\ UNCHANGED <<seq, next, end, reply, log>>
  BY DEF Wait
<1>2. TypeOK' /\ (seq <= MaxSeq)'
  BY <1>1 DEF IInv, TypeOK, Shared
<1>3. MovingBlocks'
  <2> SUFFICES ASSUME NEW d \in Callers, reply[d] # 0
               PROVE  BlockSize <= reply[d] /\ reply[d] <= seq /\ Refilling(d)'
    BY <1>1 DEF MovingBlocks
  <2>1. BlockSize <= reply[d] /\ reply[d] <= seq /\ Refilling(d)
    BY DEF IInv, MovingBlocks
  <2> QED
    BY <1>1, <2>1 DEF Refilling, IInv, TypeOK
<1>4. HeldBlocks' /\ BlocksApart' /\ LogBelow' /\ UniqueLog'
  BY <1>1 DEF IInv, HeldBlocks, BlocksApart, Apart, LogBelow, UniqueLog
<1> QED
  BY <1>2, <1>3, <1>4 DEF IInv

(* nextval() answers a block above every block there was and every id there is. *)
LEMMA NextvalStep ==
    ASSUME IInv, NEW p \in Callers, Nextval(p)
    PROVE  IInv'
<1> USE BlockAssumption, MaxSeqAssumption
<1>0. /\ next \in [Instances -> Nat] /\ end \in [Instances -> Nat]
      /\ reply \in [Callers -> Nat] /\ log \in Seq(Nat) /\ seq \in Nat
  BY DEF IInv, TypeOK
<1>1. /\ Refilling(p) /\ reply[p] = 0 /\ seq + BlockSize <= MaxSeq
      /\ seq' = seq + BlockSize
      /\ reply' = [reply EXCEPT ![p] = seq + BlockSize]
      /\ UNCHANGED <<next, end, refill, pc, awaits, log>>
  BY DEF Nextval
<1>2. TypeOK' /\ (seq <= MaxSeq)'
  BY <1>0, <1>1 DEF IInv, TypeOK
<1>3. HeldBlocks'
  BY <1>0, <1>1 DEF IInv, HeldBlocks
<1>4. MovingBlocks'
  BY <1>0, <1>1 DEF IInv, MovingBlocks, Refilling
<1>5. /\ \A i \in Instances : end[i] # 0 => end[i] + BlockSize <= reply'[p]
      /\ \A d \in Callers : d # p => reply'[d] = reply[d]
                                     /\ (reply[d] # 0 => reply[d] + BlockSize <= reply'[p])
  BY <1>0, <1>1 DEF IInv, HeldBlocks, MovingBlocks
<1>6. BlocksApart'
  BY <1>0, <1>1, <1>5 DEF IInv, BlocksApart, Apart
<1>7. LogBelow'
  <2> SUFFICES ASSUME NEW k \in DOMAIN log
               PROVE  /\ 0 < log[k] /\ log[k] <= seq'
                      /\ \A i \in Instances : end[i] # 0 => log[k] < next[i] \/ log[k] > end[i]
                      /\ \A d \in Callers :
                           reply'[d] # 0 => log[k] + BlockSize <= reply'[d] \/ log[k] > reply'[d]
    BY <1>1 DEF LogBelow
  <2>1. /\ 0 < log[k] /\ log[k] <= seq /\ log[k] \in Nat
        /\ \A i \in Instances : end[i] # 0 => log[k] < next[i] \/ log[k] > end[i]
        /\ \A d \in Callers : reply[d] # 0 => log[k] + BlockSize <= reply[d] \/ log[k] > reply[d]
    BY <1>0 DEF IInv, LogBelow
  <2>2. reply'[p] = seq + BlockSize
    BY <1>0, <1>1
  <2> QED
    BY <2>1, <2>2, <1>0, <1>1, <1>5
<1>8. UniqueLog'
  BY <1>1 DEF IInv, UniqueLog
<1> QED
  BY <1>2, <1>3, <1>4, <1>6, <1>7, <1>8 DEF IInv

(* When a promise settles, the other refills of the process are not disturbed. *)
LEMMA SettleMoving ==
    ASSUME IInv, NEW p \in Callers, NEW s \in {"woken", "idle"}, Settle(p, s), seq' = seq
    PROVE  /\ MovingBlocks'
           /\ refill' \in [Instances -> Callers \cup {NoCaller}]
           /\ pc' \in [Callers -> {"idle", "waiting", "woken"}]
           /\ awaits' \in [Callers -> Callers \cup {NoCaller}]
           /\ reply' \in [Callers -> Nat]
<1>1. \A d \in Callers : reply'[d] # 0 => d # p /\ reply'[d] = reply[d]
  BY DEF IInv, TypeOK, Settle
<1>2. ASSUME NEW d \in Callers, reply'[d] # 0 PROVE Refilling(d)'
  <2>1. Refilling(d) /\ d # p
    BY <1>1, <1>2 DEF IInv, MovingBlocks
  <2>2. d \notin WaitingOn(p)
    BY <2>1 DEF WaitingOn, Refilling
  <2> QED
    BY <2>1, <2>2 DEF Settle, Refilling
<1>3. MovingBlocks'
  BY <1>1, <1>2 DEF IInv, MovingBlocks
<1> QED
  BY <1>3 DEF IInv, TypeOK, Settle

(* The block that arrives was on its way, so it is apart from the others and unused. *)
LEMMA StoreStep ==
    ASSUME IInv, NEW p \in Callers, Store(p)
    PROVE  IInv'
<1> DEFINE i == Host[p]
<1> USE HostAssumption, BlockAssumption
<1>0. /\ i \in Instances
      /\ next \in [Instances -> Nat] /\ end \in [Instances -> Nat]
      /\ reply \in [Callers -> Nat] /\ log \in Seq(Nat) /\ seq \in Nat
  BY DEF IInv, TypeOK
<1>1. /\ reply[p] # 0 /\ Settle(p, "woken") /\ UNCHANGED <<seq, log>>
      /\ end' = [end EXCEPT ![i] = reply[p]]
      /\ next' = [next EXCEPT ![i] = reply[p] - BlockSize + 1]
      /\ reply' = [reply EXCEPT ![p] = 0]
  BY DEF Store, Settle
<1>2. BlockSize <= reply[p] /\ reply[p] <= seq /\ reply[p] \in Nat
  BY <1>0, <1>1 DEF IInv, MovingBlocks
<1>3. TypeOK' /\ (seq <= MaxSeq)' /\ MovingBlocks'
  BY <1>0, <1>1, <1>2, SettleMoving DEF IInv, TypeOK
<1>4. /\ end'[i] = reply[p] /\ next'[i] = reply[p] - BlockSize + 1
      /\ \A j \in Instances : j # i => end'[j] = end[j] /\ next'[j] = next[j]
      /\ \A d \in Callers : reply'[d] # 0 => d # p /\ reply'[d] = reply[d]
  BY <1>0, <1>1
<1>5. HeldBlocks'
  <2> SUFFICES ASSUME NEW j \in Instances
               PROVE  IF end'[j] = 0 THEN next'[j] > 0
                      ELSE /\ BlockSize <= end'[j] /\ end'[j] <= seq
                           /\ end'[j] + 1 <= next'[j] + BlockSize /\ next'[j] <= end'[j] + 1
    BY <1>1 DEF HeldBlocks
  <2>1. CASE j = i
    BY <2>1, <1>0, <1>1, <1>2, <1>4
  <2>2. CASE j # i
    BY <2>2, <1>4 DEF IInv, HeldBlocks
  <2> QED
    BY <2>1, <2>2
<1>6. BlocksApart'
  BY <1>0, <1>1, <1>4 DEF IInv, BlocksApart, Apart
<1>7. LogBelow'
  <2> SUFFICES ASSUME NEW k \in DOMAIN log
               PROVE  /\ 0 < log[k] /\ log[k] <= seq
                      /\ \A j \in Instances :
                           end'[j] # 0 => log[k] < next'[j] \/ log[k] > end'[j]
                      /\ \A d \in Callers :
                           reply'[d] # 0 => log[k] + BlockSize <= reply'[d] \/ log[k] > reply'[d]
    BY <1>1 DEF LogBelow
  <2>1. /\ 0 < log[k] /\ log[k] <= seq /\ log[k] \in Nat
        /\ \A j \in Instances : end[j] # 0 => log[k] < next[j] \/ log[k] > end[j]
        /\ \A d \in Callers : reply[d] # 0 => log[k] + BlockSize <= reply[d] \/ log[k] > reply[d]
    BY <1>0 DEF IInv, LogBelow
  <2>2. log[k] < next'[i] \/ log[k] > end'[i]
    BY <2>1, <1>0, <1>1, <1>2, <1>4
  <2> QED
    BY <2>1, <2>2, <1>4
<1>8. UniqueLog'
  BY <1>1 DEF IInv, UniqueLog
<1> QED
  BY <1>3, <1>5, <1>6, <1>7, <1>8 DEF IInv

(* A failed query at most drops a block nobody got an id from. *)
LEMMA QueryFailsStep ==
    ASSUME IInv, NEW p \in Callers, QueryFails(p)
    PROVE  IInv'
<1>1. Settle(p, "idle") /\ UNCHANGED <<seq, next, end, log>>
  BY DEF QueryFails
<1>2. \A d \in Callers : reply'[d] # 0 => reply'[d] = reply[d]
  BY <1>1 DEF IInv, TypeOK, Settle
<1>3. TypeOK' /\ (seq <= MaxSeq)' /\ MovingBlocks'
  BY <1>1, SettleMoving DEF IInv, TypeOK
<1>4. HeldBlocks' /\ UniqueLog'
  BY <1>1 DEF IInv, HeldBlocks, UniqueLog
<1>5. BlocksApart'
  BY <1>1, <1>2 DEF IInv, BlocksApart, Apart
<1>6. LogBelow'
  BY <1>1, <1>2 DEF IInv, LogBelow
<1> QED
  BY <1>3, <1>4, <1>5, <1>6 DEF IInv

(* A crash forgets blocks and moves none. *)
LEMMA CrashStep ==
    ASSUME IInv, NEW i \in Instances, Crash(i)
    PROVE  IInv'
<1>1. /\ next' = [next EXCEPT ![i] = 1] /\ end' = [end EXCEPT ![i] = 0]
      /\ refill' = [refill EXCEPT ![i] = NoCaller]
      /\ pc' = [c \in Callers |-> IF Host[c] = i THEN "idle" ELSE pc[c]]
      /\ awaits' = [c \in Callers |-> IF Host[c] = i THEN NoCaller ELSE awaits[c]]
      /\ reply' = [c \in Callers |-> IF Host[c] = i THEN 0 ELSE reply[c]]
      /\ UNCHANGED <<seq, log>>
  BY DEF Crash
<1>2. /\ \A c \in Callers : reply'[c] # 0 => /\ reply'[c] = reply[c] /\ pc'[c] = pc[c]
                                             /\ awaits'[c] = awaits[c]
      /\ \A j \in Instances : end'[j] # 0 => end'[j] = end[j] /\ next'[j] = next[j]
  BY <1>1 DEF IInv, TypeOK
<1>3. TypeOK' /\ (seq <= MaxSeq)'
  BY <1>1 DEF IInv, TypeOK
<1>4. HeldBlocks'
  BY <1>1, <1>2 DEF IInv, TypeOK, HeldBlocks
<1>5. MovingBlocks'
  BY <1>1, <1>2 DEF IInv, MovingBlocks, Refilling
<1>6. BlocksApart'
  BY <1>1, <1>2 DEF IInv, BlocksApart, Apart
<1>7. LogBelow'
  BY <1>1, <1>2 DEF IInv, LogBelow
<1>8. UniqueLog'
  BY <1>1 DEF IInv, UniqueLog
<1> QED
  BY <1>3, <1>4, <1>5, <1>6, <1>7, <1>8 DEF IInv

LEMMA IInvStep == IInv /\ [Next]_vars => IInv'
<1> SUFFICES ASSUME IInv, [Next]_vars PROVE IInv'
  OBVIOUS
<1>1. ASSUME NEW c \in Callers, Call(c) \/ Resume(c) PROVE IInv'
  BY <1>1, TakeStep, WaitStep DEF Call, Resume
<1>2. ASSUME NEW c \in Callers, Nextval(c) \/ Store(c) \/ QueryFails(c) PROVE IInv'
  BY <1>2, NextvalStep, StoreStep, QueryFailsStep
<1>3. ASSUME NEW i \in Instances, Crash(i) PROVE IInv'
  BY <1>3, CrashStep
<1>4. CASE UNCHANGED vars
  BY <1>4 DEF vars, IInv, TypeOK, HeldBlocks, MovingBlocks, Refilling, BlocksApart, Apart,
              LogBelow, UniqueLog
<1> QED
  BY <1>1, <1>2, <1>3, <1>4 DEF Next

LEMMA InvariantHolds == Spec => []IInv
BY InitIInv, IInvStep, PTL DEF Spec

(* Every reachable state is well typed. *)
THEOREM TypeCorrect == Spec => []TypeOK
<1>1. IInv => TypeOK
  BY DEF IInv
<1> QED
  BY <1>1, InvariantHolds, PTL

(* No id is handed out twice, by whatever instances in whatever order, through *)
(* crashes and lost answers.                                                   *)
THEOREM UniqueIdsHandedOut == Spec => []UniqueLog
<1>1. IInv => UniqueLog
  BY DEF IInv
<1> QED
  BY <1>1, InvariantHolds, PTL

(* The allocator implements UniqueIds: every step hands out one fresh id or none. *)
THEOREM ImplementsUniqueIds == Spec => RefinesUniqueIds
<1>1. Init => Ids!Init
  BY DEF Init, Ids!Init
<1>2. IInv /\ IInv' /\ [Next]_vars => [Ids!Next]_log
  <2> SUFFICES ASSUME IInv, IInv', [Next]_vars, log' # log PROVE Ids!Next
    OBVIOUS
  <2>1. PICK c \in Callers : Take(c)
    BY DEF Next, Call, Resume, Wait, Nextval, Store, QueryFails, Crash, vars
  <2>2. /\ log' = Append(log, next[Host[c]]) /\ log \in Seq(Nat) /\ next[Host[c]] \in Nat
    BY <2>1, HostAssumption DEF Take, IInv, TypeOK
  <2>3. /\ DOMAIN log = 1..Len(log) /\ DOMAIN log' = 1..(Len(log) + 1) /\ Len(log) \in Nat
        /\ \A k \in 1..Len(log) : log'[k] = log[k]
        /\ log'[Len(log) + 1] = next[Host[c]]
    BY <2>2
  <2>4. next[Host[c]] \in 1..MaxSeq
    <3>1. 0 < next[Host[c]] /\ next[Host[c]] <= seq'
      BY <2>3 DEF IInv, LogBelow
    <3>2. seq' \in Nat /\ seq' <= MaxSeq
      BY DEF IInv, TypeOK
    <3>3. next[Host[c]] \in Nat
      BY <2>2
    <3> QED
      BY <3>1, <3>2, <3>3, MaxSeqAssumption
  <2>5. next[Host[c]] \notin Ids!Issued
    BY <2>3 DEF IInv, UniqueLog, Ids!Issued
  <2> QED
    BY <2>2, <2>4, <2>5 DEF Ids!Next, Ids!Issue
<1> QED
  BY <1>1, <1>2, InvariantHolds, PTL DEF Spec, Ids!Spec, RefinesUniqueIds

--------------------------------------------------------------------------------
(* The promise in "refill" is that of a caller of the instance whose refill is *)
(* under way, the block is used up meanwhile, and whoever waits in an instance *)
(* waits for that promise.                                                     *)
Sharing ==
    /\ \A i \in Instances : refill[i] # NoCaller =>
           Host[refill[i]] = i /\ Refilling(refill[i]) /\ Exhausted(i)
    /\ \A c \in Callers : pc[c] = "waiting" => awaits[c] = refill[Host[c]] /\ awaits[c] # NoCaller

LEMMA InitSharing == Init => Sharing
BY HostAssumption DEF Init, Sharing

(* A caller that does not wait takes an id: no refill is under way. *)
LEMMA TakeShares ==
    ASSUME TypeOK, Sharing, NEW c \in Callers, pc[c] # "waiting", Take(c)
    PROVE  Sharing'
<1>1. refill[Host[c]] = NoCaller
  BY HostAssumption DEF Take, Sharing
<1> QED
  BY <1>1, HostAssumption, NoCallerAssumption DEF TypeOK, Sharing, Take, Refilling, Exhausted

(* One that finds the block used up joins the refill, or starts it. *)
LEMMA WaitShares ==
    ASSUME TypeOK, Sharing, NEW c \in Callers, pc[c] # "waiting", Wait(c)
    PROVE  Sharing'
<1> USE HostAssumption, NoCallerAssumption
<1>1. /\ Exhausted(Host[c]) /\ UNCHANGED <<next, end>>
      /\ refill' = [refill EXCEPT ![Host[c]] = Shared(c)]
      /\ awaits' = [awaits EXCEPT ![c] = Shared(c)] /\ pc' = [pc EXCEPT ![c] = "waiting"]
  BY DEF Wait
<1>2. Shared(c) \in Callers /\ Host[Shared(c)] = Host[c] /\ (Shared(c) = c \/ Refilling(Shared(c)))
  BY DEF Shared, Sharing, TypeOK
<1>3. ASSUME NEW i \in Instances, refill'[i] # NoCaller
      PROVE  Host[refill'[i]] = i /\ Refilling(refill[i])' /\ Exhausted(i)'
  <2>1. CASE i = Host[c]
    BY <1>1, <1>2, <2>1 DEF TypeOK, Refilling, Exhausted
  <2>2. CASE i # Host[c]
    BY <1>1, <1>3, <2>2 DEF TypeOK, Refilling, Exhausted, Sharing
  <2> QED
    BY <2>1, <2>2
<1>4. ASSUME NEW d \in Callers, pc'[d] = "waiting"
      PROVE  awaits'[d] = refill'[Host[d]] /\ awaits'[d] # NoCaller
  <2>1. CASE d = c
    BY <1>1, <1>2, <2>1 DEF TypeOK
  <2>2. CASE d # c /\ Host[d] = Host[c]
    BY <1>1, <1>4, <2>2 DEF TypeOK, Sharing, Shared
  <2>3. CASE d # c /\ Host[d] # Host[c]
    BY <1>1, <1>4, <2>3 DEF TypeOK, Sharing
  <2> QED
    BY <2>1, <2>2, <2>3
<1> QED
  BY <1>3, <1>4 DEF Sharing

(* The promise settles: everyone who waited in the instance waited for it. *)
LEMMA SettleShares ==
    ASSUME TypeOK, Sharing, NEW p \in Callers, Refilling(p), NEW s, s # "waiting", Settle(p, s),
           \A i \in Instances : i # Host[p] => next'[i] = next[i] /\ end'[i] = end[i]
    PROVE  Sharing'
<1> USE HostAssumption, NoCallerAssumption
<1>1. refill[Host[p]] = p
  BY DEF Sharing, Refilling
<1>2. \A c \in Callers : pc[c] = "waiting" => (c \in WaitingOn(p) <=> Host[c] = Host[p])
  BY <1>1 DEF WaitingOn, Sharing, TypeOK
<1>3. \A c \in Callers : IF pc[c] = "waiting" /\ Host[c] = Host[p]
                         THEN pc'[c] = s ELSE pc'[c] = pc[c] /\ awaits'[c] = awaits[c]
  BY <1>2 DEF Settle, WaitingOn
<1>4. \A i \in Instances : refill'[i] = IF i = Host[p] THEN NoCaller ELSE refill[i]
  BY DEF Settle, TypeOK
<1> QED
  BY <1>3, <1>4 DEF Sharing, TypeOK, Refilling, Exhausted

LEMMA SharingStep ==
    ASSUME TypeOK, Sharing, [Next]_vars
    PROVE  Sharing'
<1> USE HostAssumption
<1>1. ASSUME NEW c \in Callers, Call(c) \/ Resume(c) PROVE Sharing'
  BY <1>1, TakeShares, WaitShares DEF Call, Resume
<1>2. ASSUME NEW c \in Callers, Nextval(c) PROVE Sharing'
  BY <1>2 DEF Nextval, Sharing, Refilling, Exhausted
<1>3. ASSUME NEW c \in Callers, Store(c) PROVE Sharing'
  <2>1. Refilling(c) /\ Settle(c, "woken")
        /\ \A i \in Instances : i # Host[c] => next'[i] = next[i] /\ end'[i] = end[i]
    BY <1>3 DEF Store, TypeOK
  <2> QED
    BY <2>1, SettleShares
<1>4. ASSUME NEW c \in Callers, QueryFails(c) PROVE Sharing'
  BY <1>4, SettleShares DEF QueryFails
<1>5. ASSUME NEW i \in Instances, Crash(i) PROVE Sharing'
  BY <1>5, NoCallerAssumption DEF Crash, Sharing, TypeOK, Refilling, Exhausted
<1>6. CASE UNCHANGED vars
  BY <1>6 DEF vars, Sharing, Refilling, Exhausted
<1> QED
  BY <1>1, <1>2, <1>3, <1>4, <1>5, <1>6 DEF Next

(* "Concurrent callers share one refill": a live instance replaces its block    *)
(* only when every id of it was used, however many callers find it used up      *)
(* while a refill is under way, fails or is woken from.                         *)
THEOREM OneBlockAtATime == Spec => NoBlockBurned
<1> DEFINE Unburned == \A i \in Instances : end'[i] # end[i] /\ end'[i] # 0 => Exhausted(i)
<1>1. Init => Sharing
  BY InitSharing
<1>2. IInv /\ Sharing /\ [Next]_vars => Sharing'
  BY SharingStep DEF IInv
<1>3. IInv /\ Sharing /\ [Next]_vars => [Unburned]_vars
  <2> SUFFICES ASSUME IInv, Sharing, Next, NEW i \in Instances, end'[i] # end[i], end'[i] # 0
               PROVE  Exhausted(i)
    OBVIOUS
  <2>1. TypeOK
    BY DEF IInv
  <2>2. PICK p \in Callers : Store(p)
    BY <2>1 DEF Next, Call, Resume, Take, Wait, Nextval, QueryFails, Crash, TypeOK
  <2>3. i = Host[p] /\ Refilling(p)
    BY <2>1, <2>2 DEF Store, TypeOK
  <2>4. refill[i] = p
    BY <2>3, HostAssumption DEF Sharing, Refilling
  <2> QED
    BY <2>4, NoCallerAssumption DEF Sharing
<1> HIDE DEF Unburned
<1>4. Spec => []IInv
  BY InvariantHolds
<1>5. NoBlockBurned <=> [][Unburned]_vars
  BY DEF NoBlockBurned, Unburned
<1> QED
  BY <1>1, <1>2, <1>3, <1>4, <1>5, PTL DEF Spec
================================================================================
