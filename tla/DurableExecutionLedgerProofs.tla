---------------------- MODULE DurableExecutionLedgerProofs ----------------------
(***************************************************************************)
(* Proof that the bounded ledger of phase effects keeps room for the entry *)
(* that ends a turn.  An attempt adds two entries, the request snapshot    *)
(* and the inference; so does every call of run that was waiting for the   *)
(* permit when the turn was first claimed and claims it again, without an  *)
(* attempt.  No call can start to wait for a turn that is active, so both  *)
(* are counted before they are made: as attempts, and as waiting calls.    *)
(***************************************************************************)
EXTENDS DurableExecutionAnswerProofs, FiniteSetTheorems

\* The calls that wait to claim an operation.
Waits(o) == {f \in Fiber : fibers[f].pc = "claim" /\ fibers[f].op = o}
WaitsNext(o) == {f \in Fiber : fibers'[f].pc = "claim" /\ fibers'[f].op = o}

\* Entries a call has yet to add on its way to the executor's stream.
Due(pc) ==
    CASE pc = "snapshot" -> 2
      [] pc \in {"partial-begin", "partial-write", "partial-complete", "mark"} -> 1
      [] OTHER -> 0

\* The entries of an operation, and those of the calls that wait for it.
Spent(o) == operations[o].effects + 2 * Cardinality(Waits(o))

\* What an admission, its calls, its attempts and its partial answer may add.
Allowed(o) ==
    2 + 2 * Cardinality(Fiber) + 2 * operations[o].attempt
      + (IF operations[o].partial = "none" THEN 0 ELSE 1)

\* What the active operation has and its call has yet to add is allowed.
Charged ==
    /\ \A o \in OpId : operations[o].status = "queued" => operations[o].effects = 2
    /\ \A o \in OpId : active = o =>
          /\ Spent(o) <= Allowed(o)
          /\ \A f \in Fiber : fibers[f].op = o => Spent(o) + Due(fibers[f].pc) <= Allowed(o)

\* A step the other proofs cover.
LedgerStep == Step /\ Charged /\ IsFiniteSet(Fiber)

\* n entries more are allowed: none, or those a call of the operation has yet to add.
Backed(o, n) == n <= 0 \/ \E f \in Fiber : fibers[f].op = o /\ n <= Due(fibers[f].pc)

\* A call that does not start to wait for the active operation, nor owes it more.
Eased(f) ==
    \/ fibers'[f] = fibers[f]
    \/ fibers'[f].op # active
    \/ fibers'[f].pc # "claim" /\ Due(fibers'[f].pc) = 0

\* The record's entries stay as they are.
LedgerStays(o) ==
    /\ operations'[o].effects = operations[o].effects
    /\ operations'[o].attempt = operations[o].attempt

-----------------------------------------------------------------------------
(* Counting *)

\* Calls are counted by natural numbers, and fewer wait than there are.
LEMMA WaitsCount ==
    ASSUME IsFiniteSet(Fiber), NEW o
    PROVE  /\ IsFiniteSet(Waits(o)) /\ IsFiniteSet(WaitsNext(o))
           /\ Cardinality(Waits(o)) \in Nat /\ Cardinality(WaitsNext(o)) \in Nat
           /\ Cardinality(Fiber) \in Nat /\ Cardinality(Waits(o)) <= Cardinality(Fiber)
<1>1. Waits(o) \in SUBSET Fiber /\ WaitsNext(o) \in SUBSET Fiber
  BY DEF Waits, WaitsNext
<1>2. /\ IsFiniteSet(Waits(o)) /\ IsFiniteSet(WaitsNext(o))
      /\ Cardinality(Waits(o)) <= Cardinality(Fiber)
  BY <1>1, FS_Subset
<1> QED
  BY <1>2, FS_CardinalityType

\* What a call has yet to add.
LEMMA DueType == ASSUME NEW pc PROVE Due(pc) \in 0..2
  BY DEF Due

\* The numbers of a record.
LEMMA LedgerType ==
    ASSUME LedgerStep, NEW o \in OpId
    PROVE  /\ operations[o] \in Operation /\ operations'[o] \in Operation
           /\ operations[o].effects \in Nat /\ operations'[o].effects \in Nat
           /\ operations[o].attempt \in Nat /\ operations'[o].attempt \in Nat
           /\ Spent(o) \in Nat /\ Allowed(o) \in Nat
<1>1. operations[o] \in Operation /\ operations'[o] \in Operation
  BY DEF LedgerStep, Step, StoreInv, TypeInv, TypeOK
<1>2. /\ operations[o].effects \in Nat /\ operations'[o].effects \in Nat
      /\ operations[o].attempt \in Nat /\ operations'[o].attempt \in Nat
  BY <1>1 DEF Operation
<1>3. Cardinality(Waits(o)) \in Nat /\ Cardinality(Fiber) \in Nat
  BY WaitsCount DEF LedgerStep
<1> QED
  BY <1>1, <1>2, <1>3 DEF Spent, Allowed

\* What is backed is allowed.
LEMMA BackedFits ==
    ASSUME LedgerStep, NEW o \in OpId, active = o, NEW n \in Int, Backed(o, n)
    PROVE  Spent(o) + n <= Allowed(o)
<1>1. Spent(o) \in Nat /\ Allowed(o) \in Nat /\ Spent(o) <= Allowed(o)
  BY LedgerType DEF LedgerStep, Charged
<1>2. CASE n <= 0
  BY <1>1, <1>2
<1>3. CASE \E f \in Fiber : fibers[f].op = o /\ n <= Due(fibers[f].pc)
  <2>1. PICK f \in Fiber : fibers[f].op = o /\ n <= Due(fibers[f].pc)
    BY <1>3
  <2>2. Spent(o) + Due(fibers[f].pc) <= Allowed(o)
    BY <2>1 DEF LedgerStep, Charged
  <2>3. Due(fibers[f].pc) \in Nat
    BY DueType
  <2> QED
    BY <1>1, <2>1, <2>2, <2>3
<1> QED
  BY <1>2, <1>3 DEF Backed

-----------------------------------------------------------------------------
(* The ways a step keeps the ledger within what is allowed *)

\* The active operation stays, gets e entries more, and a attempts or a partial answer
\* that allow for e and for what is due then.
LEMMA ChargedGoesOn ==
    ASSUME LedgerStep, NEW o \in OpId, active = o, active' = o,
           \A p \in OpId : operations'[p].status = "queued" => operations'[p].effects = 2,
           NEW e \in Nat, operations'[o].effects = operations[o].effects + e,
           NEW a \in Nat, Allowed(o)' >= Allowed(o) + a,
           WaitsNext(o) \subseteq Waits(o),
           Backed(o, e - a),
           \A f \in Fiber : fibers'[f].op = o => Backed(o, Due(fibers'[f].pc) + e - a)
    PROVE  Charged'
<1>1. Cardinality(WaitsNext(o)) <= Cardinality(Waits(o))
  BY WaitsCount, FS_Subset DEF LedgerStep
<1>2. /\ Spent(o) \in Nat /\ Allowed(o) \in Nat /\ operations[o].effects \in Nat
      /\ Cardinality(Waits(o)) \in Nat /\ Cardinality(WaitsNext(o)) \in Nat
  BY LedgerType, WaitsCount DEF LedgerStep
<1>3. Allowed(o)' \in Nat
  <2>1. operations'[o].attempt \in Nat /\ Cardinality(Fiber) \in Nat
    BY LedgerType, WaitsCount DEF LedgerStep
  <2> QED
    BY <2>1 DEF Allowed
<1>4. Spent(o)' = operations[o].effects + e + 2 * Cardinality(WaitsNext(o))
  BY DEF Spent, Waits, WaitsNext
<1>5. Spent(o)' <= Spent(o) + e /\ Spent(o)' \in Nat
  BY <1>1, <1>2, <1>4 DEF Spent
<1>6. Spent(o)' <= Allowed(o)'
  <2>1. Spent(o) + (e - a) <= Allowed(o)
    BY BackedFits
  <2> QED
    BY <1>2, <1>3, <1>5, <2>1
<1>7. ASSUME NEW f \in Fiber, fibers'[f].op = o
      PROVE  Spent(o)' + Due(fibers'[f].pc) <= Allowed(o)'
  <2>1. Due(fibers'[f].pc) \in Nat
    BY DueType
  <2>2. Spent(o) + (Due(fibers'[f].pc) + e - a) <= Allowed(o)
    BY <1>7, <2>1, BackedFits
  <2> QED
    BY <1>2, <1>3, <1>5, <2>1, <2>2
<1> QED
  BY <1>6, <1>7 DEF Charged

\* Only the active operation's record changes, and it is not queued.
LEMMA OnlyQueued ==
    ASSUME LedgerStep, NEW o \in OpId, active = o, OthersKept(o)
    PROVE  \A p \in OpId : operations'[p].status = "queued" => operations'[p].effects = 2
<1>1. operations'[o].status # "queued"
  <2>1. TurnState'[o] # "queued"
    BY StartedIsActive, TurnPath DEF LedgerStep, Step
  <2> QED
    BY <2>1, TurnStatesNext
<1> QED
  BY <1>1 DEF OthersKept, LedgerStep, Charged

\* What allows for more allows for less.
LEMMA BackedLess ==
    ASSUME NEW o, NEW n \in Int, NEW m \in Int, m <= n, Backed(o, n)
    PROVE  Backed(o, m)
<1>1. \A f \in Fiber : Due(fibers[f].pc) \in Int
  BY DueType
<1> QED
  BY <1>1 DEF Backed

\* The call that holds the permit moves on, and adds e entries to the active operation.
LEMMA HolderCharged ==
    ASSUME LedgerStep, NEW o \in OpId, active = o, active' = o, OthersKept(o),
           NEW f \in Fiber, fibers[f].pc \in Holding,
           NEW r, fibers' = [fibers EXCEPT ![f] = r], r.pc # "claim",
           NEW e \in Nat, operations'[o].effects = operations[o].effects + e,
           NEW a \in Nat, Allowed(o)' >= Allowed(o) + a,
           Backed(o, Due(r.pc) + e - a)
    PROVE  Charged'
<1>1. \A g \in Fiber : fibers'[g] = IF g = f THEN r ELSE fibers[g]
  BY DEF LedgerStep, Step, StoreInv, TypeInv, TypeOK
<1>2. WaitsNext(o) \subseteq Waits(o)
  BY <1>1 DEF Waits, WaitsNext
<1>3. Due(r.pc) \in Nat
  BY DueType
<1>4. Backed(o, e - a)
  BY <1>3, BackedLess
<1>5. ASSUME NEW g \in Fiber, fibers'[g].op = o PROVE Backed(o, Due(fibers'[g].pc) + e - a)
  <2>1. CASE g = f
    BY <1>1, <2>1
  <2>2. CASE g # f
    <3>1. fibers'[g].pc \notin Holding
      BY <1>1, <2>2 DEF LedgerStep, Step, StoreInv, OnePermit
    <3>2. fibers'[g].pc \in PC
      BY DEF LedgerStep, Step, StoreInv, TypeInv, TypeOK, FiberRecord
    <3>3. Due(fibers'[g].pc) = 0
      BY <3>1, <3>2 DEF Due, Holding, PC
    <3> QED
      BY <1>4, <3>3
  <2> QED
    BY <2>1, <2>2
<1> QED
  BY <1>2, <1>4, <1>5, OnlyQueued, ChargedGoesOn

\* The ledger stays as it is; calls move where they owe no more, or end.
LEMMA ChargedStays ==
    ASSUME LedgerStep, active' \in {active, None},
           \A p \in OpId : operations'[p].status = "queued" => operations'[p].effects = 2,
           \A o \in OpId : active = o => LedgerStays(o),
           \A f \in Fiber : Eased(f)
    PROVE  Charged'
<1>1. None \notin OpId
  BY StoreTypes DEF LedgerStep, Step, StoreInv
<1>2. CASE active' = None
  BY <1>1, <1>2 DEF Charged
<1>3. CASE active \in OpId /\ active' = active
  <2>1. PICK o \in OpId : o = active
    BY <1>3
  <2>2. /\ operations'[o].effects = operations[o].effects
        /\ operations'[o].attempt = operations[o].attempt
        /\ PartialStays(o)
    BY <1>3, <2>1, ActivePartialStays DEF LedgerStays, LedgerStep
  <2>3. operations[o].effects \in Nat /\ operations[o].attempt \in Nat
    BY LedgerType
  <2>4. Allowed(o) \in Nat /\ Cardinality(Fiber) \in Nat
    BY LedgerType, WaitsCount DEF LedgerStep
  <2>5. Allowed(o)' >= Allowed(o) + 0
    BY <2>2, <2>3, <2>4 DEF Allowed, PartialStays
  <2>6. WaitsNext(o) \subseteq Waits(o)
    BY <2>1 DEF Eased, Waits, WaitsNext
  <2>7. Backed(o, 0 - 0)
    BY DEF Backed
  <2>8. ASSUME NEW f \in Fiber, fibers'[f].op = o
        PROVE  Backed(o, Due(fibers'[f].pc) + 0 - 0)
    <3>1. Due(fibers'[f].pc) \in Int
      BY DueType
    <3>2. CASE fibers'[f] = fibers[f]
      BY <2>8, <3>1, <3>2 DEF Backed
    <3>3. CASE Due(fibers'[f].pc) = 0
      BY <3>3 DEF Backed
    <3> QED
      BY <2>1, <2>8, <3>2, <3>3 DEF Eased
  <2>9. operations'[o].effects = operations[o].effects + 0
    BY <2>2, <2>3
  <2> QED
    BY <1>3, <2>1, <2>5, <2>6, <2>7, <2>8, <2>9, ChargedGoesOn
<1> QED
  BY <1>2, <1>3, StoreTypes DEF LedgerStep, Step, StoreInv

\* A call stops, and the active operation stays or ends.
LEMMA StopCharged ==
    ASSUME LedgerStep, active' \in {active, None},
           \A p \in OpId : operations'[p].status = "queued" => operations'[p].effects = 2,
           \A o \in OpId : active = o => LedgerStays(o),
           NEW f \in Fiber, Stop(f)
    PROVE  Charged'
<1>1. Idle.pc # "claim" /\ Due(Idle.pc) = 0
  BY DEF Idle, Due
<1>2. \A g \in Fiber : fibers'[g] = IF g = f THEN Idle ELSE fibers[g]
  BY DEF Stop, LedgerStep, Step, StoreInv, TypeInv, TypeOK
<1>3. \A g \in Fiber : Eased(g)
  BY <1>1, <1>2 DEF Eased
<1> QED
  BY <1>3, ChargedStays

\* The operations stay as they are.
LEMMA LedgerUntouched ==
    ASSUME LedgerStep, operations' = operations
    PROVE  /\ \A p \in OpId : operations'[p].status = "queued" => operations'[p].effects = 2
           /\ \A o \in OpId : LedgerStays(o)
  BY DEF LedgerStep, Charged, LedgerStays

\* The active operation ends.
LEMMA ChargedEnds ==
    ASSUME LedgerStep, NEW o \in OpId, active = o, OthersKept(o), active' = None
    PROVE  Charged'
<1>1. None \notin OpId
  BY StoreTypes DEF LedgerStep, Step, StoreInv
<1> QED
  BY <1>1, OnlyQueued DEF Charged

-----------------------------------------------------------------------------
(* The transitions *)

\* No turn is admitted and none is active.
LEMMA InitCharged == Init => Charged
<1> SUFFICES ASSUME Init PROVE Charged
  OBVIOUS
<1>1. \A o \in OpId : operations[o].status = "absent" /\ active # o
  BY BoundsAssumption DEF Init, AbsentOperation, OpId, None
<1> QED
  BY <1>1 DEF Charged

\* An admitted turn has two entries, and its call waits for it, not for the active one.
LEMMA AdmitCharged ==
    ASSUME LedgerStep, NEW s \in Submission, NEW spawn \in AtMostOne, Admit(s, spawn)
    PROVE  Charged'
<1> DEFINE o == admitted + 1
           p == [AbsentOperation EXCEPT !.submission = s, !.status = "queued", !.effects = 2]
<1>1. o \in OpId /\ operations' = [operations EXCEPT ![o] = p] /\ active' = active
  BY DEF Admit
<1>2. p.effects = 2
  BY DEF AbsentOperation
<1>3. \A f \in Fiber : fibers'[f] \in {fibers[f], Spawned("run", boot, o)}
  BY DEF Admit
<1>4. Spawned("run", boot, o).op = o
  BY DEF Spawned, Idle
<1>5. active # o
  <2> SUFFICES ASSUME active = o PROVE FALSE
    OBVIOUS
  <2>1. operations[o].status # "absent"
    BY <1>1 DEF LedgerStep, Step, StoreInv, Agrees, Sound, Busy, Executing
  <2>2. o <= admitted
    BY <1>1, <2>1 DEF LedgerStep, Step, StoreInv, Agrees, Sound
  <2> QED
    BY <2>2, StoreTypes DEF LedgerStep, Step, StoreInv
<1> HIDE DEF p, o
<1>6. operations'[o] = p /\ OthersKept(o)
  BY <1>1, RecordSet DEF LedgerStep, Step, StoreInv
<1>7. \A q \in OpId : operations'[q].status = "queued" => operations'[q].effects = 2
  BY <1>2, <1>6 DEF OthersKept, LedgerStep, Charged
<1>8. \A q \in OpId : active = q => LedgerStays(q)
  BY <1>5, <1>6 DEF OthersKept, LedgerStays
<1>9. \A f \in Fiber : Eased(f)
  BY <1>3, <1>4, <1>5 DEF Eased
<1> QED
  BY <1>1, <1>7, <1>8, <1>9, ChargedStays

\* The call that claims a turn no longer waits for it, and owes two entries instead.
LEMMA ClaimCharged ==
    ASSUME LedgerStep, NEW f \in Fiber, Claim(f)
    PROVE  Charged'
<1>1. CASE ~Claimable(fibers[f].op)
  <2>1. Stop(f) /\ operations' = operations /\ active' = active
    BY <1>1 DEF Claim
  <2> QED
    BY <2>1, LedgerUntouched, StopCharged
<1>2. CASE Claimable(fibers[f].op)
  <2>1. PICK o \in OpId : o = fibers[f].op
    BY WorkingType DEF LedgerStep, Step, StoreInv, Claim, Working
  <2> DEFINE r == [fibers[f] EXCEPT !.pc = "snapshot", !.generation = generation + 1,
                       !.attempt = operations[o].attempt, !.since = now]
             lease == now + LeaseDuration
             p == [operations[o] EXCEPT
                       !.status = "running", !.checkpoint = "preparing",
                       !.generation = generation + 1, !.owner = fibers[f].boot,
                       !.lease = lease]
  <2>2. /\ fibers' = [fibers EXCEPT ![f] = r] /\ active' = o
        /\ operations' = [operations EXCEPT ![o] = p]
    <3>1. o \in DOMAIN operations
      BY StoreTypes DEF LedgerStep, Step, StoreInv
    <3>2. operations' = [operations EXCEPT ![o] = p]
      BY <1>2, <2>1, <3>1, ZenonT(60) DEF Claim
    <3>3. fibers' = [fibers EXCEPT ![f] = r] /\ active' = o
      BY <1>2, <2>1, ZenonT(60) DEF Claim
    <3> QED
      BY <3>2, <3>3
  <2>3. r.pc = "snapshot" /\ r.op = o
    BY <2>1, WorkingType DEF LedgerStep, Step, StoreInv, FiberRecord
  <2>4. /\ p.status = "running" /\ p.effects = operations[o].effects
        /\ p.attempt = operations[o].attempt /\ p.partial = operations[o].partial
    <3> HIDE DEF lease
    <3> QED
      BY LedgerType DEF Operation
  <2> HIDE DEF r, p
  <2>5. operations'[o] = p /\ OthersKept(o)
    BY <2>2, RecordSet DEF LedgerStep, Step, StoreInv
  <2>6. \A g \in Fiber : fibers'[g] = IF g = f THEN r ELSE fibers[g]
    BY <2>2 DEF LedgerStep, Step, StoreInv, TypeInv, TypeOK
  <2>7. f \in Waits(o) /\ WaitsNext(o) = Waits(o) \ {f}
    BY <2>1, <2>3, <2>6 DEF Claim, Waits, WaitsNext
  <2>8. Cardinality(WaitsNext(o)) = Cardinality(Waits(o)) - 1
    BY <2>7, WaitsCount, FS_RemoveElement DEF LedgerStep
  <2>9. ASSUME NEW g \in Fiber PROVE Due(fibers'[g].pc) <= 2 /\ Due(fibers'[g].pc) \in Nat
    BY DueType
  <2>10. /\ operations[o].effects \in Nat /\ operations[o].attempt \in Nat
         /\ Cardinality(Waits(o)) \in Nat /\ Cardinality(Fiber) \in Nat
         /\ Cardinality(Waits(o)) <= Cardinality(Fiber)
         /\ Spent(o) \in Nat /\ Allowed(o) \in Nat
    BY LedgerType, WaitsCount DEF LedgerStep
  <2>11. Allowed(o)' = Allowed(o)
    BY <2>4, <2>5 DEF Allowed
  <2>12. Spent(o)' = operations[o].effects + 2 * (Cardinality(Waits(o)) - 1)
    BY <2>4, <2>5, <2>8 DEF Spent, Waits, WaitsNext
  <2>13. Spent(o)' + 2 <= Allowed(o)
    <3>1. Spent(o)' + 2 = Spent(o)
      BY <2>10, <2>12 DEF Spent
    <3>2. Spent(o) <= Allowed(o)
      <4>1. CASE active = o
        BY <4>1 DEF LedgerStep, Charged
      <4>2. CASE active # o
        <5>1. queue # << >> /\ Head(queue) = o
          BY <1>2, <2>1, <4>2 DEF Claimable
        <5>2. queue \in Seq(OpId) /\ 1 \in DOMAIN queue /\ queue[1] = o
          BY <5>1, StoreTypes, HeadTailProperties, LenProperties, EmptySeq
             DEF LedgerStep, Step, StoreInv
        <5>3. operations[o].status = "queued"
          BY <5>2 DEF Waiting, LedgerStep, Step, StoreInv, Agrees, Sound
        <5>4. operations[o].effects = 2
          BY <5>3 DEF LedgerStep, Charged
        <5> QED
          BY <2>10, <5>4 DEF Spent, Allowed
      <4> QED
        BY <4>1, <4>2
    <3> QED
      BY <2>10, <3>1, <3>2
  <2>14. Spent(o)' \in Int
    BY <2>10, <2>12
  <2>15. \A q \in OpId : operations'[q].status = "queued" => operations'[q].effects = 2
    BY <2>4, <2>5 DEF OthersKept, LedgerStep, Charged
  <2> QED
    BY <2>2, <2>9, <2>10, <2>11, <2>13, <2>14, <2>15 DEF Charged
<1> QED
  BY <1>1, <1>2

\* A call adds e of the entries it owed to its operation.
LEMMA WriteCharged ==
    ASSUME LedgerStep, NEW f \in Fiber, fibers[f].pc \in FencedPC,
           NEW o \in OpId, fibers[f].op = o, active' = active,
           NEW p, operations' = [operations EXCEPT ![o] = p],
           NEW e \in Nat, p.effects = operations[o].effects + e,
           p.attempt = operations[o].attempt,
           p.partial = operations[o].partial \/ operations[o].partial # "none",
           NEW r, fibers' = [fibers EXCEPT ![f] = r], r.pc # "claim",
           Due(r.pc) + e <= Due(fibers[f].pc)
    PROVE  Charged'
<1>1. active = o /\ fibers[f].pc \in Holding
  BY BoundToActive DEF LedgerStep, Step, FencedPC, Bound, Claimed
<1>2. operations'[o] = p /\ OthersKept(o)
  BY RecordSet DEF LedgerStep, Step, StoreInv
<1>3. PartialStays(o)
  BY <1>1, ActivePartialStays DEF LedgerStep
<1>4. /\ operations[o].attempt \in Nat /\ Cardinality(Fiber) \in Nat
      /\ operations[o].effects \in Nat /\ Due(r.pc) \in Nat
  BY LedgerType, WaitsCount, DueType DEF LedgerStep
<1>5. Allowed(o)' >= Allowed(o) + 0
  BY <1>2, <1>3, <1>4 DEF Allowed, PartialStays
<1>6. Backed(o, Due(r.pc) + e - 0)
  BY <1>4 DEF Backed
<1>7. operations'[o].effects = operations[o].effects + e
  BY <1>2
<1> QED
  BY <1>1, <1>2, <1>5, <1>6, <1>7, HolderCharged

\* A call that works on the active operation moves where it owes no more.
LEMMA MoveCharged ==
    ASSUME LedgerStep, NEW f \in Fiber, fibers[f].pc \in Bound,
           UNCHANGED <<operations, active>>,
           NEW r, fibers' = [fibers EXCEPT ![f] = r], r.pc # "claim",
           Due(r.pc) <= Due(fibers[f].pc)
    PROVE  Charged'
<1>1. PICK o \in OpId : o = active /\ o = fibers[f].op /\ fibers[f].pc \in Holding
  BY BoundToActive DEF LedgerStep, Step
<1>2. Allowed(o)' = Allowed(o) /\ Allowed(o) \in Nat /\ operations[o].effects \in Nat
  BY LedgerType DEF Allowed
<1>3. Due(r.pc) \in Int
  BY DueType
<1>4. Backed(o, Due(r.pc) + 0 - 0)
  BY <1>1, <1>3 DEF Backed
<1>5. Allowed(o)' >= Allowed(o) + 0 /\ operations'[o].effects = operations[o].effects + 0
  BY <1>2
<1> QED
  BY <1>1, <1>4, <1>5, HolderCharged DEF OthersKept

\* A call moves on without a write.
LEMMA GotoCharged ==
    ASSUME LedgerStep, NEW f \in Fiber, fibers[f].pc \in Bound,
           UNCHANGED <<operations, active>>,
           NEW pc, pc # "claim", Due(pc) <= Due(fibers[f].pc), Goto(f, pc)
    PROVE  Charged'
<1> DEFINE r == [fibers[f] EXCEPT !.pc = pc, !.since = now]
<1>1. r.pc = pc /\ fibers' = [fibers EXCEPT ![f] = r]
  BY WorkingType DEF LedgerStep, Step, StoreInv, FiberRecord, Goto
<1> HIDE DEF r
<1> QED
  BY <1>1, MoveCharged

\* A call fails.
LEMMA FailCharged ==
    ASSUME LedgerStep, NEW f \in Fiber, fibers[f].pc \in Bound,
           UNCHANGED <<operations, active>>, NEW error, Fail(f, error)
    PROVE  Charged'
<1> DEFINE r == [fibers[f] EXCEPT !.pc = "catch", !.error = error, !.since = now]
<1>1. r.pc = "catch" /\ fibers' = [fibers EXCEPT ![f] = r]
  BY WorkingType DEF LedgerStep, Step, StoreInv, FiberRecord, Fail
<1> HIDE DEF r
<1>2. Due(r.pc) <= Due(fibers[f].pc)
  BY <1>1 DEF Due
<1> QED
  BY <1>1, <1>2, MoveCharged

\* The request snapshot is the first of the two entries of an attempt.
LEMMA SnapshotCharged ==
    ASSUME LedgerStep, NEW f \in Fiber, PersistRequestSnapshot(f)
    PROVE  Charged'
<1>1. PICK o \in OpId : o = fibers[f].op
  BY WorkingType DEF LedgerStep, Step, StoreInv, PersistRequestSnapshot, Working, Claimed
<1> DEFINE next == IF fibers[f].mode = "continue" THEN "partial-begin" ELSE "mark"
           effects == operations[o].effects + 1
           p == [operations[o] EXCEPT !.checkpoint = "preparing", !.effects = effects]
           r == [fibers[f] EXCEPT !.pc = next, !.since = now]
<1>2. fibers[f].pc = "snapshot" /\ active' = active
  BY DEF PersistRequestSnapshot
<1>3. CASE Stop(f) /\ operations' = operations
  BY <1>2, <1>3, LedgerUntouched, StopCharged
<1>4. CASE ~(Stop(f) /\ operations' = operations)
  <2>1. o \in DOMAIN operations
    BY StoreTypes DEF LedgerStep, Step, StoreInv
  <2>2. operations' = [operations EXCEPT ![o] = p] /\ Goto(f, next)
    BY <1>1, <1>4, <2>1, ZenonT(60) DEF PersistRequestSnapshot
  <2>3. fibers' = [fibers EXCEPT ![f] = r]
    BY <2>2 DEF Goto
  <2>4. /\ p.effects = effects /\ p.attempt = operations[o].attempt
        /\ p.partial = operations[o].partial
    <3> HIDE DEF effects
    <3> QED
      BY LedgerType DEF Operation
  <2>5. r.pc = next
    <3> HIDE DEF next
    <3> QED
      BY WorkingType DEF LedgerStep, Step, StoreInv, FiberRecord
  <2>6. r.pc \in {"partial-begin", "mark"}
    BY <2>5
  <2>7. p.effects = operations[o].effects + 1
    BY <2>4
  <2> HIDE DEF p, r, next, effects
  <2>8. r.pc # "claim" /\ Due(r.pc) + 1 <= Due(fibers[f].pc)
    BY <1>2, <2>6 DEF Due
  <2>9. fibers[f].pc \in FencedPC
    BY <1>2 DEF FencedPC
  <2>10. 1 \in Nat
    OBVIOUS
  <2> QED
    BY <1>1, <1>2, <2>2, <2>3, <2>4, <2>7, <2>8, <2>9, <2>10, WriteCharged
<1> QED
  BY <1>3, <1>4

\* The inference is the second.
LEMMA MarkCharged ==
    ASSUME LedgerStep, NEW f \in Fiber, MarkStreaming(f)
    PROVE  Charged'
<1>1. PICK o \in OpId : o = fibers[f].op
  BY WorkingType DEF LedgerStep, Step, StoreInv, MarkStreaming, Working, Claimed
<1> DEFINE step == IF fibers[f].mode = "continue" THEN "body" ELSE "begin"
           base == IF fibers[f].mode = "continue"
                   THEN Len(transcript[fibers[f].op].text) ELSE 0
           lease == now + LeaseDuration
           effects == operations[o].effects + 1
           p == [operations[o] EXCEPT !.status = "running", !.checkpoint = "streaming",
                                      !.lease = lease, !.effects = effects]
           r == [fibers[f] EXCEPT !.pc = "stream", !.since = now, !.parts = << >>,
                                  !.step = step, !.base = base]
<1>2. fibers[f].pc = "mark" /\ active' = active
  BY DEF MarkStreaming
<1>3. CASE Stop(f) /\ operations' = operations
  BY <1>2, <1>3, LedgerUntouched, StopCharged
<1>4. CASE ~(Stop(f) /\ operations' = operations)
  <2>1. o \in DOMAIN operations
    BY StoreTypes DEF LedgerStep, Step, StoreInv
  <2>2. operations' = [operations EXCEPT ![o] = p]
    BY <1>1, <1>4, <2>1, ZenonT(60) DEF MarkStreaming
  <2>3. fibers' = [fibers EXCEPT ![f] = r]
    BY <1>1, <1>4 DEF MarkStreaming
  <2>4. /\ p.effects = effects /\ p.attempt = operations[o].attempt
        /\ p.partial = operations[o].partial
    <3> HIDE DEF effects, lease
    <3> QED
      BY LedgerType DEF Operation
  <2>5. r.pc = "stream"
    <3> HIDE DEF step, base
    <3> QED
      BY WorkingType DEF LedgerStep, Step, StoreInv, FiberRecord
  <2>6. p.effects = operations[o].effects + 1
    BY <2>4
  <2> HIDE DEF p, r, effects
  <2>7. r.pc # "claim" /\ Due(r.pc) + 1 <= Due(fibers[f].pc)
    BY <1>2, <2>5 DEF Due
  <2>8. fibers[f].pc \in FencedPC
    BY <1>2 DEF FencedPC
  <2>9. 1 \in Nat
    OBVIOUS
  <2> QED
    BY <1>1, <1>2, <2>2, <2>3, <2>4, <2>6, <2>7, <2>8, <2>9, WriteCharged
<1> QED
  BY <1>3, <1>4

\* An event is no entry of the ledger.
LEMMA AppendCharged ==
    ASSUME LedgerStep, NEW f \in Fiber, fibers[f].pc = "stream", NEW tool, NEW text,
           NEW r, r.pc = "stream", AppendEvent(f, text, tool, r), EventUnchanged
    PROVE  Charged'
<1>1. PICK o \in OpId : o = fibers[f].op
  BY WorkingType DEF LedgerStep, Step, StoreInv, Working, Claimed
<1> DEFINE events == operations[o].events + 1
           answer == operations[o].text \o text
           called == operations[o].tool \/ tool
           lease == now + LeaseDuration
           work == IF operations[o].attempt > 0 THEN operations[o].work + 1 ELSE operations[o].work
           p == [operations[o] EXCEPT
                    !.status = "running", !.checkpoint = "streaming", !.work = work,
                    !.lease = lease, !.stream = "open", !.expires = Never,
                    !.events = events, !.text = answer, !.tool = called]
<1>2. active' = active /\ fibers[f].pc \in Bound /\ fibers[f].pc \in FencedPC
  BY DEF EventUnchanged, Bound, Claimed, FencedPC
<1>3. CASE Fail(f, "fatal") /\ operations' = operations
  BY <1>2, <1>3, FailCharged
<1>4. CASE ~(Fail(f, "fatal") /\ operations' = operations)
  <2>1. o \in DOMAIN operations
    BY StoreTypes DEF LedgerStep, Step, StoreInv
  <2>2. operations' = [operations EXCEPT ![o] = p]
    BY <1>1, <1>4, <2>1, ZenonT(150) DEF AppendEvent
  <2>3. fibers' = [fibers EXCEPT ![f] = r]
    BY <1>4 DEF AppendEvent
  <2>4. /\ p.effects = operations[o].effects /\ p.attempt = operations[o].attempt
        /\ p.partial = operations[o].partial
    <3> HIDE DEF work, answer, called, events, lease
    <3> QED
      BY LedgerType DEF Operation
  <2> HIDE DEF p
  <2>5. p.effects = operations[o].effects + 0
    BY <2>4, LedgerType
  <2>6. Due(r.pc) + 0 <= Due(fibers[f].pc)
    BY DEF Due
  <2> QED
    BY <1>1, <1>2, <2>2, <2>3, <2>4, <2>5, <2>6, WriteCharged
<1> QED
  BY <1>3, <1>4

\* The executor's events.
LEMMA EmitCharged ==
    ASSUME LedgerStep, NEW f \in Fiber,
           EmitStarted(f) \/ EmitText(f) \/ EmitTool(f) \/ EmitDone(f)
    PROVE  Charged'
<1>1. fibers[f].pc = "stream" /\ fibers[f] \in FiberRecord
  BY WorkingType DEF LedgerStep, Step, StoreInv,
     EmitStarted, EmitText, EmitTool, EmitDone, Streaming
<1>2. CASE EmitStarted(f)
  <2> DEFINE r == [fibers[f] EXCEPT !.step = "body", !.since = now]
  <2>1. r.pc = "stream" /\ AppendEvent(f, << >>, FALSE, r)
    BY <1>1, <1>2 DEF FiberRecord, EmitStarted
  <2> QED
    BY <1>1, <1>2, <2>1, AppendCharged DEF EmitStarted
<1>3. CASE EmitText(f)
  <2> DEFINE part == fibers[f].base + Len(fibers[f].parts) + 1
             r == [fibers[f] EXCEPT !.parts = Append(@, part), !.since = now]
  <2>1. r.pc = "stream"
    BY <1>1 DEF FiberRecord
  <2>2. AppendEvent(f, <<part>>, FALSE, r)
    BY <1>3 DEF EmitText
  <2> QED
    BY <1>1, <1>3, <2>1, <2>2, AppendCharged DEF EmitText
<1>4. CASE EmitTool(f)
  <2> DEFINE r == [fibers[f] EXCEPT !.since = now]
  <2>1. r.pc = "stream" /\ AppendEvent(f, << >>, TRUE, r)
    BY <1>1, <1>4 DEF FiberRecord, EmitTool
  <2> QED
    BY <1>1, <1>4, <2>1, AppendCharged DEF EmitTool
<1>5. CASE EmitDone(f)
  <2> DEFINE r == [fibers[f] EXCEPT !.step = "ended", !.since = now]
  <2>1. r.pc = "stream" /\ AppendEvent(f, << >>, FALSE, r)
    BY <1>1, <1>5 DEF FiberRecord, EmitDone
  <2> QED
    BY <1>1, <1>5, <2>1, AppendCharged DEF EmitDone
<1> QED
  BY <1>2, <1>3, <1>4, <1>5

\* The message is no entry either.
LEMMA SaveCharged ==
    ASSUME LedgerStep, NEW f \in Fiber, SaveToolRound(f) \/ SaveAnswer(f) \/ WritePartial(f)
    PROVE  Charged'
<1>1. /\ fibers[f].pc \in Bound /\ fibers[f] \in FiberRecord
      /\ UNCHANGED <<operations, active>>
  BY WorkingType DEF LedgerStep, Step, StoreInv, Bound, Claimed, stored,
     SaveToolRound, SaveAnswer, SaveResponse, Streaming, WritePartial
<1>2. CASE SaveToolRound(f)
  <2> DEFINE base == fibers[f].base + Len(fibers[f].parts)
             r == [fibers[f] EXCEPT !.base = base, !.parts = << >>]
  <2>1. r.pc = "stream" /\ fibers[f].pc = "stream"
    <3>1. fibers[f].pc = "stream"
      BY <1>2 DEF SaveToolRound, SaveResponse, Streaming
    <3> HIDE DEF base
    <3> QED
      BY <1>1, <3>1 DEF FiberRecord
  <2>2. fibers' = [fibers EXCEPT ![f] = r]
    BY <1>2 DEF SaveToolRound
  <2> HIDE DEF r
  <2>3. r.pc # "claim" /\ Due(r.pc) <= Due(fibers[f].pc)
    BY <2>1 DEF Due
  <2> QED
    BY <1>1, <2>2, <2>3, MoveCharged
<1>3. CASE SaveAnswer(f)
  <2> DEFINE r == [fibers[f] EXCEPT !.step = "saved"]
  <2>1. r.pc = "stream" /\ fibers[f].pc = "stream"
    BY <1>1, <1>3 DEF FiberRecord, SaveAnswer, SaveResponse, Streaming
  <2>2. fibers' = [fibers EXCEPT ![f] = r]
    BY <1>3 DEF SaveAnswer
  <2> HIDE DEF r
  <2>3. r.pc # "claim" /\ Due(r.pc) <= Due(fibers[f].pc)
    BY <2>1 DEF Due
  <2> QED
    BY <1>1, <2>2, <2>3, MoveCharged
<1>4. CASE WritePartial(f)
  <2>1. fibers[f].pc = "partial-write" /\ Goto(f, "partial-complete")
    BY <1>4 DEF WritePartial
  <2>2. Due("partial-complete") <= Due(fibers[f].pc)
    BY <2>1 DEF Due
  <2> QED
    BY <1>1, <2>1, <2>2, GotoCharged
<1> QED
  BY <1>2, <1>3, <1>4

\* The first partial answer of a turn is an entry of its own, and is allowed for.
LEMMA BeginPartialCharged ==
    ASSUME LedgerStep, NEW f \in Fiber, BeginPartial(f)
    PROVE  Charged'
<1>1. PICK o \in OpId : o = fibers[f].op
  BY WorkingType DEF LedgerStep, Step, StoreInv, BeginPartial, Working, Claimed
<1>2. /\ fibers[f].pc = "partial-begin" /\ active' = active
      /\ fibers[f].pc \in Bound /\ fibers[f].pc \in Holding
  BY DEF BeginPartial, Bound, Claimed, Holding, PC
<1>3. CASE Stop(f) /\ operations' = operations
  BY <1>2, <1>3, LedgerUntouched, StopCharged
<1>4. CASE Goto(f, "mark") /\ operations' = operations
  <2>1. Due("mark") <= Due(fibers[f].pc)
    BY <1>2 DEF Due
  <2> QED
    BY <1>2, <1>4, <2>1, GotoCharged
<1>5. CASE /\ ~(Stop(f) /\ operations' = operations)
           /\ ~(Goto(f, "mark") /\ operations' = operations)
  <2> DEFINE e == IF operations[o].partial # "none" THEN 0 ELSE 1
             effects == IF operations[o].partial # "none" THEN operations[o].effects
                        ELSE operations[o].effects + 1
             p == [operations[o] EXCEPT !.partial = "pending", !.effects = effects]
             r == [fibers[f] EXCEPT !.pc = "partial-write", !.since = now]
  <2>1. o \in DOMAIN operations
    BY StoreTypes DEF LedgerStep, Step, StoreInv
  <2>2. operations' = [operations EXCEPT ![o] = p] /\ Goto(f, "partial-write")
    BY <1>1, <1>5, <2>1, ZenonT(60) DEF BeginPartial
  <2>3. fibers' = [fibers EXCEPT ![f] = r]
    BY <2>2 DEF Goto
  <2>4. p.effects = effects /\ p.attempt = operations[o].attempt /\ p.partial = "pending"
    <3> HIDE DEF effects
    <3> QED
      BY LedgerType DEF Operation
  <2>5. r.pc = "partial-write"
    BY WorkingType DEF LedgerStep, Step, StoreInv, FiberRecord
  <2>6. e \in Nat /\ effects = operations[o].effects + e
    BY LedgerType
  <2> HIDE DEF p, r
  <2>7. operations'[o] = p /\ OthersKept(o)
    BY <2>2, RecordSet DEF LedgerStep, Step, StoreInv
  <2>8. active = o
    BY <1>1, <1>2, BoundToActive DEF LedgerStep, Step
  <2>9. operations[o].attempt \in Nat /\ Cardinality(Fiber) \in Nat
    BY LedgerType, WaitsCount DEF LedgerStep
  <2>10. Allowed(o)' >= Allowed(o) + e
    BY <2>4, <2>7, <2>9 DEF Allowed
  <2>11. Due(r.pc) = 1 /\ Due(fibers[f].pc) = 1 /\ r.pc # "claim"
    BY <1>2, <2>5 DEF Due
  <2>12. operations'[o].effects = operations[o].effects + e
    BY <2>4, <2>6, <2>7
  <2> HIDE DEF e, effects
  <2>13. Backed(o, Due(r.pc) + e - e)
    BY <1>1, <2>6, <2>11 DEF Backed
  <2> QED
    BY <1>2, <2>3, <2>6, <2>7, <2>8, <2>10, <2>11, <2>12, <2>13, HolderCharged
<1> QED
  BY <1>3, <1>4, <1>5

\* Its completion is not.
LEMMA CompletePartialCharged ==
    ASSUME LedgerStep, NEW f \in Fiber, CompletePartial(f)
    PROVE  Charged'
<1>1. PICK o \in OpId : o = fibers[f].op
  BY WorkingType DEF LedgerStep, Step, StoreInv, CompletePartial, Working, Claimed
<1> DEFINE p == [operations[o] EXCEPT !.partial = "completed"]
           r == [fibers[f] EXCEPT !.pc = "mark", !.since = now]
<1>2. fibers[f].pc = "partial-complete" /\ active' = active
  BY DEF CompletePartial
<1>3. CASE Stop(f) /\ operations' = operations
  BY <1>2, <1>3, LedgerUntouched, StopCharged
<1>4. CASE ~(Stop(f) /\ operations' = operations)
  <2>1. operations' = [operations EXCEPT ![o] = p] /\ fibers' = [fibers EXCEPT ![f] = r]
    BY <1>1, <1>4, StoreTypes DEF CompletePartial, Goto, LedgerStep, Step, StoreInv
  <2>2. p.effects = operations[o].effects /\ p.attempt = operations[o].attempt
    BY LedgerType DEF Operation
  <2>3. operations[o].partial # "none"
    BY <1>1, <1>2 DEF LedgerStep, Step, Answers, CallSaved, Bound, Claimed
  <2>4. r.pc = "mark"
    BY WorkingType DEF LedgerStep, Step, StoreInv, FiberRecord
  <2> HIDE DEF p, r
  <2>5. p.effects = operations[o].effects + 0
    BY <2>2, LedgerType
  <2>6. r.pc # "claim" /\ Due(r.pc) + 0 <= Due(fibers[f].pc)
    BY <1>2, <2>4 DEF Due
  <2>7. fibers[f].pc \in FencedPC
    BY <1>2 DEF FencedPC
  <2>8. 0 \in Nat
    OBVIOUS
  <2> QED
    BY <1>1, <1>2, <2>1, <2>2, <2>3, <2>5, <2>6, <2>7, <2>8, WriteCharged
<1> QED
  BY <1>3, <1>4

\* Failures and ends of calls, and new calls: none waits for a turn that is active.
LEMMA CallsOnlyCharged ==
    ASSUME LedgerStep, NEW f \in Fiber,
           \/ PermitTimeout(f) \/ Stall(f) \/ Die(f) \/ StorageFails(f)
           \/ \E error \in {"retryable", "oom", "fatal"} : ExecutorFails(f, error)
           \/ WakeIdle(f) \/ StartRecover(f)
    PROVE  Charged'
<1>1. UNCHANGED <<operations, active>>
  BY DEF PermitTimeout, Stall, Die, StorageFails, ExecutorFails, WakeIdle, StartRecover, stored
<1>2. CASE PermitTimeout(f) \/ Die(f)
  BY <1>1, <1>2, LedgerUntouched, StopCharged DEF PermitTimeout, Die
<1>3. CASE \/ Stall(f) \/ StorageFails(f)
           \/ \E error \in {"retryable", "oom", "fatal"} : ExecutorFails(f, error)
  BY <1>1, <1>3, FailCharged
     DEF Stall, StorageFails, ExecutorFails, Streaming, Bound, Claimed
<1>4. CASE WakeIdle(f)
  <2>1. active = None
    BY <1>4 DEF WakeIdle
  <2>2. None \notin OpId
    BY StoreTypes DEF LedgerStep, Step, StoreInv
  <2> QED
    BY <1>1, <2>1, <2>2, LedgerUntouched DEF Charged
<1>5. CASE StartRecover(f)
  <2>1. \A g \in Fiber : fibers'[g] \in {fibers[g], Spawned("recover", boot, None)}
    BY <1>5 DEF StartRecover, LedgerStep, Step, StoreInv, TypeInv, TypeOK
  <2>2. Spawned("recover", boot, None).pc = "reconcile"
    BY DEF Spawned, Idle
  <2>3. \A g \in Fiber : Eased(g)
    BY <2>1, <2>2 DEF Eased, Due
  <2> QED
    BY <1>1, <2>3, LedgerUntouched, ChargedStays
<1> QED
  BY <1>2, <1>3, <1>4, <1>5

\* A settled turn gives up the session.
LEMMA SettleCharged ==
    ASSUME LedgerStep, NEW f \in Fiber, fibers[f].pc \in {"stream", "catch"},
           NEW outcome, Settle(f, outcome, FALSE)
    PROVE  Charged'
<1>1. PICK o \in OpId : o = active /\ o = fibers[f].op
  BY BoundToActive DEF LedgerStep, Step, Bound, Claimed
<1> DEFINE q == fibers[f].op
           effects == operations[q].effects + 1
           expires == now + CompletedStreamRetention
           p == [operations[q] EXCEPT
                    !.status = outcome, !.checkpoint = "terminal",
                    !.owner = None, !.lease = Never, !.effects = effects,
                    !.stream = outcome, !.expires = expires]
<1>2. q \in OpId /\ q \in DOMAIN operations
  BY <1>1, StoreTypes DEF LedgerStep, Step, StoreInv
<1>3. operations' = [operations EXCEPT ![q] = p] /\ active' = None
  BY <1>2 DEF Settle
<1> HIDE DEF p, q
<1>4. OthersKept(o)
  BY <1>1, <1>2, <1>3, RecordSet DEF q, LedgerStep, Step, StoreInv
<1> QED
  BY <1>1, <1>3, <1>4, ChargedEnds

\* A turn whose stream has ended settles, or its call stops or fails.
LEMMA SettleCompletedCharged ==
    ASSUME LedgerStep, NEW f \in Fiber, SettleCompleted(f)
    PROVE  Charged'
<1>1. fibers[f].pc = "stream" /\ fibers[f].pc \in Bound
  BY DEF SettleCompleted, Bound, Claimed
<1>2. CASE Settle(f, "completed", FALSE)
  BY <1>1, <1>2, SettleCharged
<1>3. CASE ~Settle(f, "completed", FALSE)
  <2>1. (Stop(f) \/ Fail(f, "fatal")) /\ UNCHANGED <<operations, active>>
    BY <1>3 DEF SettleCompleted, Settle
  <2> QED
    BY <1>1, <2>1, LedgerUntouched, StopCharged, FailCharged
<1> QED
  BY <1>2, <1>3

\* Scheduling a recovery adds no entry: the attempt it leads to does.
LEMMA CatchCharged ==
    ASSUME LedgerStep, NEW f \in Fiber, Catch(f)
    PROVE  Charged'
<1>1. fibers[f].pc = "catch"
  BY DEF Catch
<1>2. PICK o \in OpId : o = active /\ o = fibers[f].op
  BY <1>1, BoundToActive DEF LedgerStep, Step, Bound, Claimed
<1>3. CASE ~Recoverable(fibers[f]) /\ Settle(f, "failed", FALSE)
  BY <1>1, <1>3, SettleCharged
<1>4. CASE Stop(f) /\ UNCHANGED <<operations, active>>
  BY <1>4, LedgerUntouched, StopCharged
<1>5. CASE /\ ~(~Recoverable(fibers[f]) /\ Settle(f, "failed", FALSE))
           /\ ~(Stop(f) /\ UNCHANGED <<operations, active>>)
  <2>1. Recoverable(fibers[f]) /\ ScheduleRecovery(f)
    BY <1>5 DEF Catch, Settle
  <2> DEFINE q == fibers[f].op
             checkpoint == IF fibers[f].mode = "continue" THEN "partial-persisted"
                           ELSE operations[q].checkpoint
             p == [operations[q] EXCEPT
                      !.status = "interrupted", !.checkpoint = checkpoint,
                      !.owner = None, !.lease = Never, !.stream = "interrupted"]
  <2>2. q \in OpId /\ q \in DOMAIN operations
    BY <1>2, StoreTypes DEF LedgerStep, Step, StoreInv
  <2>3. operations' = [operations EXCEPT ![q] = p]
    BY <1>5, <2>1, <2>2, ZenonT(60) DEF ScheduleRecovery
  <2>4. active' = active /\ Stop(f)
    BY <1>2, <2>1 DEF ScheduleRecovery
  <2>5. p.effects = operations[q].effects /\ p.attempt = operations[q].attempt
    <3> HIDE DEF checkpoint
    <3> QED
      BY <2>2, LedgerType DEF Operation
  <2> HIDE DEF p
  <2>6. q = o
    BY <1>2
  <2> HIDE DEF q
  <2>7. operations'[o] = p /\ OthersKept(o)
    BY <2>3, <2>6, RecordSet DEF LedgerStep, Step, StoreInv
  <2>8. LedgerStays(o)
    BY <2>5, <2>6, <2>7 DEF LedgerStays
  <2>9. \A i \in OpId : active = i => LedgerStays(i)
    BY <1>2, <2>8
  <2> QED
    BY <1>2, <2>4, <2>7, <2>9, OnlyQueued, StopCharged
<1> QED
  BY <1>3, <1>4, <1>5

\* A reconciled turn gives up the session too.
LEMMA ReconcileCharged ==
    ASSUME LedgerStep, NEW f \in Fiber, ReconcileRead(f) \/ ReconcileCommit(f)
    PROVE  Charged'
<1>1. CASE ReconcileRead(f)
  <2> DEFINE proven == ProvenTerminal(recovery.operation)
             pc == IF proven THEN "reconcile-commit" ELSE "prepare"
             op == IF proven THEN recovery.operation ELSE None
             r == [fibers[f] EXCEPT !.pc = pc, !.op = op, !.since = now]
  <2>1. UNCHANGED <<operations, active>> /\ fibers' = [fibers EXCEPT ![f] = r]
    BY <1>1 DEF ReconcileRead, stored
  <2>2. r.pc = pc
    <3> HIDE DEF pc, op
    <3> QED
      BY WorkingType DEF LedgerStep, Step, StoreInv, FiberRecord
  <2>3. pc # "claim" /\ Due(pc) = 0
    BY DEF Due
  <2> HIDE DEF r, pc
  <2>4. \A g \in Fiber : fibers'[g] = IF g = f THEN r ELSE fibers[g]
    BY <2>1 DEF LedgerStep, Step, StoreInv, TypeInv, TypeOK
  <2>5. \A g \in Fiber : Eased(g)
    BY <2>2, <2>3, <2>4 DEF Eased
  <2> QED
    BY <2>1, <2>5, LedgerUntouched, ChargedStays
<1>2. CASE ReconcileCommit(f)
  <2>1. fibers[f].pc = "reconcile-commit" /\ Stop(f)
    BY <1>2 DEF ReconcileCommit
  <2>2. PICK o \in OpId : o = active /\ o = fibers[f].op
    BY <2>1, BoundToActive DEF LedgerStep, Step, Bound
  <2>3. CASE UNCHANGED <<operations, active>>
    BY <2>1, <2>3, LedgerUntouched, StopCharged
  <2>4. CASE ~UNCHANGED <<operations, active>>
    <3> DEFINE q == fibers[f].op
               g == generation + 1
               effects == operations[q].effects + 1
               expires == fibers[f].since + CompletedStreamRetention
               p == [operations[q] EXCEPT
                        !.status = "completed", !.checkpoint = "terminal", !.generation = g,
                        !.owner = None, !.lease = Never, !.effects = effects,
                        !.stream = "completed", !.expires = expires]
    <3>1. q \in OpId /\ q \in DOMAIN operations
      BY <2>2, StoreTypes DEF LedgerStep, Step, StoreInv
    <3>2. operations[q].status \notin {"absent", "completed"} /\ LedgerRoom(operations[q], 1)
      BY <1>2, <2>4 DEF ReconcileCommit
    <3>3. operations' = [operations EXCEPT ![q] = p] /\ active' = None
      BY <1>2, <3>1, <3>2 DEF ReconcileCommit
    <3> HIDE DEF p
    <3>4. q = o
      BY <2>2
    <3> HIDE DEF q
    <3>5. OthersKept(o)
      BY <3>3, <3>4, RecordSet DEF LedgerStep, Step, StoreInv
    <3> QED
      BY <2>2, <3>3, <3>5, ChargedEnds
  <2> QED
    BY <2>3, <2>4
<1> QED
  BY <1>1, <1>2

\* An attempt allows for the two entries its call will add.
LEMMA AttemptCharged ==
    ASSUME LedgerStep, NEW f \in Fiber, fibers[f].pc \in Holding,
           NEW o \in OpId, active = o, Attempt(f, o)
    PROVE  Charged'
<1> DEFINE continues == recovery.kind = "partial-continuation"
           mode == IF continues THEN "continue" ELSE "fresh"
           parts == IF continues THEN operations[o].text ELSE << >>
           attempt == operations[o].attempt + 1
           lease == now + LeaseDuration
           r == [fibers[f] EXCEPT !.pc = "snapshot", !.op = o, !.generation = generation + 1,
                    !.attempt = attempt, !.since = now, !.mode = mode, !.parts = parts]
           p == [operations[o] EXCEPT
                    !.status = "recovering", !.generation = generation + 1, !.attempt = attempt,
                    !.owner = fibers[f].boot, !.lease = lease, !.stream = "open"]
<1>1. active' = o
  BY DEF Attempt
<1>2. operations' = [operations EXCEPT ![o] = p]
  <2>1. o \in DOMAIN operations
    BY StoreTypes DEF LedgerStep, Step, StoreInv
  <2> QED
    BY <2>1, ZenonT(60) DEF Attempt
<1>3. fibers' = [fibers EXCEPT ![f] = r] \/ fibers' = [fibers EXCEPT ![f] = Idle]
  BY ZenonT(60) DEF Attempt, Stop
<1>4. p.effects = operations[o].effects /\ p.attempt = attempt /\ p.partial = operations[o].partial
  <2> HIDE DEF attempt, lease
  <2> QED
    BY LedgerType DEF Operation
<1>5. r.pc = "snapshot" /\ Idle.pc = "idle"
  <2> HIDE DEF attempt, mode, parts
  <2> QED
    BY WorkingType DEF LedgerStep, Step, StoreInv, FiberRecord, Idle
<1> HIDE DEF p, r
<1>6. operations'[o] = p /\ OthersKept(o)
  BY <1>2, RecordSet DEF LedgerStep, Step, StoreInv
<1>7. /\ operations[o].attempt \in Nat /\ operations[o].effects \in Nat
      /\ Cardinality(Fiber) \in Nat
  BY LedgerType, WaitsCount DEF LedgerStep
<1>8. /\ Allowed(o)' >= Allowed(o) + 2
      /\ operations'[o].effects = operations[o].effects + 0
  BY <1>4, <1>6, <1>7 DEF Allowed
<1>9. /\ Backed(o, Due(r.pc) + 0 - 2) /\ r.pc # "claim"
      /\ Backed(o, Due(Idle.pc) + 0 - 2) /\ Idle.pc # "claim"
  BY <1>5 DEF Backed, Due
<1>10. 0 \in Nat /\ 2 \in Nat
  OBVIOUS
<1>11. CASE fibers' = [fibers EXCEPT ![f] = r]
  BY <1>1, <1>6, <1>8, <1>9, <1>10, <1>11, HolderCharged
<1>12. CASE fibers' = [fibers EXCEPT ![f] = Idle]
  BY <1>1, <1>6, <1>8, <1>9, <1>10, <1>12, HolderCharged
<1> QED
  BY <1>3, <1>11, <1>12

\* prepareRecovery ends the call, ends the turn, or makes an attempt.
LEMMA PrepareRecoveryCharged ==
    ASSUME LedgerStep, NEW f \in Fiber, PrepareRecovery(f)
    PROVE  Charged'
<1>1. fibers[f].pc \in Holding
  BY DEF PrepareRecovery, Holding, PC
<1>2. CASE Stop(f) /\ UNCHANGED <<operations, active>>
  BY <1>2, LedgerUntouched, StopCharged
<1>3. CASE ~(Stop(f) /\ UNCHANGED <<operations, active>>)
  <2>1. /\ Open(recovery)
        /\ Exhaust(f, recovery.operation) \/ Attempt(f, recovery.operation)
    BY <1>3 DEF PrepareRecovery, NoRecovery, DisarmMismatch
  <2>2. PICK o \in OpId : o = recovery.operation /\ o = active
    BY <2>1, StoreTypes DEF LedgerStep, Step, StoreInv, Agrees, IncidentIsActive, Open
  <2>3. CASE Exhaust(f, o)
    <3> DEFINE g == generation + 1
               effects == operations[o].effects + 1
               expires == now + CompletedStreamRetention
               p == [operations[o] EXCEPT
                        !.status = "failed", !.checkpoint = "terminal", !.generation = g,
                        !.owner = None, !.lease = Never, !.effects = effects,
                        !.stream = "failed", !.expires = expires]
    <3>1. o \in DOMAIN operations
      BY StoreTypes DEF LedgerStep, Step, StoreInv
    <3>2. LedgerRoom(operations[o], 1)
      BY <1>3, <2>3 DEF Exhaust
    <3>3. operations' = [operations EXCEPT ![o] = p] /\ active' = None
      BY <2>3, <3>1, <3>2, ZenonT(150) DEF Exhaust
    <3> HIDE DEF p
    <3>4. OthersKept(o)
      BY <3>3, RecordSet DEF LedgerStep, Step, StoreInv
    <3> QED
      BY <2>2, <3>3, <3>4, ChargedEnds
  <2>4. CASE Attempt(f, o)
    BY <1>1, <2>2, <2>4, AttemptCharged
  <2> QED
    BY <2>1, <2>2, <2>3, <2>4
<1> QED
  BY <1>2, <1>3

\* wake, retention, the clock and the loss of the isolate.
LEMMA EnvironmentCharged ==
    ASSUME LedgerStep,
           \/ \E b \in LiveBoots : WakeInterrupts(b)
           \/ Cleanup \/ Tick \/ Restart \/ UNCHANGED vars
    PROVE  Charged'
<1>1. CASE \E b \in LiveBoots : WakeInterrupts(b)
  <2>1. /\ active # None /\ active' \in {active, None} /\ fibers' = fibers
        /\ operations' = operations \/ operations' = Interrupted(active)
    BY <1>1 DEF WakeInterrupts
  <2>2. \A f \in Fiber : Eased(f)
    BY <2>1 DEF Eased
  <2>3. CASE operations' = operations
    BY <2>1, <2>2, <2>3, LedgerUntouched, ChargedStays
  <2>4. CASE operations' = Interrupted(active)
    <3>1. PICK o \in OpId : o = active
      BY <2>1, StoreTypes DEF LedgerStep, Step, StoreInv
    <3> DEFINE p == [operations[o] EXCEPT !.status = "interrupted", !.owner = None,
                                          !.lease = Never, !.stream = "interrupted"]
    <3>2. operations' = [operations EXCEPT ![o] = p]
      BY <2>4, <3>1, StoreTypes DEF Interrupted, LedgerStep, Step, StoreInv
    <3>3. p.effects = operations[o].effects /\ p.attempt = operations[o].attempt
      BY LedgerType DEF Operation
    <3> HIDE DEF p
    <3>4. operations'[o] = p /\ OthersKept(o)
      BY <3>2, RecordSet DEF LedgerStep, Step, StoreInv
    <3>5. \A i \in OpId : active = i => LedgerStays(i)
      BY <3>1, <3>3, <3>4 DEF LedgerStays
    <3> QED
      BY <2>1, <2>2, <3>1, <3>4, <3>5, OnlyQueued, ChargedStays
  <2> QED
    BY <2>1, <2>3, <2>4
<1>2. CASE Tick \/ Restart \/ UNCHANGED vars
  <2>1. UNCHANGED <<operations, active>>
    BY <1>2 DEF Tick, Restart, stored, vars
  <2>2. \A f \in Fiber : fibers'[f] \in {fibers[f], Idle}
    BY <1>2 DEF Tick, Restart, vars, LedgerStep, Step, StoreInv, TypeInv, TypeOK
  <2>3. \A f \in Fiber : Eased(f)
    BY <2>2 DEF Eased, Idle, Due
  <2> QED
    BY <2>1, <2>3, LedgerUntouched, ChargedStays
<1>3. CASE Cleanup
  <2>1. /\ active' = active /\ fibers' = fibers
        /\ \A o \in OpId : operations'[o] = IF o \in Dropped THEN AbsentOperation ELSE operations[o]
    BY <1>3 DEF Cleanup
  <2>2. \A o \in OpId : operations'[o].status = "queued" => operations'[o].effects = 2
    BY <2>1 DEF AbsentOperation, LedgerStep, Charged
  <2>3. ASSUME NEW o \in OpId, active = o PROVE LedgerStays(o)
    <3>1. operations[o].status \in Busy
      BY <2>3 DEF LedgerStep, Step, StoreInv, Agrees, Sound
    <3>2. operations[o].stream \notin Terminal
      BY <3>1 DEF LedgerStep, Step, StoreInv, Agrees, Sound, Busy, Executing, Terminal
    <3>3. o \notin Dropped
      BY <3>2 DEF Dropped
    <3> QED
      BY <2>1, <3>3 DEF LedgerStays
  <2>4. \A f \in Fiber : Eased(f)
    BY <2>1 DEF Eased
  <2> QED
    BY <2>1, <2>2, <2>3, <2>4, ChargedStays
<1> QED
  BY <1>1, <1>2, <1>3

-----------------------------------------------------------------------------
(* The invariant, and what follows from it *)

\* Every step keeps the active operation's ledger within what is allowed.
LEMMA StepCharged ==
    ASSUME LedgerStep, [Next]_vars
    PROVE  Charged'
<1>1. ASSUME NEW s \in Submission, NEW spawn \in AtMostOne, Admit(s, spawn) PROVE Charged'
  BY <1>1, AdmitCharged
<1>2. ASSUME NEW f \in Fiber, Claim(f) \/ PersistRequestSnapshot(f) \/ MarkStreaming(f)
      PROVE  Charged'
  BY <1>2, ClaimCharged, SnapshotCharged, MarkCharged
<1>3. ASSUME NEW f \in Fiber, EmitStarted(f) \/ EmitText(f) \/ EmitTool(f) \/ EmitDone(f)
      PROVE  Charged'
  BY <1>3, EmitCharged
<1>4. ASSUME NEW f \in Fiber, SaveToolRound(f) \/ SaveAnswer(f) \/ WritePartial(f)
      PROVE  Charged'
  BY <1>4, SaveCharged
<1>5. ASSUME NEW f \in Fiber,
             \/ PermitTimeout(f) \/ Stall(f) \/ Die(f) \/ StorageFails(f)
             \/ \E error \in {"retryable", "oom", "fatal"} : ExecutorFails(f, error)
             \/ WakeIdle(f) \/ StartRecover(f)
      PROVE  Charged'
  BY <1>5, CallsOnlyCharged
<1>6. ASSUME NEW f \in Fiber, SettleCompleted(f) \/ Catch(f) PROVE Charged'
  BY <1>6, SettleCompletedCharged, CatchCharged
<1>7. ASSUME NEW f \in Fiber, ReconcileRead(f) \/ ReconcileCommit(f) \/ PrepareRecovery(f)
      PROVE  Charged'
  BY <1>7, ReconcileCharged, PrepareRecoveryCharged
<1>8. ASSUME NEW f \in Fiber, BeginPartial(f) \/ CompletePartial(f) PROVE Charged'
  BY <1>8, BeginPartialCharged, CompletePartialCharged
<1>9. ASSUME \/ \E b \in LiveBoots : WakeInterrupts(b)
             \/ Cleanup \/ Tick \/ Restart \/ UNCHANGED vars
      PROVE  Charged'
  BY <1>9, EnvironmentCharged
<1> QED
  BY <1>1, <1>2, <1>3, <1>4, <1>5, <1>6, <1>7, <1>8, <1>9 DEF Next

\* The invariants of the store and of the answers, and that of the ledger.
LEMMA LedgerInvariant ==
    ASSUME ~OverlappingIsolates, IsFiniteSet(Fiber)
    PROVE  Spec => [](StoreInv /\ Charged)
<1>1. Init => Answers /\ Charged
  BY InitAnswers, InitCharged
<1>2. StoreInv /\ Answers /\ Charged /\ [Next]_vars => Answers' /\ Charged'
  BY NextStore, StepAnswers, StepCharged DEF Step, LedgerStep
<1> QED
  BY <1>1, <1>2, StoreAgrees, PTL DEF Spec

\* The ledger keeps room for the entry that ends a turn, if its limit covers two
\* entries of the admission, two of each call and of each attempt, one of the partial
\* answer and the last: with the limit and the attempts of RuntimeLimits, nine calls.
THEOREM LedgerHasRoom ==
    ASSUME ~OverlappingIsolates, IsFiniteSet(Fiber),
           MaxPhaseEffects >= 4 + 2 * Cardinality(Fiber) + 2 * MaxRecoveryAttempts
    PROVE  Spec => []LedgerKeepsRoom
<1>1. ASSUME StoreInv, Charged PROVE LedgerKeepsRoom
  <2> SUFFICES ASSUME NEW o \in OpId, active = o PROVE LedgerRoom(operations[o], 1)
    BY <1>1, StoreTypes DEF StoreInv, LedgerKeepsRoom
  <2>1. operations[o].effects \in Nat /\ operations[o].attempt \in Nat
    BY <1>1 DEF StoreInv, TypeInv, TypeOK, Operation
  <2>2. Cardinality(Waits(o)) \in Nat /\ Cardinality(Fiber) \in Nat
    BY WaitsCount
  <2>3. operations[o].attempt <= MaxRecoveryAttempts
    BY <1>1 DEF StoreInv, Agrees, Sound
  <2>4. Spent(o) <= Allowed(o)
    BY <1>1 DEF Charged
  <2> QED
    BY <2>1, <2>2, <2>3, <2>4, LimitsAssumption DEF Spent, Allowed, LedgerRoom
<1> QED
  BY <1>1, LedgerInvariant, PTL
===============================================================================
