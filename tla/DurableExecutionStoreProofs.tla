---------------------- MODULE DurableExecutionStoreProofs ----------------------
(***************************************************************************)
(* Proofs about what the durable turn runtime has stored: that the         *)
(* operations, the queue, the active operation, the incident and the alarm *)
(* agree after every transition, that outcomes are final, and that the     *)
(* engine implements TurnSpec.  They hold for any limits and any number of *)
(* submissions, calls, isolates and operations, as long as a replaced      *)
(* isolate does not go on running: then reconciliation, which commits      *)
(* without a fence, may end a turn that is no longer active.               *)
(***************************************************************************)
EXTENDS DurableExecutionProofs

Busy == Executing \cup {"interrupted"}

Scheduled(o) ==
    /\ recovery.operation = o
    /\ recovery.status = "scheduled"
    /\ recovery.scheduledAt # Never
    /\ AlarmMatches(o)

\* The open incident of an operation that was retried remembers its attempts.
Covered(o) ==
    operations[o].attempt > 0 =>
        /\ recovery.operation = o /\ Open(recovery)
        /\ recovery.attempt >= operations[o].attempt

\* What the record of one operation says, against the rest of the stored state.
Sound(o) ==
    /\ operations[o].owner # None <=> operations[o].status \in Executing
    /\ operations[o].lease # Never <=> operations[o].status \in Executing
    /\ operations[o].status = "queued" <=> o \in Waiting
    /\ operations[o].status \in Busy <=> active = o
    /\ operations[o].status = "interrupted" =>
          operations[o].stream = "interrupted" /\ Scheduled(o)
    /\ operations[o].status \in Terminal \/ operations[o].stream \in Terminal =>
          /\ operations[o].stream = operations[o].status
          /\ operations[o].checkpoint = "terminal"
          /\ operations[o].expires # Never
    /\ operations[o].checkpoint = "streaming" => active = o
    /\ operations[o].status = "absent" => operations[o].events = 0
    /\ operations[o].status # "absent" => o <= admitted
    /\ operations[o].status \in {"absent", "queued"} => operations[o].attempt = 0
    /\ operations[o].attempt <= MaxRecoveryAttempts
    /\ active = o => Covered(o)

\* The incident the engine still acts on is that of the active operation.
IncidentIsActive == Open(recovery) => recovery.operation = active

Agrees == (\A o \in OpId : Sound(o)) /\ FIFO /\ IncidentIsActive

\* The calls are those of one isolate, one of them holds its permit, and what a call
\* is about to reconcile is still the active operation.
OnePermit ==
    /\ \A f \in Fiber : fibers[f].pc # "idle" => fibers[f].boot = boot
    /\ \A f, g \in Fiber : fibers[f].pc \in Holding /\ fibers[g].pc \in Holding => f = g
    /\ \A f \in Fiber : fibers[f].pc = "reconcile-commit" => fibers[f].op = active

StoreInv == TypeInv /\ Agrees /\ OnePermit

\* What a step does to the turns: a step of TurnSpec or none, and no outcome changes.
KeepsOutcomes ==
    \A o \in OpId : operations[o].status \in Terminal
        => operations'[o] \in {operations[o], AbsentOperation}

\* Nor is the ledger's entry of a partial answer taken back.
PartialStays(o) == operations[o].partial # "none" => operations'[o].partial # "none"

KeepsPartials ==
    \A o \in OpId : operations[o].status # "absent"
        => PartialStays(o) \/ operations'[o] = AbsentOperation

TurnStep == [Turns!TurnNext]_(Turns!turnVars) /\ KeepsOutcomes /\ KeepsPartials

OthersKept(o) == \A p \in OpId \ {o} : operations'[p] = operations[p]

-----------------------------------------------------------------------------
(* What the steps have in common *)

\* Types the proofs below use everywhere.
LEMMA StoreTypes ==
    ASSUME TypeInv
    PROVE  /\ operations \in [OpId -> Operation]
           /\ queue \in Seq(OpId) /\ Len(queue) \in Nat
           /\ active \in OpId \cup {None} /\ None \notin OpId
           /\ admitted \in Nat /\ now \in Nat /\ now + LeaseDuration # Never
           /\ recovery \in Incident
<1>1. None \notin OpId
  BY BoundsAssumption DEF None, OpId
<1>2. admitted \in Nat /\ now \in Nat
  BY BoundsAssumption DEF TypeInv, TypeOK
<1>3. now + LeaseDuration # Never
  BY <1>2, LimitsAssumption DEF Never
<1>4. queue \in Seq(OpId) /\ Len(queue) \in Nat
  BY LenProperties DEF TypeInv, TypeOK
<1> QED
  BY <1>1, <1>2, <1>3, <1>4 DEF TypeInv, TypeOK

\* An instant that is set is not the null of an unset one.
LEMMA LaterInstant ==
    ASSUME TypeInv, NEW delay \in Nat
    PROVE  now + delay # Never
<1>1. now \in Nat
  BY StoreTypes
<1> QED
  BY <1>1 DEF Never

\* The state of each turn as TurnSpec sees it.
LEMMA TurnStates ==
    ASSUME NEW o \in OpId
    PROVE  /\ operations[o].status = "absent" =>
                 TurnState[o] = IF o <= admitted THEN "forgotten" ELSE "absent"
           /\ operations[o].status = "queued" => TurnState[o] = "queued"
           /\ operations[o].status \in Terminal => TurnState[o] = operations[o].status
           /\ operations[o].status \in Busy => TurnState[o] = "started"
  BY DEF TurnState, Terminal, Busy, Executing

\* The same of the state after a step.
LEMMA TurnStatesNext ==
    ASSUME NEW o \in OpId
    PROVE  /\ operations'[o].status = "absent" =>
                 TurnState'[o] = IF o <= admitted' THEN "forgotten" ELSE "absent"
           /\ operations'[o].status = "queued" => TurnState'[o] = "queued"
           /\ operations'[o].status \in Terminal => TurnState'[o] = operations'[o].status
           /\ operations'[o].status \in Busy => TurnState'[o] = "started"
  BY DEF TurnState, Terminal, Busy, Executing

\* The states that TurnSpec reads are a function on the operations.
LEMMA TurnStateFunction ==
    /\ TurnState = [o \in OpId |-> TurnState[o]]
    /\ TurnState' = [o \in OpId |-> TurnState'[o]]
  BY DEF TurnState

\* A record that stays leaves the state of its turn as it is.
LEMMA TurnStays ==
    ASSUME NEW o \in OpId, operations'[o] = operations[o], admitted' = admitted
    PROVE  TurnState'[o] = TurnState[o]
  BY DEF TurnState

\* One record is replaced.
LEMMA RecordSet ==
    ASSUME TypeInv, NEW o \in OpId, NEW p, operations' = [operations EXCEPT ![o] = p]
    PROVE  operations'[o] = p /\ OthersKept(o)
  BY StoreTypes DEF OthersKept

\* What a call that passes the fence may assume of its operation.
LEMMA FencePassed ==
    ASSUME TypeInv, Agrees, NEW f \in Fiber, NEW t, fibers[f].op \in OpId,
           ownsUnexpiredLease(fibers[f], t)
    PROVE  /\ active = fibers[f].op
           /\ operations[fibers[f].op].status \in Executing
           /\ operations[fibers[f].op].owner # None
           /\ operations[fibers[f].op].lease # Never
           /\ operations[fibers[f].op].stream \notin Terminal
<1> DEFINE o == fibers[f].op
<1>1. Sound(o) /\ operations[o].owner # None
  BY DEF Agrees, ownsUnexpiredLease
<1>2. operations[o].status \in Executing /\ operations[o].lease # Never /\ active = o
  BY <1>1 DEF Sound, Busy
<1>3. operations[o].stream \notin Terminal
  BY <1>1, <1>2 DEF Sound, Executing, Terminal
<1> QED
  BY <1>1, <1>2, <1>3

-----------------------------------------------------------------------------
(* The ways a step changes the stored state *)

\* Not at all.
LEMMA Untouched ==
    ASSUME Agrees, UNCHANGED <<operations, queue, active, recovery, alarm, admitted>>
    PROVE  Agrees' /\ TurnStep
<1>1. Agrees'
  BY DEF Agrees, Sound, FIFO, IncidentIsActive, Scheduled, Covered, AlarmMatches, Waiting, Open
<1>2. UNCHANGED Turns!turnVars
  BY DEF Turns!turnVars, TurnState
<1> QED
  BY <1>1, <1>2 DEF TurnStep, KeepsOutcomes, KeepsPartials, PartialStays

\* The active operation stays active; its log may grow.
LEMMA ActiveGoesOn ==
    ASSUME TypeInv, TypeInv', Agrees, NEW o \in OpId, active = o, active' = o,
           UNCHANGED <<queue, admitted>>, OthersKept(o),
           operations'[o].status \in Busy,
           operations'[o].owner # None <=> operations'[o].status \in Executing,
           operations'[o].lease # Never <=> operations'[o].status \in Executing,
           operations'[o].stream \notin Terminal,
           operations'[o].status = "interrupted" =>
               operations'[o].stream = "interrupted" /\ Scheduled(o)',
           operations'[o].events \in {operations[o].events, operations[o].events + 1},
           operations'[o].attempt <= MaxRecoveryAttempts, Covered(o)', PartialStays(o),
           Open(recovery)' => recovery'.operation = o
    PROVE  Agrees' /\ TurnStep
<1>1. Sound(o) /\ operations[o].status \in Busy
  BY DEF Agrees, Sound
<1>2. o \notin Waiting /\ Waiting' = Waiting
  BY <1>1 DEF Sound, Busy, Executing, Waiting
<1>3. Sound(o)'
  <2>1. operations'[o].status \notin {"queued", "absent"} \cup Terminal
    BY DEF Busy, Executing, Terminal
  <2>2. o <= admitted'
    BY <1>1 DEF Sound, Busy, Executing
  <2> QED
    BY <1>2, <2>1, <2>2 DEF Sound
<1>4. ASSUME NEW p \in OpId \ {o} PROVE Sound(p)'
  <2>1. operations'[p] = operations[p] /\ Sound(p) /\ active # p
    BY DEF OthersKept, Agrees
  <2>2. operations[p].status \notin Busy
    BY <2>1 DEF Sound
  <2> QED
    BY <1>2, <2>1, <2>2 DEF Sound, Busy
<1>5. FIFO'
  <2>1. operations[o].status \notin {"absent", "queued"}
    BY <1>1 DEF Busy, Executing
  <2> QED
    BY <2>1 DEF Agrees, FIFO, OthersKept
<1>6. IncidentIsActive'
  BY DEF IncidentIsActive
<1>7. Agrees'
  BY <1>3, <1>4, <1>5, <1>6 DEF Agrees
<1>8. TurnState' = TurnState /\ TurnState[o] = "started"
  <2>1. TurnState[o] = "started" /\ TurnState'[o] = "started"
    BY <1>1, TurnStates, TurnStatesNext
  <2>2. \A p \in OpId \ {o} : TurnState'[p] = TurnState[p]
    BY TurnStays DEF OthersKept
  <2> QED
    BY <2>1, <2>2, TurnStateFunction
<1>9. [Turns!TurnNext]_(Turns!turnVars)
  <2>1. CASE operations'[o].events = operations[o].events
    BY <1>8, <2>1 DEF Turns!turnVars, OthersKept
  <2>2. CASE operations'[o].events = operations[o].events + 1
    <3>1. Turns!ExtendLog(o)
      BY <1>8, <2>2 DEF Turns!ExtendLog, OthersKept
    <3> QED
      BY <3>1 DEF Turns!TurnNext
  <2> QED
    BY <2>1, <2>2
<1>10. KeepsOutcomes /\ KeepsPartials
  BY <1>1 DEF KeepsPartials, PartialStays, KeepsOutcomes, OthersKept, Busy, Executing, Terminal
<1> QED
  BY <1>7, <1>9, <1>10 DEF TurnStep

\* The active operation ends.
LEMMA ActiveEnds ==
    ASSUME TypeInv, TypeInv', Agrees, NEW o \in OpId, active = o, active' = None,
           UNCHANGED <<queue, admitted>>, OthersKept(o),
           operations'[o].status \in Terminal,
           operations'[o].owner = None, operations'[o].lease = Never,
           operations'[o].stream = operations'[o].status,
           operations'[o].checkpoint = "terminal", operations'[o].expires # Never,
           operations'[o].events = operations[o].events,
           operations'[o].attempt = operations[o].attempt, PartialStays(o),
           ~Open(recovery)'
    PROVE  Agrees' /\ TurnStep
<1>1. Sound(o) /\ operations[o].status \in Busy
  BY DEF Agrees, Sound
<1>2. o \notin Waiting /\ Waiting' = Waiting
  BY <1>1 DEF Sound, Busy, Executing, Waiting
<1>3. Sound(o)'
  <2>1. operations'[o].status \notin {"queued", "absent"} \cup Busy
    BY DEF Busy, Executing, Terminal
  <2>2. o <= admitted' /\ active' # o
    BY <1>1, StoreTypes DEF Sound, Busy, Executing
  <2> QED
    BY <1>1, <1>2, <2>1, <2>2 DEF Sound, Busy
<1>4. ASSUME NEW p \in OpId \ {o} PROVE Sound(p)'
  <2>1. operations'[p] = operations[p] /\ Sound(p) /\ active # p /\ active' # p
    BY StoreTypes DEF OthersKept, Agrees
  <2>2. operations[p].status \notin Busy
    BY <2>1 DEF Sound
  <2> QED
    BY <1>2, <2>1, <2>2 DEF Sound, Busy
<1>5. FIFO'
  <2>1. operations[o].status \notin {"absent", "queued"}
    BY <1>1 DEF Busy, Executing
  <2> QED
    BY <2>1 DEF Agrees, FIFO, OthersKept
<1>6. Agrees'
  BY <1>3, <1>4, <1>5 DEF Agrees, IncidentIsActive
<1>7. Turns!End(o, operations'[o].status)
  <2>1. TurnState[o] = "started" /\ TurnState'[o] = operations'[o].status
    BY <1>1, TurnStates, TurnStatesNext
  <2>2. \A p \in OpId \ {o} : TurnState'[p] = TurnState[p]
    BY TurnStays DEF OthersKept
  <2>3. TurnState' = [TurnState EXCEPT ![o] = operations'[o].status]
    BY <2>1, <2>2, TurnStateFunction
  <2> QED
    BY <2>1, <2>3 DEF Turns!End, OthersKept
<1>8. operations'[o].status \in Turns!Outcomes
  BY DEF Terminal, Turns!Outcomes
<1>9. KeepsOutcomes /\ KeepsPartials
  BY <1>1 DEF KeepsPartials, PartialStays, KeepsOutcomes, OthersKept, Busy, Executing, Terminal
<1> QED
  BY <1>6, <1>7, <1>8, <1>9 DEF TurnStep, Turns!TurnNext

\* The queue's order is that of the ids, and its elements are the waiting ones.
LEMMA HeadAndTail ==
    ASSUME TypeInv, FIFO, queue # << >>, queue' = Tail(queue)
    PROVE  /\ Head(queue) \in OpId /\ Head(queue) \in Waiting
           /\ Head(queue) \notin Waiting'
           /\ Waiting = Waiting' \cup {Head(queue)}
           /\ \A i \in DOMAIN queue' : i + 1 \in DOMAIN queue /\ queue'[i] = queue[i + 1]
           /\ \A i \in DOMAIN queue' : Head(queue) < queue'[i]
<1>1. /\ queue \in Seq(OpId) /\ Len(queue) \in Nat /\ Len(queue) >= 1
      /\ DOMAIN queue = 1..Len(queue)
      /\ Head(queue) = queue[1] /\ queue[1] \in OpId
  BY StoreTypes, HeadTailProperties, EmptySeq, LenProperties
<1>2. /\ DOMAIN queue' = 1..(Len(queue) - 1)
      /\ \A i \in 1..(Len(queue) - 1) : i + 1 \in DOMAIN queue /\ queue'[i] = queue[i + 1]
  BY <1>1, HeadTailProperties, LenProperties
<1>3. \A i \in DOMAIN queue' : Head(queue) < queue'[i]
  BY <1>1, <1>2 DEF FIFO
<1>4. Head(queue) \notin Waiting'
  <2>1. ASSUME NEW i \in DOMAIN queue', queue'[i] = Head(queue) PROVE FALSE
    BY <1>1, <1>3, <2>1 DEF OpId
  <2> QED
    BY <2>1 DEF Waiting
<1>5. Waiting = Waiting' \cup {Head(queue)}
  <2>1. \A i \in DOMAIN queue : i = 1 \/ (i - 1 \in DOMAIN queue' /\ queue[i] = queue'[i - 1])
    BY <1>1, <1>2
  <2>2. ASSUME NEW i \in DOMAIN queue PROVE queue[i] \in Waiting' \cup {Head(queue)}
    BY <1>1, <2>1, <2>2 DEF Waiting
  <2>3. ASSUME NEW i \in DOMAIN queue' PROVE queue'[i] \in Waiting
    BY <1>2, <2>3 DEF Waiting
  <2>4. 1 \in DOMAIN queue /\ Head(queue) = queue[1]
    BY <1>1
  <2> QED
    BY <2>2, <2>3, <2>4 DEF Waiting
<1> QED
  BY <1>1, <1>2, <1>3, <1>4, <1>5 DEF Waiting

\* The head of the queue becomes active.
LEMMA HeadStarts ==
    ASSUME TypeInv, TypeInv', Agrees, active = None, queue # << >>, queue' = Tail(queue),
           NEW o \in OpId, o = Head(queue), active' = o, UNCHANGED <<admitted, recovery>>,
           OthersKept(o),
           operations'[o].status \in Executing,
           operations'[o].owner # None, operations'[o].lease # Never,
           operations'[o].stream = operations[o].stream,
           operations'[o].events = operations[o].events,
           operations'[o].attempt = operations[o].attempt, PartialStays(o)
    PROVE  Agrees' /\ TurnStep
<1>1. FIFO /\ Sound(o) /\ o \in Waiting /\ operations[o].status = "queued"
  BY HeadAndTail DEF Agrees, Sound
<1>2. o \notin Waiting' /\ Waiting = Waiting' \cup {o}
  BY <1>1, HeadAndTail
<1>3. Sound(o)'
  <2>1. operations'[o].status \notin {"queued", "absent", "interrupted"} \cup Terminal
        /\ operations'[o].status \in Busy
    BY DEF Busy, Executing, Terminal
  <2>2. operations'[o].stream \notin Terminal
    BY <1>1 DEF Sound, Terminal
  <2>3. o <= admitted' /\ operations'[o].attempt = 0
    BY <1>1 DEF Sound
  <2>4. 0 <= MaxRecoveryAttempts
    BY LimitsAssumption
  <2> QED
    BY <1>2, <2>1, <2>2, <2>3, <2>4 DEF Sound, Covered
<1>4. ASSUME NEW p \in OpId \ {o} PROVE Sound(p)'
  <2>1. operations'[p] = operations[p] /\ Sound(p) /\ active # p /\ active' # p
    BY StoreTypes DEF OthersKept, Agrees
  <2>2. operations[p].status \notin Busy
    BY <2>1 DEF Sound
  <2> QED
    BY <1>2, <2>1, <2>2 DEF Sound, Busy
<1>5. FIFO'
  <2>1. \A i, j \in DOMAIN queue' : i < j => queue'[i] < queue'[j]
    BY <1>1, HeadAndTail, StoreTypes, HeadTailProperties, LenProperties DEF FIFO
  <2>2. ASSUME NEW p \in OpId, NEW i \in DOMAIN queue',
               operations'[p].status \notin {"absent", "queued"}
        PROVE  p < queue'[i]
    <3>1. CASE p = o
      BY <1>1, <3>1, HeadAndTail
    <3>2. CASE p # o
      <4>1. operations'[p] = operations[p] /\ i + 1 \in DOMAIN queue /\ queue'[i] = queue[i + 1]
        BY <1>1, <3>2, HeadAndTail DEF OthersKept
      <4> QED
        BY <1>1, <2>2, <4>1 DEF FIFO
    <3> QED
      BY <3>1, <3>2
  <2> QED
    BY <2>1, <2>2 DEF FIFO
<1>6. ~Open(recovery)
  BY StoreTypes DEF Agrees, IncidentIsActive, Open
<1>7. Agrees'
  BY <1>3, <1>4, <1>5, <1>6 DEF Agrees, IncidentIsActive, Open
<1>8. Turns!StartNext(o)
  <2>1. TurnState[o] = "queued" /\ TurnState'[o] = "started"
    BY <1>1, TurnStates, TurnStatesNext DEF Busy
  <2>2. \A p \in OpId \ {o} : TurnState'[p] = TurnState[p]
    BY TurnStays DEF OthersKept
  <2>3. TurnState' = [TurnState EXCEPT ![o] = "started"]
    BY <2>1, <2>2, TurnStateFunction
  <2>4. \A p \in OpId : TurnState[p] # "started"
    <3> TAKE p \in OpId
    <3>1. operations[p].status \notin Busy
      BY StoreTypes DEF Agrees, Sound
    <3>2. operations[p].status \in {"absent", "queued"} \cup Terminal
      BY <3>1, StoreTypes DEF Operation, Status, Busy, Executing, Terminal
    <3> QED
      BY <3>2, TurnStates DEF Terminal
  <2>5. [p \in OpId |-> operations'[p].events] = [p \in OpId |-> operations[p].events]
    BY DEF OthersKept
  <2> QED
    BY <2>3, <2>4, <2>5 DEF Turns!StartNext
<1>9. KeepsOutcomes /\ KeepsPartials
  BY <1>1 DEF KeepsPartials, PartialStays, KeepsOutcomes, OthersKept, Terminal
<1> QED
  BY <1>7, <1>8, <1>9 DEF TurnStep, Turns!TurnNext

\* A new operation joins the end of the queue.
LEMMA Joins ==
    ASSUME TypeInv, TypeInv', Agrees, NEW o \in OpId, o = admitted + 1, admitted' = o,
           queue' = Append(queue, o), UNCHANGED <<active, recovery, alarm>>, OthersKept(o),
           operations'[o].status = "queued",
           operations'[o].owner = None, operations'[o].lease = Never,
           operations'[o].stream \notin Terminal,
           operations'[o].checkpoint # "streaming",
           operations'[o].events = 0, operations'[o].attempt = 0
    PROVE  Agrees' /\ TurnStep
<1>1. operations[o].status = "absent" /\ Sound(o) /\ active # o /\ operations[o].events = 0
  <2>1. Sound(o) /\ ~(o <= admitted)
    BY StoreTypes DEF Agrees
  <2> QED
    BY <2>1 DEF Sound, Busy, Executing
<1>2. /\ queue \in Seq(OpId) /\ Len(queue) \in Nat
      /\ DOMAIN queue = 1..Len(queue) /\ DOMAIN queue' = 1..(Len(queue) + 1)
      /\ queue'[Len(queue) + 1] = o
      /\ \A i \in DOMAIN queue : queue'[i] = queue[i]
  BY StoreTypes, AppendProperties, LenProperties
<1>3. Waiting' = Waiting \cup {o}
  BY <1>2 DEF Waiting
<1>4. Sound(o)'
  <2>1. 0 <= MaxRecoveryAttempts
    BY LimitsAssumption
  <2> QED
    BY <1>1, <1>3, <2>1, StoreTypes DEF Sound, Covered, Busy, Executing, Terminal
<1>5. ASSUME NEW p \in OpId \ {o} PROVE Sound(p)'
  <2>1. operations'[p] = operations[p] /\ Sound(p)
    BY DEF OthersKept, Agrees
  <2>2. p <= admitted => p <= admitted'
    BY StoreTypes DEF OpId
  <2> QED
    BY <1>3, <2>1, <2>2 DEF Sound, Scheduled, Covered, AlarmMatches, Open
<1>6. \A p \in OpId : operations[p].status # "absent" => p < o
  BY StoreTypes DEF Agrees, Sound, OpId
<1>7. \A i \in DOMAIN queue : queue[i] \in OpId /\ queue[i] < o
  <2> TAKE i \in DOMAIN queue
  <2>1. queue[i] \in OpId /\ queue[i] \in Waiting
    BY <1>2 DEF Waiting
  <2>2. operations[queue[i]].status = "queued"
    BY <2>1 DEF Agrees, Sound
  <2> QED
    BY <1>6, <2>1, <2>2
<1>8. FIFO'
  <2>1. \A i, j \in DOMAIN queue' : i < j => queue'[i] < queue'[j]
    BY <1>2, <1>7 DEF Agrees, FIFO
  <2>2. ASSUME NEW p \in OpId, NEW i \in DOMAIN queue',
               operations'[p].status \notin {"absent", "queued"}
        PROVE  p < queue'[i]
    <3>1. p # o /\ operations'[p] = operations[p]
      BY <2>2 DEF OthersKept
    <3> QED
      BY <1>2, <1>6, <2>2, <3>1 DEF Agrees, FIFO
  <2> QED
    BY <2>1, <2>2 DEF FIFO
<1>9. Agrees'
  BY <1>4, <1>5, <1>8 DEF Agrees, IncidentIsActive, Open
<1>10. Turns!SubmitTurn(o)
  <2>1. TurnState[o] = "absent" /\ TurnState'[o] = "queued"
    BY <1>1, StoreTypes, TurnStates, TurnStatesNext DEF OpId
  <2>2. ASSUME NEW p \in OpId \ {o} PROVE TurnState'[p] = TurnState[p]
    <3>1. operations'[p] = operations[p] /\ (p <= admitted' <=> p <= admitted)
      BY StoreTypes DEF OthersKept, OpId
    <3> QED
      BY <3>1 DEF TurnState
  <2>3. TurnState' = [TurnState EXCEPT ![o] = "queued"]
    BY <2>1, <2>2, TurnStateFunction
  <2>4. [p \in OpId |-> operations'[p].events] = [p \in OpId |-> operations[p].events]
    BY <1>1 DEF OthersKept
  <2> QED
    BY <2>1, <2>3, <2>4 DEF Turns!SubmitTurn
<1>11. KeepsOutcomes /\ KeepsPartials
  BY <1>1 DEF KeepsPartials, PartialStays, KeepsOutcomes, OthersKept, Terminal
<1> QED
  BY <1>9, <1>10, <1>11 DEF TurnStep, Turns!TurnNext

\* cleanup drops operations that have ended.
LEMMA Forgets ==
    ASSUME TypeInv, TypeInv', Agrees, Cleanup
    PROVE  Agrees' /\ TurnStep
<1>1. /\ UNCHANGED <<queue, active, recovery, alarm, admitted>>
      /\ \A o \in OpId : operations'[o] = IF o \in Dropped THEN AbsentOperation ELSE operations[o]
  BY DEF Cleanup
<1>2. \A o \in Dropped : o \in OpId /\ operations[o].status \in Terminal
  BY DEF Dropped, Agrees, Sound
<1>3. /\ AbsentOperation.status = "absent" /\ AbsentOperation.owner = None
      /\ AbsentOperation.lease = Never /\ AbsentOperation.stream = "open"
      /\ AbsentOperation.checkpoint = "admitted" /\ AbsentOperation.events = 0
      /\ AbsentOperation.attempt = 0 /\ 0 <= MaxRecoveryAttempts
  BY LimitsAssumption DEF AbsentOperation
<1>4. ASSUME NEW o \in Dropped PROVE Sound(o)'
  <2>1. operations'[o] = AbsentOperation /\ Sound(o) /\ Waiting' = Waiting
    BY <1>1, <1>2 DEF Agrees, Waiting
  <2>2. active # o /\ o \notin Waiting
    BY <1>2, <2>1 DEF Sound, Terminal, Busy, Executing
  <2> QED
    BY <1>1, <1>3, <2>1, <2>2 DEF Sound, Covered, Terminal, Busy, Executing
<1>5. ASSUME NEW o \in OpId \ Dropped PROVE Sound(o)'
  BY <1>1 DEF Agrees, Sound, Waiting, Scheduled, Covered, AlarmMatches, Open
<1>6. FIFO'
  BY <1>1, <1>3 DEF Agrees, FIFO
<1>7. Agrees'
  BY <1>1, <1>4, <1>5, <1>6 DEF Agrees, IncidentIsActive, Open
<1>8. PICK turns \in SUBSET OpId : turns = Dropped
  BY DEF Dropped
<1>9. Turns!Forget(turns)
  <2>1. \A o \in turns : TurnState[o] \in Turns!Outcomes
    BY <1>2, <1>8, TurnStates DEF Terminal, Turns!Outcomes
  <2>2. ASSUME NEW o \in turns PROVE TurnState'[o] = "forgotten"
    <3>1. o \in OpId /\ operations'[o].status = "absent"
      BY <1>1, <1>2, <1>3, <1>8
    <3>2. o <= admitted'
      BY <1>1, <1>2, <1>8 DEF Agrees, Sound, Terminal
    <3> QED
      BY <3>1, <3>2, TurnStatesNext
  <2>3. \A o \in OpId \ turns : TurnState'[o] = TurnState[o]
    BY <1>1, <1>8, TurnStays
  <2>4. TurnState' = [o \in OpId |-> IF o \in turns THEN "forgotten" ELSE TurnState[o]]
    BY <2>2, <2>3, TurnStateFunction
  <2>5. [o \in OpId |-> operations'[o].events]
          = [o \in OpId |-> IF o \in turns THEN 0 ELSE operations[o].events]
    BY <1>1, <1>3, <1>8
  <2> QED
    BY <1>1, <2>1, <2>4, <2>5 DEF Turns!Forget
<1>10. KeepsOutcomes /\ KeepsPartials
  BY <1>1 DEF KeepsOutcomes, KeepsPartials, PartialStays
<1> QED
  BY <1>7, <1>9, <1>10 DEF TurnStep, Turns!TurnNext

-----------------------------------------------------------------------------
(* The ways a step changes the calls *)

\* The call that holds the permit, or takes it while it is free, moves on or ends.
LEMMA HolderMoves ==
    ASSUME TypeInv, OnePermit, NEW f \in Fiber, fibers[f].pc # "idle", boot' = boot,
           fibers[f].pc \in Holding \/ PermitFree(fibers[f].boot),
           NEW r, fibers' = [fibers EXCEPT ![f] = r],
           r.pc = "idle" \/ r.boot = fibers[f].boot,
           r.pc = "reconcile-commit" => r.op = active'
    PROVE  OnePermit'
<1>1. \A g \in Fiber : fibers'[g] = IF g = f THEN r ELSE fibers[g]
  BY DEF TypeInv, TypeOK
<1>2. fibers[f].boot = boot
  BY DEF OnePermit
<1>3. \A g \in Fiber \ {f} : fibers[g].pc \notin Holding
  <2> SUFFICES ASSUME NEW g \in Fiber \ {f}, fibers[g].pc \in Holding PROVE FALSE
    OBVIOUS
  <2>1. CASE fibers[f].pc \in Holding
    BY <2>1 DEF OnePermit
  <2>2. CASE PermitFree(fibers[f].boot)
    <3>1. fibers[g].boot = boot
      BY DEF OnePermit, Holding
    <3> QED
      BY <1>2, <2>2, <3>1 DEF PermitFree
  <2> QED
    BY <2>1, <2>2
<1>4. \A g \in Fiber : fibers'[g].pc = "reconcile-commit" => fibers'[g].op = active'
  BY <1>1, <1>3 DEF Holding, PC
<1> QED
  BY <1>1, <1>2, <1>3, <1>4 DEF OnePermit

\* It ends.
LEMMA HolderStops ==
    ASSUME TypeInv, OnePermit, NEW f \in Fiber, fibers[f].pc # "idle", boot' = boot,
           fibers[f].pc \in Holding \/ PermitFree(fibers[f].boot), Stop(f)
    PROVE  OnePermit'
<1>1. Idle.pc = "idle" /\ fibers' = [fibers EXCEPT ![f] = Idle]
  BY DEF Idle, Stop
<1> QED
  BY <1>1, HolderMoves

\* It goes on to its next transaction.
LEMMA HolderGoesTo ==
    ASSUME TypeInv, OnePermit, NEW f \in Fiber, fibers[f].pc \in Holding, boot' = boot,
           NEW pc \in PC \ {"reconcile-commit"}, Goto(f, pc)
    PROVE  OnePermit'
<1> DEFINE r == [fibers[f] EXCEPT !.pc = pc, !.since = now]
<1>1. r.boot = fibers[f].boot /\ r.pc # "reconcile-commit" /\ fibers' = [fibers EXCEPT ![f] = r]
  BY WorkingType DEF Goto, FiberRecord
<1> QED
  BY <1>1, HolderMoves DEF Holding

\* Its stream fails.
LEMMA HolderFails ==
    ASSUME TypeInv, OnePermit, NEW f \in Fiber, fibers[f].pc \in Holding, boot' = boot,
           NEW error, Fail(f, error)
    PROVE  OnePermit'
<1> DEFINE r == [fibers[f] EXCEPT !.pc = "catch", !.error = error, !.since = now]
<1>1. r.boot = fibers[f].boot /\ r.pc # "reconcile-commit" /\ fibers' = [fibers EXCEPT ![f] = r]
  BY WorkingType DEF Fail, FiberRecord
<1> QED
  BY <1>1, HolderMoves DEF Holding

\* Any call ends, and the active operation stays.
LEMMA CallStops ==
    ASSUME TypeInv, OnePermit, NEW f \in Fiber, Stop(f), boot' = boot, active' = active
    PROVE  OnePermit'
<1>1. Idle.pc = "idle" /\ "idle" \notin Holding
  BY DEF Idle, Holding
<1>2. \A g \in Fiber : fibers'[g] = IF g = f THEN Idle ELSE fibers[g]
  BY DEF Stop, TypeInv, TypeOK
<1> QED
  BY <1>1, <1>2 DEF OnePermit

\* Calls start in the current isolate.
LEMMA CallsStart ==
    ASSUME TypeInv, OnePermit, boot' = boot, active' = active,
           NEW kind \in {"run", "recover"}, NEW o,
           \A g \in Fiber : fibers'[g] \in {fibers[g], Spawned(kind, boot, o)}
    PROVE  OnePermit'
<1>1. /\ Spawned(kind, boot, o).boot = boot
      /\ Spawned(kind, boot, o).pc \in {"claim", "reconcile"}
  BY DEF Spawned, Idle
<1> QED
  BY <1>1 DEF OnePermit, Holding

-----------------------------------------------------------------------------
(* The transitions *)

\* The store is empty and nobody calls.
LEMMA InitStore == Init => Agrees /\ OnePermit
<1> SUFFICES ASSUME Init PROVE Agrees /\ OnePermit
  OBVIOUS
<1>1. OnePermit
  BY DEF Init, OnePermit, Idle, Holding
<1>2. ASSUME NEW o \in OpId PROVE Sound(o)
  <2>1. operations[o] = AbsentOperation /\ active # o /\ Waiting = {}
    BY BoundsAssumption DEF Init, Waiting, OpId, None
  <2>2. 0 <= MaxRecoveryAttempts
    BY LimitsAssumption
  <2> QED
    BY <2>1, <2>2 DEF Sound, Covered, AbsentOperation, Busy, Executing, Terminal
<1>3. FIFO
  BY DEF Init, FIFO
<1>4. IncidentIsActive
  BY DEF Init, IncidentIsActive, Open, NoIncident
<1> QED
  BY <1>1, <1>2, <1>3, <1>4 DEF Agrees

\* A submission adds one operation at the tail of the queue.
LEMMA AdmitStore ==
    ASSUME StoreInv, TypeInv', NEW s \in Submission, NEW spawn \in AtMostOne, Admit(s, spawn)
    PROVE  Agrees' /\ OnePermit' /\ TurnStep
<1> USE DEF StoreInv
<1> DEFINE o == admitted + 1
           p == [AbsentOperation EXCEPT !.submission = s, !.status = "queued", !.effects = 2]
<1>1. o \in OpId /\ operations' = [operations EXCEPT ![o] = p]
  BY DEF Admit
<1>2. /\ p.status = "queued" /\ p.owner = None /\ p.lease = Never
      /\ p.stream = "open" /\ p.checkpoint = "admitted" /\ p.events = 0
      /\ p.attempt = 0
  BY DEF AbsentOperation
<1>3. operations'[o] = p /\ OthersKept(o)
  BY <1>1, RecordSet
<1>4. Agrees' /\ TurnStep
  <2>1. /\ admitted' = o /\ queue' = Append(queue, o)
        /\ UNCHANGED <<active, recovery, alarm>>
    BY DEF Admit
  <2> HIDE DEF p, o
  <2> QED
    BY <1>1, <1>2, <1>3, <2>1, Joins DEF o, Terminal
<1>5. OnePermit'
  <2>1. \A g \in Fiber : fibers'[g] \in {fibers[g], Spawned("run", boot, o)}
    BY DEF Admit
  <2> QED
    BY <2>1, CallsStart DEF Admit
<1> QED
  BY <1>4, <1>5

\* claim takes the head of the queue, or the active operation again.
LEMMA ClaimStore ==
    ASSUME StoreInv, TypeInv', NEW f \in Fiber, Claim(f)
    PROVE  Agrees' /\ OnePermit' /\ TurnStep
<1> USE DEF StoreInv
<1> DEFINE o == fibers[f].op
<1>1. o \in OpId /\ fibers[f] \in FiberRecord
  BY WorkingType DEF Claim, Working
<1>2. fibers[f].boot = boot /\ boot # None
  BY BoundsAssumption DEF OnePermit, Claim, TypeInv, TypeOK, None
<1>3. CASE ~Claimable(o)
  BY <1>3, Untouched, HolderStops DEF Claim
<1>4. CASE Claimable(o)
  <2>1. OnePermit'
    <3> DEFINE r == [fibers[f] EXCEPT !.pc = "snapshot", !.generation = generation + 1,
                         !.attempt = operations[o].attempt, !.since = now]
    <3>1. r.boot = fibers[f].boot /\ r.pc # "reconcile-commit" /\ fibers' = [fibers EXCEPT ![f] = r]
      BY <1>1, <1>4 DEF Claim, FiberRecord
    <3> HIDE DEF r
    <3> QED
      BY <3>1, HolderMoves DEF Claim
  <2>2. /\ OthersKept(o)
        /\ operations'[o].status = "running" /\ operations'[o].owner = boot
        /\ operations'[o].lease = now + LeaseDuration
        /\ operations'[o].stream = operations[o].stream
        /\ operations'[o].events = operations[o].events
        /\ operations'[o].attempt = operations[o].attempt
        /\ operations'[o].partial = operations[o].partial
        /\ active' = o /\ UNCHANGED <<admitted, recovery, alarm>>
    <3> DEFINE p == [operations[o] EXCEPT
                         !.status = "running", !.checkpoint = "preparing",
                         !.generation = generation + 1, !.owner = fibers[f].boot,
                         !.lease = now + LeaseDuration]
    <3>1. operations' = [operations EXCEPT ![o] = p] /\ operations[o] \in Operation
      BY <1>1, <1>4, StoreTypes DEF Claim
    <3>2. /\ p.status = "running" /\ p.owner = fibers[f].boot /\ p.lease = now + LeaseDuration
          /\ p.stream = operations[o].stream /\ p.events = operations[o].events
          /\ p.attempt = operations[o].attempt /\ p.partial = operations[o].partial
      BY <3>1 DEF Operation
    <3>3. active' = o /\ UNCHANGED <<admitted, recovery, alarm>>
      BY <1>4 DEF Claim
    <3> HIDE DEF p
    <3> QED
      BY <1>1, <1>2, <3>1, <3>2, <3>3, RecordSet
  <2>3. operations'[o].owner # None /\ operations'[o].lease # Never
        /\ operations'[o].status \in Executing
    BY <1>2, <2>2, StoreTypes DEF Executing
  <2>4. queue' = Dequeue(queue, o)
    BY <1>4 DEF Claim
  <2>5. CASE active = None
    <3>1. queue # << >> /\ Head(queue) = o /\ queue' = Tail(queue)
      BY <1>4, <2>4, <2>5 DEF Claimable, Dequeue
    <3>2. Agrees' /\ TurnStep
      BY <1>1, <2>2, <2>3, <2>5, <3>1, HeadStarts DEF PartialStays
    <3> QED
      BY <2>1, <3>2
  <2>6. CASE active = o
    <3>1. operations[o].status \in Busy /\ o \notin Waiting /\ operations[o].stream \notin Terminal
      BY <1>1, <2>6 DEF Agrees, Sound, Busy, Executing, Terminal
    <3>2. queue' = queue
      <4>1. queue # << >> => Head(queue) \in Waiting
        BY StoreTypes, HeadTailProperties, LenProperties, EmptySeq DEF Waiting
      <4> QED
        BY <2>4, <3>1, <4>1 DEF Dequeue
    <3>3. Open(recovery)' => recovery'.operation = o
      BY <2>2, <2>6 DEF Agrees, IncidentIsActive, Open
    <3>4. operations'[o].status \in Busy /\ operations'[o].status # "interrupted"
      BY <2>2 DEF Busy, Executing
    <3>5. PICK i \in OpId : i = o
      BY <1>1
    <3>6. Covered(i)' /\ operations'[i].attempt <= MaxRecoveryAttempts
      BY <2>2, <2>6, <3>5 DEF Agrees, Sound, Covered, Open
    <3>7. Agrees' /\ TurnStep
      BY <2>2, <2>3, <2>6, <3>1, <3>2, <3>3, <3>4, <3>5, <3>6, ActiveGoesOn DEF PartialStays
    <3> QED
      BY <2>1, <3>7
  <2> QED
    BY <1>4, <2>5, <2>6 DEF Claimable
<1> QED
  BY <1>3, <1>4

\* The incident keeps what the invariant says of it.
IncidentGoesOn ==
    /\ recovery'.operation = recovery.operation
    /\ recovery'.status = recovery.status
    /\ recovery'.attempt = recovery.attempt

\* A call that passed the fence writes its own, active operation.
LEMMA FencedWrite ==
    ASSUME StoreInv, TypeInv', NEW f \in Fiber, NEW t, fibers[f].op \in OpId,
           ownsUnexpiredLease(fibers[f], t),
           NEW p, operations' = [operations EXCEPT ![fibers[f].op] = p],
           UNCHANGED <<queue, active, admitted>>, IncidentGoesOn,
           p.status \in Executing, p.owner # None, p.lease # Never, p.stream \notin Terminal,
           p.events \in {operations[fibers[f].op].events, operations[fibers[f].op].events + 1},
           p.attempt = operations[fibers[f].op].attempt,
           operations[fibers[f].op].partial # "none" => p.partial # "none"
    PROVE  Agrees' /\ TurnStep
<1>1. PICK o \in OpId : o = fibers[f].op
  OBVIOUS
<1>2. active = o
  BY <1>1, FencePassed DEF StoreInv
<1>3. operations'[o] = p /\ OthersKept(o)
  BY <1>1, RecordSet DEF StoreInv
<1>4. p.status \in Busy /\ p.status # "interrupted"
  BY DEF Busy, Executing
<1>5. Covered(o)' /\ p.attempt <= MaxRecoveryAttempts
  BY <1>1, <1>2, <1>3 DEF StoreInv, Agrees, Sound, IncidentGoesOn, Covered, Open
<1>6. Open(recovery)' => recovery'.operation = o
  BY <1>2 DEF StoreInv, Agrees, IncidentIsActive, IncidentGoesOn, Open
<1> QED
  BY <1>1, <1>2, <1>3, <1>4, <1>5, <1>6, ActiveGoesOn DEF StoreInv, PartialStays

\* The snapshot is a fenced write to the active operation.
LEMMA PersistRequestSnapshotStore ==
    ASSUME StoreInv, TypeInv', NEW f \in Fiber, PersistRequestSnapshot(f)
    PROVE  Agrees' /\ OnePermit' /\ TurnStep
<1> USE DEF StoreInv
<1> DEFINE o == fibers[f].op
           p == [operations[o] EXCEPT !.checkpoint = "preparing", !.effects = @ + 1]
<1>1. /\ o \in OpId /\ operations[o] \in Operation
      /\ fibers[f].pc \in Holding /\ fibers[f].pc # "idle" /\ boot' = boot
      /\ UNCHANGED <<queue, active, recovery, alarm, admitted>>
  BY WorkingType, StoreTypes DEF PersistRequestSnapshot, Working, Claimed, Holding, PC
<1>2. /\ p.status = operations[o].status /\ p.owner = operations[o].owner
      /\ p.lease = operations[o].lease /\ p.stream = operations[o].stream
      /\ p.events = operations[o].events /\ p.attempt = operations[o].attempt
      /\ p.partial = operations[o].partial
  BY <1>1 DEF Operation
<1>3. IncidentGoesOn
  BY <1>1 DEF IncidentGoesOn
<1>4. PICK t \in fibers[f].since..now :
          IF ownsUnexpiredLease(fibers[f], t) /\ LedgerRoom(operations[o], 1)
          THEN /\ operations' = [operations EXCEPT ![o] = p]
               /\ Goto(f, IF fibers[f].mode = "continue" THEN "partial-begin" ELSE "mark")
          ELSE Stop(f) /\ UNCHANGED operations
  BY <1>1, StoreTypes DEF PersistRequestSnapshot
<1>5. CASE ownsUnexpiredLease(fibers[f], t) /\ LedgerRoom(operations[o], 1)
  <2>1. /\ operations[o].status \in Executing /\ operations[o].owner # None
        /\ operations[o].lease # Never /\ operations[o].stream \notin Terminal
    BY <1>1, <1>5, FencePassed
  <2>2. Goto(f, "partial-begin") \/ Goto(f, "mark")
    BY <1>4, <1>5
  <2>3. OnePermit'
    BY <1>1, <2>2, HolderGoesTo DEF PC
  <2>4. operations' = [operations EXCEPT ![o] = p]
    BY <1>4, <1>5
  <2> HIDE DEF p
  <2> QED
    BY <1>1, <1>2, <1>3, <1>5, <2>1, <2>3, <2>4, FencedWrite
<1>6. CASE ~(ownsUnexpiredLease(fibers[f], t) /\ LedgerRoom(operations[o], 1))
  BY <1>1, <1>4, <1>6, HolderStops, Untouched
<1> QED
  BY <1>5, <1>6

\* So is the mark that it streams.
LEMMA MarkStreamingStore ==
    ASSUME StoreInv, TypeInv', NEW f \in Fiber, MarkStreaming(f)
    PROVE  Agrees' /\ OnePermit' /\ TurnStep
<1> USE DEF StoreInv
<1> DEFINE o == fibers[f].op
           p == [operations[o] EXCEPT
                    !.status = "running", !.checkpoint = "streaming",
                    !.lease = now + LeaseDuration, !.effects = @ + 1]
<1>1. /\ o \in OpId /\ operations[o] \in Operation /\ fibers[f] \in FiberRecord
      /\ fibers[f].pc \in Holding /\ fibers[f].pc # "idle" /\ boot' = boot
      /\ UNCHANGED <<queue, active, recovery, alarm, admitted>>
  BY WorkingType, StoreTypes DEF MarkStreaming, Working, Claimed, Holding, PC
<1>2. /\ p.status = "running" /\ p.owner = operations[o].owner
      /\ p.lease = now + LeaseDuration /\ p.stream = operations[o].stream
      /\ p.events = operations[o].events /\ p.attempt = operations[o].attempt
      /\ p.partial = operations[o].partial
  BY <1>1 DEF Operation
<1>3. IncidentGoesOn
  BY <1>1 DEF IncidentGoesOn
<1>4. CASE ownsUnexpiredLease(fibers[f], now) /\ LedgerRoom(operations[o], 1)
  <2>1. operations[o].owner # None /\ operations[o].stream \notin Terminal
    BY <1>1, <1>4, FencePassed
  <2>2. OnePermit'
    <3> DEFINE r == [fibers[f] EXCEPT !.pc = "stream", !.since = now, !.parts = << >>,
                         !.step = IF fibers[f].mode = "continue" THEN "body" ELSE "begin",
                         !.base = IF fibers[f].mode = "continue"
                                  THEN Len(transcript[o].text) ELSE 0]
    <3>1. r.boot = fibers[f].boot /\ r.pc # "reconcile-commit"
      BY <1>1 DEF FiberRecord
    <3>2. fibers' = [fibers EXCEPT ![f] = r]
      BY <1>4 DEF MarkStreaming
    <3> HIDE DEF r
    <3> QED
      BY <1>1, <3>1, <3>2, HolderMoves
  <2>3. operations' = [operations EXCEPT ![o] = p]
    BY <1>1, <1>4, StoreTypes DEF MarkStreaming
  <2>4. p.status \in Executing /\ p.lease # Never
    BY <1>2, StoreTypes DEF Executing
  <2> HIDE DEF p
  <2> QED
    BY <1>1, <1>2, <1>3, <1>4, <2>1, <2>2, <2>3, <2>4, FencedWrite
<1>5. CASE ~(ownsUnexpiredLease(fibers[f], now) /\ LedgerRoom(operations[o], 1))
  <2>1. Stop(f) /\ operations' = operations
    BY <1>5 DEF MarkStreaming
  <2> QED
    BY <1>1, <2>1, HolderStops, Untouched
<1> QED
  BY <1>4, <1>5

\* append: the log of the active operation grows by one event.
LEMMA AppendEventStore ==
    ASSUME StoreInv, TypeInv', NEW f \in Fiber, fibers[f].pc = "stream", NEW tool, NEW text,
           NEW r, r.boot = fibers[f].boot, r.pc = "stream",
           AppendEvent(f, text, tool, r), EventUnchanged
    PROVE  Agrees' /\ OnePermit' /\ TurnStep
<1> USE DEF StoreInv
<1> DEFINE o == fibers[f].op
           events == operations[o].events + 1
           answer == operations[o].text \o text
           called == operations[o].tool \/ tool
           work == IF operations[o].attempt > 0 THEN operations[o].work + 1 ELSE operations[o].work
           p == [operations[o] EXCEPT
                    !.status = "running", !.checkpoint = "streaming", !.work = work,
                    !.lease = now + LeaseDuration, !.stream = "open", !.expires = Never,
                    !.events = events, !.text = answer, !.tool = called]
<1>1. /\ o \in OpId /\ operations[o] \in Operation /\ fibers[f] \in FiberRecord
      /\ fibers[f].pc \in Holding /\ fibers[f].pc # "idle" /\ boot' = boot
      /\ UNCHANGED <<queue, active, alarm, admitted>>
  BY WorkingType, StoreTypes DEF EventUnchanged, Working, Claimed, Holding, PC
<1>2. /\ p.status = "running" /\ p.owner = operations[o].owner
      /\ p.lease = now + LeaseDuration /\ p.stream = "open"
      /\ p.events = operations[o].events + 1 /\ p.attempt = operations[o].attempt
      /\ p.partial = operations[o].partial
  <2> HIDE DEF work, answer, called
  <2> QED
    BY <1>1 DEF Operation
<1>3. CASE ownsUnexpiredLease(fibers[f], now) /\ ~Capped(operations[o])
  <2>1. operations[o].owner # None
    BY <1>1, <1>3, FencePassed
  <2>2. fibers' = [fibers EXCEPT ![f] = r]
    BY <1>3 DEF AppendEvent
  <2>3. OnePermit'
    BY <1>1, <2>2, HolderMoves
  <2>4. operations' = [operations EXCEPT ![o] = p]
    <3>1. o \in DOMAIN operations
      BY <1>1, StoreTypes
    <3> QED
      BY <1>3, <3>1, ZenonT(150) DEF AppendEvent
  <2>5. IncidentGoesOn
    <3>1. CASE recovery.operation = None
      BY <1>3, <3>1 DEF AppendEvent, IncidentGoesOn
    <3>2. CASE recovery.operation # None
      <4>1. recovery' = [recovery EXCEPT !.lastProgress = now, !.work = work]
        BY <1>3, <3>2 DEF AppendEvent
      <4> HIDE DEF work
      <4> QED
        BY <4>1, StoreTypes DEF Incident, IncidentGoesOn
    <3> QED
      BY <3>1, <3>2
  <2>6. p.status \in Executing /\ p.lease # Never /\ p.stream \notin Terminal
    BY <1>2, StoreTypes DEF Executing, Terminal
  <2> HIDE DEF p
  <2> QED
    BY <1>1, <1>2, <1>3, <2>1, <2>3, <2>4, <2>5, <2>6, FencedWrite
<1>4. CASE ~(ownsUnexpiredLease(fibers[f], now) /\ ~Capped(operations[o]))
  <2>1. Fail(f, "fatal") /\ UNCHANGED <<operations, recovery>>
    BY <1>4 DEF AppendEvent
  <2> QED
    BY <1>1, <2>1, HolderFails, Untouched
<1> QED
  BY <1>3, <1>4

\* The events of the executor.
LEMMA EmitStore ==
    ASSUME StoreInv, TypeInv', NEW f \in Fiber,
           EmitStarted(f) \/ EmitText(f) \/ EmitTool(f) \/ EmitDone(f)
    PROVE  Agrees' /\ OnePermit' /\ TurnStep
<1>1. fibers[f].pc = "stream" /\ fibers[f] \in FiberRecord
  BY WorkingType DEF StoreInv, EmitStarted, EmitText, EmitTool, EmitDone, Streaming
<1>2. CASE EmitStarted(f)
  <2> DEFINE r == [fibers[f] EXCEPT !.step = "body", !.since = now]
  <2>1. r.boot = fibers[f].boot /\ r.pc = "stream" /\ AppendEvent(f, << >>, FALSE, r)
    BY <1>1, <1>2 DEF FiberRecord, EmitStarted
  <2> QED
    BY <1>1, <1>2, <2>1, AppendEventStore DEF EmitStarted
<1>3. CASE EmitText(f)
  <2> DEFINE part == fibers[f].base + Len(fibers[f].parts) + 1
             r == [fibers[f] EXCEPT !.parts = Append(@, part), !.since = now]
  <2>1. r.boot = fibers[f].boot /\ r.pc = "stream"
    BY <1>1 DEF FiberRecord
  <2>2. AppendEvent(f, <<part>>, FALSE, r)
    BY <1>3 DEF EmitText
  <2> QED
    BY <1>1, <1>3, <2>1, <2>2, AppendEventStore DEF EmitText
<1>4. CASE EmitTool(f)
  <2> DEFINE r == [fibers[f] EXCEPT !.since = now]
  <2>1. r.boot = fibers[f].boot /\ r.pc = "stream" /\ AppendEvent(f, << >>, TRUE, r)
    BY <1>1, <1>4 DEF FiberRecord, EmitTool
  <2> QED
    BY <1>1, <1>4, <2>1, AppendEventStore DEF EmitTool
<1>5. CASE EmitDone(f)
  <2> DEFINE r == [fibers[f] EXCEPT !.step = "ended", !.since = now]
  <2>1. r.boot = fibers[f].boot /\ r.pc = "stream" /\ AppendEvent(f, << >>, FALSE, r)
    BY <1>1, <1>5 DEF FiberRecord, EmitDone
  <2> QED
    BY <1>1, <1>5, <2>1, AppendEventStore DEF EmitDone
<1> QED
  BY <1>2, <1>3, <1>4, <1>5

\* Steps that change only the call: saves, failures, ends of calls, and new calls.
LEMMA CallsOnlyStore ==
    ASSUME StoreInv, NEW f \in Fiber,
           \/ SaveToolRound(f) \/ SaveAnswer(f) \/ WritePartial(f)
           \/ PermitTimeout(f) \/ Stall(f) \/ Die(f) \/ StorageFails(f)
           \/ \E error \in {"retryable", "oom", "fatal"} : ExecutorFails(f, error)
           \/ WakeIdle(f) \/ StartRecover(f)
    PROVE  Agrees' /\ OnePermit' /\ TurnStep
<1> USE DEF StoreInv
<1>1. UNCHANGED <<operations, queue, active, recovery, alarm, admitted, boot>>
  BY DEF SaveToolRound, SaveAnswer, WritePartial, PermitTimeout, Stall, Die, StorageFails,
     ExecutorFails, WakeIdle, StartRecover, stored
<1>2. Agrees' /\ TurnStep
  BY <1>1, Untouched
<1>3. CASE SaveToolRound(f)
  <2> DEFINE r == [fibers[f] EXCEPT !.base = @ + Len(fibers[f].parts), !.parts = << >>]
  <2>1. r.boot = fibers[f].boot /\ r.pc = fibers[f].pc /\ fibers[f].pc = "stream"
    BY <1>3, WorkingType DEF FiberRecord, SaveToolRound, SaveResponse, Streaming
  <2>2. fibers' = [fibers EXCEPT ![f] = r]
    BY <1>3 DEF SaveToolRound
  <2> HIDE DEF r
  <2> QED
    BY <1>1, <1>2, <2>1, <2>2, HolderMoves DEF Holding, PC
<1>4. CASE SaveAnswer(f)
  <2> DEFINE r == [fibers[f] EXCEPT !.step = "saved"]
  <2>1. r.boot = fibers[f].boot /\ r.pc = fibers[f].pc /\ fibers[f].pc = "stream"
    BY <1>4, WorkingType DEF FiberRecord, SaveAnswer, SaveResponse, Streaming
  <2>2. fibers' = [fibers EXCEPT ![f] = r]
    BY <1>4 DEF SaveAnswer
  <2> HIDE DEF r
  <2> QED
    BY <1>1, <1>2, <2>1, <2>2, HolderMoves DEF Holding, PC
<1>5. CASE WritePartial(f)
  BY <1>1, <1>2, <1>5, HolderGoesTo DEF WritePartial, Holding, PC
<1>6. CASE PermitTimeout(f) \/ Die(f)
  BY <1>1, <1>2, <1>6, CallStops DEF PermitTimeout, Die
<1>7. CASE \/ Stall(f) \/ StorageFails(f)
           \/ \E error \in {"retryable", "oom", "fatal"} : ExecutorFails(f, error)
  BY <1>1, <1>2, <1>7, HolderFails
     DEF Stall, StorageFails, ExecutorFails, Streaming, Holding, PC
<1>8. CASE WakeIdle(f)
  <2>1. \A g \in Fiber : fibers'[g] \in {fibers[g], Spawned("run", boot, Head(queue))}
    BY <1>8 DEF WakeIdle, TypeInv, TypeOK
  <2> QED
    BY <1>1, <1>2, <2>1, CallsStart
<1>9. CASE StartRecover(f)
  <2>1. \A g \in Fiber : fibers'[g] \in {fibers[g], Spawned("recover", boot, None)}
    BY <1>9 DEF StartRecover, TypeInv, TypeOK
  <2> QED
    BY <1>1, <1>2, <2>1, CallsStart
<1> QED
  BY <1>3, <1>4, <1>5, <1>6, <1>7, <1>8, <1>9

\* The active operation is written as ended.
LEMMA EndStore ==
    ASSUME StoreInv, TypeInv', NEW o \in OpId, active = o, active' = None,
           NEW p, operations' = [operations EXCEPT ![o] = p],
           UNCHANGED <<queue, admitted>>, ~Open(recovery)',
           p.status \in Terminal, p.owner = None, p.lease = Never,
           p.stream = p.status, p.checkpoint = "terminal", p.expires # Never,
           p.events = operations[o].events, p.attempt = operations[o].attempt,
           p.partial = operations[o].partial
    PROVE  Agrees' /\ TurnStep
<1>1. operations'[o] = p /\ OthersKept(o)
  BY RecordSet DEF StoreInv
<1> QED
  BY <1>1, ActiveEnds DEF StoreInv, PartialStays

\* Without an incident none is open.
LEMMA NoIncidentClosed == recovery' = NoIncident => ~Open(recovery)'
  BY DEF NoIncident, Open

\* A settlement that is not refused.
LEMMA SettleStore ==
    ASSUME StoreInv, TypeInv', NEW f \in Fiber, fibers[f].pc \in {"stream", "catch"},
           NEW outcome \in Terminal, Settle(f, outcome, FALSE),
           UNCHANGED <<queue, admitted, boot>>
    PROVE  Agrees' /\ OnePermit' /\ TurnStep
<1> USE DEF StoreInv
<1> DEFINE o == fibers[f].op
           effects == operations[o].effects + 1
           expires == now + CompletedStreamRetention
           p == [operations[o] EXCEPT
                    !.status = outcome, !.checkpoint = "terminal",
                    !.owner = None, !.lease = Never, !.effects = effects,
                    !.stream = outcome, !.expires = expires]
<1>1. o \in OpId /\ operations[o] \in Operation /\ fibers[f].pc \in Holding
  BY WorkingType, StoreTypes DEF Working, Claimed, Holding, PC
<1>2. operations' = [operations EXCEPT ![o] = p]
  BY <1>1, StoreTypes DEF Settle
<1>3. ownsUnexpiredLease(fibers[f], now) /\ active' = None /\ recovery' = NoIncident /\ Stop(f)
  BY DEF Settle
<1>4. active = o
  BY <1>1, <1>3, FencePassed
<1>5. /\ p.status = outcome /\ p.owner = None /\ p.lease = Never /\ p.stream = outcome
      /\ p.checkpoint = "terminal" /\ p.expires = expires /\ p.events = operations[o].events
      /\ p.attempt = operations[o].attempt /\ p.partial = operations[o].partial
  <2> HIDE DEF effects, expires
  <2> QED
    BY <1>1 DEF Operation
<1>6. expires # Never
  BY LaterInstant, LimitsAssumption
<1>7. Agrees' /\ TurnStep
  <2> HIDE DEF p, o, expires
  <2> QED
    BY <1>1, <1>2, <1>3, <1>4, <1>5, <1>6, EndStore, NoIncidentClosed
<1>8. OnePermit'
  BY <1>1, <1>3, HolderStops DEF Holding
<1> QED
  BY <1>7, <1>8

\* The end of the executor's stream.
LEMMA SettleCompletedStore ==
    ASSUME StoreInv, TypeInv', NEW f \in Fiber, SettleCompleted(f)
    PROVE  Agrees' /\ OnePermit' /\ TurnStep
<1>1. fibers[f].pc = "stream" /\ UNCHANGED <<queue, admitted, boot>>
  BY DEF SettleCompleted
<1>2. CASE Settle(f, "completed", FALSE)
  BY <1>1, <1>2, SettleStore DEF Terminal
<1>3. CASE ~Settle(f, "completed", FALSE)
  <2>1. /\ Stop(f) \/ Fail(f, "fatal")
        /\ UNCHANGED <<operations, active, recovery, alarm>>
    BY <1>3 DEF SettleCompleted, Settle
  <2> QED
    BY <1>1, <2>1, Untouched, HolderStops, HolderFails DEF StoreInv, Holding, PC
<1> QED
  BY <1>2, <1>3

\* An instant at or after now is not null, and neither is an alarm set for it.
LEMMA AlarmArmed ==
    ASSUME NEW o, NEW t, alarm' = AlarmFor(o, t), t # Never,
           operations'[o].generation = operations[o].generation,
           recovery'.operation = o, recovery'.status = "scheduled", recovery'.scheduledAt = t
    PROVE  Scheduled(o)'
  BY DEF AlarmFor, Scheduled, AlarmMatches

\* A failed attempt is scheduled with an incident and an alarm intent that match.
LEMMA ScheduleRecoveryStore ==
    ASSUME StoreInv, TypeInv', NEW f \in Fiber, fibers[f].pc = "catch", ScheduleRecovery(f),
           UNCHANGED <<queue, admitted, boot>>
    PROVE  Agrees' /\ OnePermit' /\ TurnStep
<1> USE DEF StoreInv
<1> DEFINE o == fibers[f].op
           due == now + AlarmDebounce
           checkpoint == IF fibers[f].mode = "continue" THEN "partial-persisted"
                         ELSE operations[o].checkpoint
           p == [operations[o] EXCEPT
                    !.status = "interrupted", !.checkpoint = checkpoint,
                    !.owner = None, !.lease = Never, !.stream = "interrupted"]
<1>1. o \in OpId /\ operations[o] \in Operation /\ fibers[f].pc \in Holding
  BY WorkingType, StoreTypes DEF Working, Claimed, Holding, PC
<1>2. Stop(f)
  BY DEF ScheduleRecovery
<1>3. OnePermit'
  BY <1>1, <1>2, HolderStops DEF Holding
<1>4. CASE ~ownsUnexpiredLease(fibers[f], now)
  BY <1>3, <1>4, Untouched DEF ScheduleRecovery
<1>5. CASE ownsUnexpiredLease(fibers[f], now)
  <2>1. operations' = [operations EXCEPT ![o] = p]
    BY <1>1, <1>5, StoreTypes DEF ScheduleRecovery
  <2>2. /\ p.status = "interrupted" /\ p.owner = None /\ p.lease = Never
        /\ p.stream = "interrupted" /\ p.events = operations[o].events
        /\ p.generation = operations[o].generation
        /\ p.attempt = operations[o].attempt /\ p.partial = operations[o].partial
    <3> HIDE DEF checkpoint
    <3> QED
      BY <1>1 DEF Operation
  <2>3. /\ active' = o /\ alarm' = AlarmFor(o, due)
        /\ recovery'.operation = o /\ recovery'.status = "scheduled"
        /\ recovery'.scheduledAt = due
        /\ recovery'.attempt = IF recovery.operation = None THEN operations[o].attempt
                               ELSE recovery.attempt
    BY <1>5 DEF ScheduleRecovery
  <2>4. active = o /\ due # Never
    <3>1. active = o
      BY <1>1, <1>5, FencePassed
    <3>2. due # Never
      BY LaterInstant, LimitsAssumption
    <3> QED
      BY <3>1, <3>2
  <2> HIDE DEF p, o, due
  <2>5. PICK i \in OpId : i = o
    BY <1>1
  <2>6. operations'[i] = p /\ OthersKept(i)
    BY <2>1, <2>5, RecordSet
  <2>7. Scheduled(i)'
    <3>1. PICK t : t = due
      OBVIOUS
    <3>2. alarm' = AlarmFor(i, t) /\ t # Never
      BY <2>3, <2>4, <2>5, <3>1
    <3> QED
      BY <2>2, <2>3, <2>5, <2>6, <3>1, <3>2, AlarmArmed
  <2>8. Agrees' /\ TurnStep
    <3>1. /\ active = i /\ active' = i /\ recovery'.operation = i
          /\ p.events \in {operations[i].events, operations[i].events + 1}
          /\ UNCHANGED <<queue, admitted>>
      BY <2>2, <2>3, <2>4, <2>5
    <3>2. p.status \in Busy /\ p.status \notin Executing /\ p.stream \notin Terminal
      BY <2>2 DEF Busy, Executing, Terminal
    <3>3. Covered(i)' /\ p.attempt <= MaxRecoveryAttempts
      <4>1. /\ operations[i].attempt <= MaxRecoveryAttempts
            /\ operations[i].attempt > 0 => recovery.operation = i
                                            /\ recovery.attempt >= operations[i].attempt
        BY <3>1 DEF Agrees, Sound, Covered
      <4>2. Open(recovery)'
        BY <2>3, <2>5, StoreTypes DEF Open
      <4> QED
        BY <2>2, <2>3, <2>5, <2>6, <3>1, <4>1, <4>2, StoreTypes DEF Covered
    <3>4. PartialStays(i)
      BY <2>2, <2>5, <2>6 DEF PartialStays
    <3> QED
      BY <2>2, <2>6, <2>7, <3>1, <3>2, <3>3, <3>4, ActiveGoesOn
  <2> QED
    BY <1>3, <2>8
<1> QED
  BY <1>4, <1>5

\* executeClaimed's catch.
LEMMA CatchStore ==
    ASSUME StoreInv, TypeInv', NEW f \in Fiber, Catch(f)
    PROVE  Agrees' /\ OnePermit' /\ TurnStep
<1>1. fibers[f].pc = "catch" /\ UNCHANGED <<queue, admitted, boot>>
  BY DEF Catch
<1>2. CASE Recoverable(fibers[f])
  BY <1>1, <1>2, ScheduleRecoveryStore DEF Catch
<1>3. CASE ~Recoverable(fibers[f]) /\ Settle(f, "failed", FALSE)
  BY <1>1, <1>3, SettleStore DEF Terminal
<1>4. CASE ~Recoverable(fibers[f]) /\ ~Settle(f, "failed", FALSE)
  <2>1. Stop(f) /\ UNCHANGED <<operations, active, recovery, alarm>>
    BY <1>4 DEF Catch, Settle
  <2> QED
    BY <1>1, <2>1, Untouched, HolderStops DEF StoreInv, Holding, PC
<1> QED
  BY <1>2, <1>3, <1>4

\* wake interrupts the active operation: it is never terminal, so its branch for a
\* terminal operation is not taken.
LEMMA WakeInterruptsStore ==
    ASSUME StoreInv, TypeInv', NEW b \in LiveBoots, WakeInterrupts(b)
    PROVE  Agrees' /\ OnePermit' /\ TurnStep
<1> USE DEF StoreInv
<1> DEFINE o == active
           known == Open(recovery) /\ recovery.operation = o
           due == IF known /\ recovery.scheduledAt # Never
                  THEN recovery.scheduledAt ELSE now + AlarmDebounce
           p == [operations[o] EXCEPT !.status = "interrupted", !.owner = None,
                                      !.lease = Never, !.stream = "interrupted"]
<1>1. o \in OpId /\ operations[o] \in Operation /\ recovery \in Incident
  BY StoreTypes DEF WakeInterrupts
<1>2. operations[o].status \in Busy
  BY <1>1 DEF Agrees, Sound
<1>3. operations[o].status \notin Terminal /\ operations[o].stream \notin Terminal
  BY <1>1, <1>2 DEF Agrees, Sound, Busy, Executing, Terminal
<1>4. classifyRecovery(operations[o]) # "terminal-noop"
  BY <1>3 DEF classifyRecovery
<1>5. /\ operations' = Interrupted(o) /\ active' = o /\ alarm' = AlarmFor(o, due)
      /\ UNCHANGED <<queue, admitted, fibers, boot>>
  BY <1>4 DEF WakeInterrupts
<1>6. operations' = [operations EXCEPT ![o] = p]
  BY <1>1, <1>5, StoreTypes DEF Interrupted
<1>7. /\ p.status = "interrupted" /\ p.owner = None /\ p.lease = Never
      /\ p.stream = "interrupted" /\ p.events = operations[o].events
      /\ p.generation = operations[o].generation /\ p.attempt = operations[o].attempt
      /\ p.partial = operations[o].partial
  BY <1>1 DEF Operation
<1>8. /\ recovery'.operation = o /\ recovery'.status = "scheduled"
      /\ recovery'.scheduledAt = due
      /\ known => recovery'.attempt = recovery.attempt
  <2>1. CASE known
    <3>1. recovery' = [recovery EXCEPT !.status = "scheduled", !.scheduledAt = due]
      BY <1>4, <2>1 DEF WakeInterrupts
    <3> HIDE DEF due
    <3> QED
      BY <1>1, <2>1, <3>1 DEF Incident
  <2>2. CASE ~known
    BY <1>4, <2>2 DEF WakeInterrupts
  <2> QED
    BY <2>1, <2>2
<1>9. due # Never
  BY LaterInstant, LimitsAssumption
<1>10. operations'[o] = p /\ OthersKept(o)
  BY <1>1, <1>6, RecordSet
<1>11. OnePermit'
  BY <1>5 DEF OnePermit
<1> HIDE DEF p, due
<1>12. Scheduled(o)'
  <2>1. PICK i \in OpId : i = o
    BY <1>1
  <2>2. Scheduled(i)'
    BY <1>5, <1>7, <1>8, <1>9, <1>10, <2>1, AlarmArmed
  <2> QED
    BY <1>5, <2>1, <2>2
<1>13. Agrees' /\ TurnStep
  <2>1. PICK i \in OpId : i = o
    BY <1>1
  <2>2. Covered(i)' /\ p.attempt <= MaxRecoveryAttempts
    <3>1. /\ operations[i].attempt <= MaxRecoveryAttempts
          /\ operations[i].attempt > 0 => known /\ recovery.attempt >= operations[i].attempt
      BY <2>1 DEF Agrees, Sound, Covered
    <3>2. Open(recovery)'
      BY <1>8, <2>1, StoreTypes DEF Open
    <3> QED
      BY <1>7, <1>8, <1>10, <2>1, <3>1, <3>2 DEF Covered
  <2> QED
    BY <1>5, <1>7, <1>8, <1>10, <1>12, <2>1, <2>2, ActiveGoesOn
       DEF Busy, Executing, Terminal, PartialStays
<1> QED
  BY <1>11, <1>13

\* reconcileTranscriptTerminal finds proof for the active operation only: no other
\* record is at its streaming checkpoint.
LEMMA ReconcileReadStore ==
    ASSUME StoreInv, TypeInv', NEW f \in Fiber, ReconcileRead(f)
    PROVE  Agrees' /\ OnePermit' /\ TurnStep
<1> USE DEF StoreInv
<1> DEFINE proven == ProvenTerminal(recovery.operation)
           pc == IF proven THEN "reconcile-commit" ELSE "prepare"
           op == IF proven THEN recovery.operation ELSE None
           r == [fibers[f] EXCEPT !.pc = pc, !.op = op, !.since = now]
<1>1. UNCHANGED <<operations, queue, active, recovery, alarm, admitted, boot>>
  BY DEF ReconcileRead, stored
<1>2. proven => recovery.operation = active
  BY StoreTypes DEF ProvenTerminal, Incident, Agrees, Sound
<1>3. fibers' = [fibers EXCEPT ![f] = r] /\ fibers[f].pc # "idle" /\ PermitFree(fibers[f].boot)
  BY DEF ReconcileRead
<1>4. r.boot = fibers[f].boot /\ (r.pc = "reconcile-commit" => r.op = active')
  <2>1. r.boot = fibers[f].boot /\ r.pc = pc /\ r.op = op
    <3> HIDE DEF pc, op
    <3> QED
      BY WorkingType DEF FiberRecord
  <2> QED
    BY <1>1, <1>2, <2>1
<1> HIDE DEF r
<1>5. OnePermit'
  BY <1>1, <1>3, <1>4, HolderMoves
<1> QED
  BY <1>1, <1>5, Untouched

\* It completes that operation, which is still the active one.
LEMMA ReconcileCommitStore ==
    ASSUME StoreInv, TypeInv', NEW f \in Fiber, ReconcileCommit(f)
    PROVE  Agrees' /\ OnePermit' /\ TurnStep
<1> USE DEF StoreInv
<1> DEFINE o == fibers[f].op
           g == generation + 1
           effects == operations[o].effects + 1
           expires == fibers[f].since + CompletedStreamRetention
           p == [operations[o] EXCEPT
                    !.status = "completed", !.checkpoint = "terminal", !.generation = g,
                    !.owner = None, !.lease = Never, !.effects = effects,
                    !.stream = "completed", !.expires = expires]
           change == operations[o].status \notin {"absent", "completed"}
                     /\ LedgerRoom(operations[o], 1)
<1>1. /\ o \in OpId /\ operations[o] \in Operation /\ fibers[f] \in FiberRecord
      /\ fibers[f].pc \in Holding /\ fibers[f].pc # "idle"
      /\ UNCHANGED <<queue, admitted, boot>> /\ Stop(f)
  BY WorkingType, StoreTypes DEF ReconcileCommit, Working, Holding, PC
<1>2. OnePermit'
  BY <1>1, HolderStops
<1>3. CASE ~change
  BY <1>1, <1>2, <1>3, Untouched DEF ReconcileCommit
<1>4. CASE change
  <2>1. active = o
    BY DEF OnePermit, ReconcileCommit
  <2>2. operations' = [operations EXCEPT ![o] = p]
    BY <1>1, <1>4, StoreTypes DEF ReconcileCommit
  <2>3. active' = None /\ recovery' = NoIncident
    BY <1>4 DEF ReconcileCommit
  <2>4. /\ p.status = "completed" /\ p.owner = None /\ p.lease = Never
        /\ p.stream = "completed" /\ p.checkpoint = "terminal"
        /\ p.expires = expires /\ p.events = operations[o].events
        /\ p.attempt = operations[o].attempt /\ p.partial = operations[o].partial
    <3> HIDE DEF effects, expires, g
    <3> QED
      BY <1>1 DEF Operation
  <2>5. expires # Never
    <3>1. fibers[f].since \in Nat
      BY <1>1 DEF FiberRecord
    <3> QED
      BY <3>1, LimitsAssumption DEF Never
  <2> HIDE DEF p, o, expires
  <2> QED
    BY <1>1, <1>2, <2>1, <2>2, <2>3, <2>4, <2>5, EndStore, NoIncidentClosed DEF Terminal
<1> QED
  BY <1>3, <1>4

\* prepareRecovery fails the operation of the open incident,
LEMMA ExhaustStore ==
    ASSUME StoreInv, TypeInv', NEW f \in Fiber, NEW o \in OpId, active = o,
           recovery.operation = o, Exhaust(f, o), UNCHANGED <<queue, admitted>>
    PROVE  Agrees' /\ TurnStep
<1> USE DEF StoreInv
<1> DEFINE g == generation + 1
           effects == operations[o].effects + 1
           expires == now + CompletedStreamRetention
           p == [operations[o] EXCEPT
                    !.status = "failed", !.checkpoint = "terminal", !.generation = g,
                    !.owner = None, !.lease = Never, !.effects = effects,
                    !.stream = "failed", !.expires = expires]
<1>1. CASE ~LedgerRoom(operations[o], 1)
  BY <1>1, Untouched DEF Exhaust
<1>2. CASE LedgerRoom(operations[o], 1)
  <2>1. operations[o] \in Operation
    BY StoreTypes
  <2>2. operations' = [operations EXCEPT ![o] = p]
    <3>1. o \in DOMAIN operations
      BY StoreTypes
    <3> QED
      BY <1>2, <3>1, ZenonT(150) DEF Exhaust
  <2>3. active' = None /\ recovery' = [recovery EXCEPT !.status = "exhausted", !.scheduledAt = Never]
    BY <1>2 DEF Exhaust
  <2>4. ~Open(recovery)'
    BY <2>3, StoreTypes DEF Incident, Open
  <2>5. /\ p.status = "failed" /\ p.owner = None /\ p.lease = Never
        /\ p.stream = "failed" /\ p.checkpoint = "terminal"
        /\ p.expires = expires /\ p.events = operations[o].events
        /\ p.attempt = operations[o].attempt /\ p.partial = operations[o].partial
    <3> HIDE DEF effects, expires, g
    <3> QED
      BY <2>1 DEF Operation
  <2>6. expires # Never
    BY LaterInstant, LimitsAssumption
  <2> HIDE DEF p, expires
  <2> QED
    BY <2>2, <2>3, <2>4, <2>5, <2>6, EndStore DEF Terminal
<1> QED
  BY <1>1, <1>2

\* or starts its next attempt in this isolate,
LEMMA AttemptStore ==
    ASSUME StoreInv, TypeInv', NEW f \in Fiber, NEW o \in OpId, active = o,
           recovery.operation = o, Open(recovery), ~BudgetSpent(recovery),
           fibers[f].pc = "prepare", Attempt(f, o),
           UNCHANGED <<queue, admitted, boot>>
    PROVE  Agrees' /\ OnePermit' /\ TurnStep
<1> USE DEF StoreInv
<1> DEFINE g == generation + 1
           attempt == operations[o].attempt + 1
           continues == recovery.kind = "partial-continuation"
           mode == IF continues THEN "continue" ELSE "fresh"
           parts == IF continues THEN operations[o].text ELSE << >>
           p == [operations[o] EXCEPT
                    !.status = "recovering", !.generation = g, !.attempt = attempt,
                    !.owner = fibers[f].boot, !.lease = now + LeaseDuration, !.stream = "open"]
           r == [fibers[f] EXCEPT !.pc = "snapshot", !.op = o, !.generation = g,
                    !.attempt = attempt, !.since = now, !.mode = mode, !.parts = parts]
<1>1. /\ operations[o] \in Operation /\ fibers[f] \in FiberRecord
      /\ fibers[f].pc \in Holding /\ fibers[f].pc # "idle"
  BY WorkingType, StoreTypes DEF Holding, PC
<1>2. fibers[f].boot = boot /\ boot # None
  BY <1>1, BoundsAssumption DEF OnePermit, TypeInv, TypeOK, None
<1>3. OnePermit'
  <2>1. r.boot = fibers[f].boot /\ r.pc # "reconcile-commit"
    <3> HIDE DEF g, attempt, mode, parts
    <3> QED
      BY <1>1 DEF FiberRecord
  <2>2. Stop(f) \/ fibers' = [fibers EXCEPT ![f] = r]
    BY DEF Attempt
  <2> HIDE DEF r
  <2> QED
    BY <1>1, <2>1, <2>2, HolderMoves, HolderStops
<1>4. operations' = [operations EXCEPT ![o] = p]
  BY StoreTypes DEF Attempt
<1>5. /\ p.status = "recovering" /\ p.owner = fibers[f].boot
      /\ p.lease = now + LeaseDuration /\ p.stream = "open"
      /\ p.events = operations[o].events /\ p.attempt = attempt
      /\ p.partial = operations[o].partial
  <2> HIDE DEF g, attempt
  <2> QED
    BY <1>1 DEF Operation
<1>6. /\ active' = o /\ recovery'.operation = o /\ Open(recovery)'
      /\ recovery'.attempt = recovery.attempt + 1
  <2> DEFINE spent == recovery.attempt + 1
  <2>1. recovery' = [recovery EXCEPT !.status = "attempting", !.attempt = spent,
                                     !.scheduledAt = Never]
    BY DEF Attempt
  <2>2. recovery'.operation = o /\ recovery'.attempt = spent /\ recovery'.status = "attempting"
    <3> HIDE DEF spent
    <3> QED
      BY <2>1, StoreTypes DEF Incident
  <2> QED
    BY <2>2, StoreTypes DEF Attempt, Open
<1>7. operations'[o] = p /\ OthersKept(o)
  BY <1>4, RecordSet
<1>8. p.owner # None /\ p.lease # Never
  BY <1>2, <1>5, StoreTypes
<1> HIDE DEF p
<1>9. Covered(o)' /\ p.attempt <= MaxRecoveryAttempts
  <2>1. /\ operations[o].attempt \in Nat /\ recovery.attempt \in Nat
        /\ recovery.attempt < MaxRecoveryAttempts
    <3>1. operations[o].attempt \in Nat /\ recovery.attempt \in Nat
      BY <1>1, StoreTypes DEF Operation, Incident
    <3>2. ~(recovery.attempt >= MaxRecoveryAttempts)
      BY DEF BudgetSpent
    <3> QED
      BY <3>1, <3>2, LimitsAssumption
  <2>2. operations[o].attempt <= recovery.attempt
    BY <2>1 DEF Agrees, Sound, Covered
  <2> QED
    BY <1>5, <1>6, <1>7, <2>1, <2>2, LimitsAssumption DEF Covered
<1>10. Agrees' /\ TurnStep
  BY <1>5, <1>6, <1>7, <1>8, <1>9, ActiveGoesOn DEF Busy, Executing, Terminal, PartialStays
<1> QED
  BY <1>3, <1>10

\* or disarms an alarm that does not match, which is never that of an interrupted
\* operation, or changes nothing.
LEMMA PrepareRecoveryStore ==
    ASSUME StoreInv, TypeInv', NEW f \in Fiber, PrepareRecovery(f)
    PROVE  Agrees' /\ OnePermit' /\ TurnStep
<1> USE DEF StoreInv
<1>1. /\ fibers[f].pc = "prepare" /\ fibers[f].pc \in Holding
      /\ UNCHANGED <<queue, admitted, boot>>
  BY DEF PrepareRecovery, Holding, PC
<1>2. CASE NoRecovery(f)
  BY <1>1, <1>2, HolderStops, Untouched DEF NoRecovery
<1>3. CASE ~NoRecovery(f)
  <2>1. PICK o \in OpId : o = recovery.operation /\ active = o /\ Open(recovery)
    <3>1. Open(recovery) /\ recovery.operation = active
      BY <1>3 DEF PrepareRecovery, Agrees, IncidentIsActive
    <3> QED
      BY <3>1, StoreTypes DEF Open
  <2>2. CASE Exhaust(f, o)
    <3>1. OnePermit'
      BY <1>1, <2>2, HolderStops DEF Exhaust
    <3> QED
      BY <1>1, <2>1, <2>2, <3>1, ExhaustStore
  <2>3. CASE Attempt(f, o) /\ ~BudgetSpent(recovery)
    BY <1>1, <2>1, <2>3, AttemptStore
  <2>4. CASE DisarmMismatch(f) /\ ~AlarmMatches(o)
    <3>1. OnePermit'
      BY <1>1, <2>4, HolderStops DEF DisarmMismatch
    <3>2. Sound(o) /\ operations[o].status \in Busy /\ operations[o].status # "interrupted"
      BY <2>1, <2>4 DEF Agrees, Sound, Scheduled
    <3>3. operations[o].stream \notin Terminal
      BY <3>2 DEF Sound, Busy, Executing, Terminal
    <3>4. /\ UNCHANGED <<operations, active>>
          /\ recovery'.operation = o /\ recovery'.status = "scheduled"
          /\ recovery'.attempt = recovery.attempt
      BY <2>1, <2>4, StoreTypes DEF DisarmMismatch, Incident
    <3>5. Covered(o)'
      BY <2>1, <3>2, <3>4, StoreTypes DEF Sound, Covered, Open
    <3>6. Agrees' /\ TurnStep
      BY <1>1, <2>1, <3>2, <3>3, <3>4, <3>5, ActiveGoesOn
         DEF OthersKept, Sound, PartialStays
    <3> QED
      BY <3>1, <3>6
  <2> QED
    BY <1>3, <2>1, <2>2, <2>3, <2>4 DEF PrepareRecovery
<1> QED
  BY <1>2, <1>3

\* transcript-partial is begun and completed in the ledger of the active operation.
LEMMA PartialStore ==
    ASSUME StoreInv, TypeInv', NEW f \in Fiber, fibers[f].pc \in Claimed,
           ownsUnexpiredLease(fibers[f], now), NEW partial, partial # "none", NEW effects,
           operations' = [operations EXCEPT ![fibers[f].op] =
               [@ EXCEPT !.partial = partial, !.effects = effects]],
           UNCHANGED <<queue, active, recovery, admitted>>
    PROVE  Agrees' /\ TurnStep
<1> USE DEF StoreInv
<1> DEFINE o == fibers[f].op
           p == [operations[o] EXCEPT !.partial = partial, !.effects = effects]
<1>1. o \in OpId /\ operations[o] \in Operation
  BY WorkingType DEF Working
<1>2. /\ p.status = operations[o].status /\ p.owner = operations[o].owner
      /\ p.lease = operations[o].lease /\ p.stream = operations[o].stream
      /\ p.events = operations[o].events /\ p.attempt = operations[o].attempt
      /\ p.partial = partial
  BY <1>1 DEF Operation
<1>3. /\ operations[o].status \in Executing /\ operations[o].owner # None
      /\ operations[o].lease # Never /\ operations[o].stream \notin Terminal
  BY <1>1, FencePassed
<1>4. operations' = [operations EXCEPT ![o] = p]
  BY <1>1, StoreTypes
<1>5. IncidentGoesOn
  BY DEF IncidentGoesOn
<1> HIDE DEF p
<1> QED
  BY <1>1, <1>2, <1>3, <1>4, <1>5, FencedWrite

\* The ledger entry of a partial changes the active operation's ledger alone.
LEMMA BeginPartialStore ==
    ASSUME StoreInv, TypeInv', NEW f \in Fiber, BeginPartial(f)
    PROVE  Agrees' /\ OnePermit' /\ TurnStep
<1> USE DEF StoreInv
<1> DEFINE o == fibers[f].op
           effects == IF operations[o].partial # "none" THEN operations[o].effects
                      ELSE operations[o].effects + 1
<1>1. /\ o \in OpId /\ operations[o] \in Operation
      /\ fibers[f].pc \in Holding \cap Claimed /\ fibers[f].pc # "idle"
      /\ UNCHANGED <<queue, active, recovery, alarm, admitted, boot>>
  BY WorkingType DEF BeginPartial, Working, Claimed, Holding, PC
<1>2. CASE (Stop(f) \/ Goto(f, "mark")) /\ operations' = operations
  BY <1>1, <1>2, HolderStops, HolderGoesTo, Untouched DEF PC
<1>3. CASE ~((Stop(f) \/ Goto(f, "mark")) /\ operations' = operations)
  <2>1. ownsUnexpiredLease(fibers[f], now) /\ Goto(f, "partial-write")
    BY <1>3 DEF BeginPartial
  <2>2. operations' = [operations EXCEPT ![o] =
            [@ EXCEPT !.partial = "pending", !.effects = effects]]
    BY <1>1, <1>3, StoreTypes DEF BeginPartial
  <2>3. OnePermit'
    BY <1>1, <2>1, HolderGoesTo DEF PC
  <2> HIDE DEF effects
  <2> QED
    BY <1>1, <2>1, <2>2, <2>3, PartialStore
<1> QED
  BY <1>2, <1>3

\* So does its completion.
LEMMA CompletePartialStore ==
    ASSUME StoreInv, TypeInv', NEW f \in Fiber, CompletePartial(f)
    PROVE  Agrees' /\ OnePermit' /\ TurnStep
<1> USE DEF StoreInv
<1> DEFINE o == fibers[f].op
<1>1. /\ o \in OpId /\ operations[o] \in Operation
      /\ fibers[f].pc \in Holding \cap Claimed /\ fibers[f].pc # "idle"
      /\ UNCHANGED <<queue, active, recovery, alarm, admitted, boot>>
  BY WorkingType DEF CompletePartial, Working, Claimed, Holding, PC
<1>2. CASE ~ownsUnexpiredLease(fibers[f], now)
  BY <1>1, <1>2, HolderStops, Untouched DEF CompletePartial
<1>3. CASE ownsUnexpiredLease(fibers[f], now)
  <2>1. OnePermit'
    BY <1>1, <1>3, HolderGoesTo DEF CompletePartial, PC
  <2> DEFINE p == [operations[o] EXCEPT !.partial = "completed"]
             q == [operations[o] EXCEPT !.partial = "completed",
                                        !.effects = operations[o].effects]
  <2>2. operations' = [operations EXCEPT ![o] = p]
    BY <1>1, <1>3, StoreTypes DEF CompletePartial
  <2>3. p = q
    BY <1>1 DEF Operation
  <2>4. operations' = [operations EXCEPT ![o] =
            [@ EXCEPT !.partial = "completed", !.effects = operations[o].effects]]
    BY <1>1, <2>2, <2>3, StoreTypes
  <2> QED
    BY <1>1, <1>3, <2>1, <2>4, PartialStore
<1> QED
  BY <1>2, <1>3

\* Retention, the clock, and the loss of the isolate with all its calls.
LEMMA EnvironmentStore ==
    ASSUME ~OverlappingIsolates, StoreInv, TypeInv', Cleanup \/ Tick \/ Restart
    PROVE  Agrees' /\ OnePermit' /\ TurnStep
<1> USE DEF StoreInv
<1>1. CASE Cleanup
  <2>1. OnePermit'
    BY <1>1 DEF Cleanup, OnePermit
  <2> QED
    BY <1>1, <2>1, Forgets
<1>2. CASE Tick
  <2>1. UNCHANGED <<operations, queue, active, recovery, alarm, admitted, fibers, boot>>
    BY <1>2 DEF Tick, stored
  <2>2. OnePermit'
    BY <2>1 DEF OnePermit
  <2> QED
    BY <2>1, <2>2, Untouched
<1>3. CASE Restart
  <2>1. UNCHANGED <<operations, queue, active, recovery, alarm, admitted>>
        /\ fibers' = [f \in Fiber |-> Idle]
    BY <1>3 DEF Restart, stored
  <2>2. OnePermit'
    BY <2>1 DEF OnePermit, Idle, Holding
  <2> QED
    BY <2>1, <2>2, Untouched
<1> QED
  BY <1>1, <1>2, <1>3

-----------------------------------------------------------------------------
(* The invariant, and what follows from it *)

\* Every transition keeps the stored state in agreement, and is a step of TurnSpec.
LEMMA StepStore ==
    ASSUME ~OverlappingIsolates, StoreInv, [Next]_vars
    PROVE  StoreInv' /\ TurnStep
<1> DEFINE Goal == Agrees' /\ OnePermit' /\ TurnStep
<1>1. TypeInv'
  BY NextTypeInv DEF StoreInv
<1>2. ASSUME NEW s \in Submission, NEW spawn \in AtMostOne, Admit(s, spawn) PROVE Goal
  BY <1>1, <1>2, AdmitStore
<1>3. ASSUME NEW f \in Fiber, Claim(f) \/ PersistRequestSnapshot(f) \/ MarkStreaming(f)
      PROVE  Goal
  BY <1>1, <1>3, ClaimStore, PersistRequestSnapshotStore, MarkStreamingStore
<1>4. ASSUME NEW f \in Fiber, EmitStarted(f) \/ EmitText(f) \/ EmitTool(f) \/ EmitDone(f)
      PROVE  Goal
  BY <1>1, <1>4, EmitStore
<1>5. ASSUME NEW f \in Fiber,
             \/ SaveToolRound(f) \/ SaveAnswer(f) \/ WritePartial(f)
             \/ PermitTimeout(f) \/ Stall(f) \/ Die(f) \/ StorageFails(f)
             \/ \E error \in {"retryable", "oom", "fatal"} : ExecutorFails(f, error)
             \/ WakeIdle(f) \/ StartRecover(f)
      PROVE  Goal
  BY <1>5, CallsOnlyStore
<1>6. ASSUME NEW f \in Fiber, SettleCompleted(f) \/ Catch(f) PROVE Goal
  BY <1>1, <1>6, SettleCompletedStore, CatchStore
<1>7. ASSUME NEW f \in Fiber, ReconcileRead(f) \/ ReconcileCommit(f) \/ PrepareRecovery(f)
      PROVE  Goal
  BY <1>1, <1>7, ReconcileReadStore, ReconcileCommitStore, PrepareRecoveryStore
<1>8. ASSUME NEW f \in Fiber, BeginPartial(f) \/ CompletePartial(f) PROVE Goal
  BY <1>1, <1>8, BeginPartialStore, CompletePartialStore
<1>9. ASSUME NEW b \in LiveBoots, WakeInterrupts(b) PROVE Goal
  BY <1>1, <1>9, WakeInterruptsStore
<1>10. ASSUME Cleanup \/ Tick \/ Restart PROVE Goal
  BY <1>1, <1>10, EnvironmentStore
<1>11. ASSUME UNCHANGED vars PROVE Goal
  <2>1. UNCHANGED <<operations, queue, active, recovery, alarm, admitted, fibers, boot>>
    BY <1>11 DEF vars, stored
  <2>2. OnePermit'
    BY <2>1 DEF StoreInv, OnePermit
  <2> QED
    BY <2>1, <2>2, Untouched DEF StoreInv
<1>12. Goal
  <2> HIDE DEF Goal
  <2> QED
    BY <1>2, <1>3, <1>4, <1>5, <1>6, <1>7, <1>8, <1>9, <1>10, <1>11 DEF Next
<1> QED
  BY <1>1, <1>12 DEF StoreInv

\* The invariant StoreInv is inductive.
LEMMA NextStore ==
    ASSUME ~OverlappingIsolates
    PROVE  StoreInv /\ [Next]_vars => StoreInv' /\ TurnStep
  BY StepStore

\* It holds in every reachable state.
LEMMA StoreAgrees == ASSUME ~OverlappingIsolates PROVE Spec => []StoreInv
<1>1. Init => StoreInv
  BY InitTypeInv, InitStore DEF StoreInv
<1>2. StoreInv /\ [Next]_vars => StoreInv'
  BY NextStore
<1> QED
  BY <1>1, <1>2, PTL DEF Spec

\* Ownership, lease and status of an operation agree, and only the active operation is
\* owned: claim, settle, wake, exhaustion and reconciliation change them together.
THEOREM OwnershipIsActive == ASSUME ~OverlappingIsolates PROVE Spec => []OwnerIsActive
<1>1. StoreInv => OwnerIsActive
  BY DEF StoreInv, Agrees, Sound, OwnerIsActive, Busy
<1> QED
  BY <1>1, StoreAgrees, PTL

\* No admitted turn is lost or duplicated between admission, claim and outcome: until
\* it ends, an operation is in the queue or is the active one, and never both.
THEOREM NothingLost == ASSUME ~OverlappingIsolates PROVE Spec => []Accounted
<1>1. StoreInv => Accounted
  BY DEF StoreInv, Agrees, Sound, Accounted, Busy
<1> QED
  BY <1>1, StoreAgrees, PTL

\* Turns take the session in the order of their admission: claim only takes the head
\* of a queue that admit appends to.
THEOREM OrderKept == ASSUME ~OverlappingIsolates PROVE Spec => []FIFO
<1>1. StoreInv => FIFO
  BY DEF StoreInv, Agrees
<1> QED
  BY <1>1, StoreAgrees, PTL

\* An interrupted turn can always be taken up again: whatever wakes, failures and
\* mismatched alarms came before, its incident is scheduled and the stored alarm is
\* the one prepareRecovery accepts.
THEOREM InterruptedHasAlarm == ASSUME ~OverlappingIsolates PROVE Spec => []InterruptedIsScheduled
<1>1. StoreInv => InterruptedIsScheduled
  BY DEF StoreInv, Agrees, Sound, Scheduled, InterruptedIsScheduled
<1> QED
  BY <1>1, StoreAgrees, PTL

\* A stream tells the outcome of its operation, and tells none before it.
THEOREM StreamTellsOutcome == ASSUME ~OverlappingIsolates PROVE Spec => []StreamFollowsOperation
<1>1. StoreInv => StreamFollowsOperation
  BY DEF StoreInv, Agrees, Sound, StreamFollowsOperation
<1> QED
  BY <1>1, StoreAgrees, PTL

\* Restarts, spent leases and calls that fail do not refill the attempts of a turn: while
\* one is left over from an earlier attempt, its incident stays open and remembers it.
THEOREM AttemptsBounded == ASSUME ~OverlappingIsolates PROVE Spec => []AttemptBudget
<1>1. StoreInv => AttemptBudget
  BY DEF StoreInv, Agrees, Sound, Covered, AttemptBudget
<1> QED
  BY <1>1, StoreAgrees, PTL

\* An outcome is final: no settlement, retry, reconciliation or exhaustion rewrites
\* an operation that ended; only cleanup drops it.
THEOREM OutcomesKept == ASSUME ~OverlappingIsolates PROVE Spec => OutcomeFinal
<1>1. StoreInv /\ [Next]_vars =>
         [\A o \in OpId : operations[o].status \in Terminal
            => operations'[o] \in {operations[o], AbsentOperation}]_vars
  BY NextStore DEF TurnStep, KeepsOutcomes
<1> QED
  BY <1>1, StoreAgrees, PTL DEF Spec, OutcomeFinal

\* The engine implements the promise of TurnSpec: turns start one at a time and in the
\* order of their submission, only a started turn's log grows, and a turn ends once.
THEOREM EngineImplementsTurnSpec == ASSUME ~OverlappingIsolates PROVE Spec => ImplementsTurnSpec
<1>1. Init => Turns!TurnInit
  <2> SUFFICES ASSUME Init PROVE Turns!TurnInit
    OBVIOUS
  <2>1. \A o \in OpId : operations[o] = AbsentOperation /\ ~(o <= admitted)
    BY DEF Init, OpId
  <2>2. \A o \in OpId : TurnState[o] = "absent"
    BY <2>1, TurnStates DEF AbsentOperation
  <2>3. TurnState = [o \in OpId |-> "absent"]
    BY <2>2, TurnStateFunction
  <2>4. [o \in OpId |-> operations[o].events] = [o \in OpId |-> 0]
    BY <2>1 DEF AbsentOperation
  <2> QED
    BY <2>3, <2>4 DEF Init, Turns!TurnInit
<1>2. StoreInv /\ [Next]_vars => [Turns!TurnNext]_(Turns!turnVars)
  BY NextStore DEF TurnStep
<1> QED
  BY <1>1, <1>2, StoreAgrees, PTL DEF Spec, ImplementsTurnSpec, Turns!TurnSafety
===============================================================================
