------------------------ MODULE DurableExecutionProofs ------------------------
(***************************************************************************)
(* Proofs about the durable turn runtime, for any number of submissions,   *)
(* calls, isolates and operations and any limits: its type invariant, and  *)
(* that no two calls pass the fence of one operation.                      *)
(***************************************************************************)
EXTENDS DurableExecution, SequenceTheorems, TLAPS

\* A call in one of these places holds a claim: a generation of its own.
Claimed == {"snapshot", "partial-begin", "partial-write", "partial-complete",
            "mark", "stream", "catch"}

\* And in one of these it names the operation it works on.
Working == Claimed \cup {"claim", "reconcile-commit"}

NamesOperation == \A f \in Fiber : fibers[f].pc \in Working => fibers[f].op \in OpId

TypeInv == TypeOK /\ NamesOperation

-----------------------------------------------------------------------------
(* The pieces the transitions write *)

\* The empty records are well typed, and an idle call works on nothing.
LEMMA Empties ==
    /\ AbsentOperation \in Operation
    /\ NoIncident \in Incident
    /\ NoAlarm \in Alarm
    /\ Idle \in FiberRecord
    /\ Idle.pc \notin Working
<1>1. AbsentOperation \in Operation
  BY DEF AbsentOperation, Operation, Status, Checkpoint, StreamStatus, None, Never
<1>2. NoIncident \in Incident /\ NoAlarm \in Alarm
  BY DEF NoIncident, Incident, Kind, NoAlarm, Alarm, None, Never
<1>3. Idle \in FiberRecord /\ Idle.pc \notin Working
  BY DEF Idle, FiberRecord, PC, None, Working, Claimed
<1> QED
  BY <1>1, <1>2, <1>3

\* What a call that works on an operation may read.
LEMMA WorkingType ==
    ASSUME TypeInv, NEW f \in Fiber
    PROVE  /\ fibers[f] \in FiberRecord
           /\ now \in Nat
           /\ generation \in Nat
           /\ generation + 1 \in Nat
           /\ now + LeaseDuration \in Int
           /\ now + AlarmDebounce \in Int
           /\ now + CompletedStreamRetention \in Int
           /\ fibers[f].boot \in Nat
           /\ fibers[f].attempt \in Nat
           /\ fibers[f].pc \in Working =>
                 /\ fibers[f].op \in OpId
                 /\ operations[fibers[f].op] \in Operation
                 /\ transcript[fibers[f].op] \in Transcript
  BY BoundsAssumption, LimitsAssumption DEF TypeInv, NamesOperation, TypeOK, FiberRecord

\* A dequeued queue is a queue.
LEMMA DequeueType ==
    ASSUME NEW S, NEW q \in Seq(S), NEW o
    PROVE  Dequeue(q, o) \in Seq(S)
<1>1. CASE q = << >>
  BY <1>1 DEF Dequeue
<1>2. CASE q # << >>
  BY <1>2, HeadTailProperties DEF Dequeue
<1> QED
  BY <1>1, <1>2

\* One call moves on.
LEMMA FiberSet ==
    ASSUME TypeInv, NEW f \in Fiber, NEW r \in FiberRecord,
           r.pc \in Working => r.op \in OpId,
           fibers' = [fibers EXCEPT ![f] = r]
    PROVE  fibers' \in [Fiber -> FiberRecord] /\ NamesOperation'
<1>1. fibers' \in [Fiber -> FiberRecord]
  BY DEF TypeInv, TypeOK
<1>2. \A g \in Fiber : fibers'[g] = fibers[g] \/ fibers'[g] = r
  BY DEF TypeInv, TypeOK
<1> QED
  BY <1>1, <1>2 DEF TypeInv, NamesOperation, OpId

\* A call that ends leaves the calls well typed.
LEMMA StopType ==
    ASSUME TypeInv, NEW f \in Fiber, Stop(f)
    PROVE  fibers' \in [Fiber -> FiberRecord] /\ NamesOperation'
  BY FiberSet, Empties DEF Stop

\* So does one that moves to its next transaction,
LEMMA GotoType ==
    ASSUME TypeInv, NEW f \in Fiber, fibers[f].op \in OpId, NEW pc \in PC, Goto(f, pc)
    PROVE  fibers' \in [Fiber -> FiberRecord] /\ NamesOperation'
<1> DEFINE r == [fibers[f] EXCEPT !.pc = pc, !.since = now]
<1>1. r \in FiberRecord /\ r.op \in OpId
  BY WorkingType DEF FiberRecord
<1>2. fibers' = [fibers EXCEPT ![f] = r]
  BY DEF Goto
<1> QED
  BY <1>1, <1>2, FiberSet

\* and one whose executor failed.
LEMMA FailType ==
    ASSUME TypeInv, NEW f \in Fiber, fibers[f].op \in OpId,
           NEW error \in {"stall", "retryable", "oom", "fatal"}, Fail(f, error)
    PROVE  fibers' \in [Fiber -> FiberRecord] /\ NamesOperation'
<1> DEFINE r == [fibers[f] EXCEPT !.pc = "catch", !.error = error, !.since = now]
<1>1. r \in FiberRecord /\ r.op \in OpId
  BY WorkingType DEF FiberRecord, PC
<1>2. fibers' = [fibers EXCEPT ![f] = r]
  BY DEF Fail
<1> QED
  BY <1>1, <1>2, FiberSet

\* One record changes.
LEMMA OperationSet ==
    ASSUME TypeInv, NEW o \in OpId, NEW p \in Operation,
           operations' = [operations EXCEPT ![o] = p]
    PROVE  operations' \in [OpId -> Operation]
  BY DEF TypeInv, TypeOK

\* Only the calls and the clocks change.
LEMMA CallsOnly ==
    ASSUME TypeInv, fibers' \in [Fiber -> FiberRecord], NamesOperation',
           UNCHANGED <<stored, admitted, now, boot>>,
           transcript' \in [OpId -> Transcript], faults' \in 0..MaxFaults
    PROVE  TypeInv'
  BY DEF TypeInv, TypeOK, stored

\* Only one record and the calls change.
LEMMA OperationAndCalls ==
    ASSUME TypeInv, fibers' \in [Fiber -> FiberRecord], NamesOperation',
           operations' \in [OpId -> Operation],
           UNCHANGED <<queue, active, recovery, alarm, generation, admitted, transcript,
                       now, boot, faults>>
    PROVE  TypeInv'
  BY DEF TypeInv, TypeOK

-----------------------------------------------------------------------------
(* The initial state and each action preserve the types *)

\* The empty runtime state and a host without calls are well typed.
LEMMA InitTypeInv == Init => TypeInv
<1> SUFFICES ASSUME Init PROVE TypeInv
  OBVIOUS
<1>1. [text |-> << >>, saved |-> "none"] \in Transcript
  BY DEF Transcript
<1>2. TypeOK
  BY <1>1, Empties, BoundsAssumption DEF TypeOK, Init, None
<1>3. NamesOperation
  BY Empties DEF NamesOperation, Init
<1> QED
  BY <1>2, <1>3 DEF TypeInv

\* A call starts well typed: run names its operation, recover does not.
LEMMA SpawnedType ==
    ASSUME NEW kind \in {"run", "recover"}, NEW b \in Nat, now \in Nat,
           NEW o \in OpId \cup {None}, kind = "run" => o \in OpId
    PROVE  /\ Spawned(kind, b, o) \in FiberRecord
           /\ Spawned(kind, b, o).pc \in Working => Spawned(kind, b, o).op \in OpId
<1>1. Spawned(kind, b, o) \in FiberRecord
  <2> DEFINE pc == IF kind = "run" THEN "claim" ELSE "reconcile"
             r == [Idle EXCEPT !.pc = pc, !.kind = kind, !.boot = b, !.op = o, !.since = now]
  <2>1. pc \in PC
    BY DEF PC
  <2>2. r \in FiberRecord
    <3> HIDE DEF pc
    <3> QED
      BY <2>1, Empties DEF FiberRecord
  <2>3. Spawned(kind, b, o) = r
    BY DEF Spawned
  <2> QED
    BY <2>2, <2>3
<1>2. /\ Spawned(kind, b, o).op = o
      /\ kind = "recover" => Spawned(kind, b, o).pc = "reconcile"
  BY DEF Spawned, Idle
<1> QED
  BY <1>1, <1>2 DEF Working, Claimed

\* admit writes a queued operation, its stream and its place in the queue.
LEMMA AdmitType ==
    ASSUME TypeInv, NEW s \in Submission, NEW spawn, Admit(s, spawn)
    PROVE  TypeInv'
<1> DEFINE o == admitted + 1
           p == [AbsentOperation EXCEPT !.submission = s, !.status = "queued", !.effects = 2]
           r == Spawned("run", boot, o)
<1>1. o \in OpId /\ now \in Nat /\ boot \in Nat
  BY BoundsAssumption DEF Admit, TypeInv, TypeOK
<1>2. p \in Operation
  BY Empties DEF Operation, Status
<1>3. operations' \in [OpId -> Operation]
  BY <1>1, <1>2, OperationSet DEF Admit
<1>4. queue' \in Seq(OpId)
  BY <1>1 DEF Admit, TypeInv, TypeOK
<1>5. r \in FiberRecord /\ (r.pc \in Working => r.op \in OpId)
  BY <1>1, SpawnedType
<1>6. fibers' = [f \in Fiber |-> IF f \in spawn THEN r ELSE fibers[f]]
  BY DEF Admit
<1>7. fibers' \in [Fiber -> FiberRecord]
  BY <1>5, <1>6 DEF TypeInv, TypeOK
<1>8. NamesOperation'
  <2>1. \A f \in Fiber : fibers'[f] = fibers[f] \/ fibers'[f] = r
    BY <1>6
  <2> QED
    BY <1>5, <2>1 DEF TypeInv, NamesOperation, OpId
<1>9. admitted' \in 0..MaxOperations
  BY <1>1 DEF Admit, OpId, TypeInv, TypeOK
<1> QED
  BY <1>3, <1>4, <1>7, <1>8, <1>9 DEF Admit, TypeInv, TypeOK

\* claim writes a generation, an owner and a lease.
LEMMA ClaimType ==
    ASSUME TypeInv, NEW f \in Fiber, Claim(f)
    PROVE  TypeInv'
<1> DEFINE o == fibers[f].op
           g == generation + 1
           p == [operations[o] EXCEPT
                    !.status = "running", !.checkpoint = "preparing",
                    !.generation = g, !.owner = fibers[f].boot, !.lease = now + LeaseDuration]
           r == [fibers[f] EXCEPT !.pc = "snapshot", !.generation = g,
                    !.attempt = operations[o].attempt, !.since = now]
<1>1. CASE Claimable(o)
  <2>1. /\ o \in OpId /\ operations[o] \in Operation /\ fibers[f] \in FiberRecord
        /\ g \in Nat /\ now \in Nat /\ fibers[f].boot \in Nat /\ now + LeaseDuration \in Int
    BY WorkingType DEF Claim, Working
  <2>2. p \in Operation
    <3> HIDE DEF g
    <3> QED
      BY <2>1 DEF Operation, Status, Checkpoint
  <2>3. operations' = [operations EXCEPT ![o] = p]
    BY <1>1, <2>1 DEF Claim, TypeInv, TypeOK
  <2>4. r \in FiberRecord /\ r.op = o
    BY <2>1 DEF FiberRecord, PC, Operation
  <2>5. fibers' = [fibers EXCEPT ![f] = r]
    BY <1>1 DEF Claim
  <2>6. fibers' \in [Fiber -> FiberRecord] /\ NamesOperation'
    BY <2>1, <2>4, <2>5, FiberSet
  <2>7. operations' \in [OpId -> Operation]
    BY <2>1, <2>2, <2>3, OperationSet
  <2>8. queue' \in Seq(OpId)
    BY <1>1, <2>1, DequeueType DEF Claim, TypeInv, TypeOK
  <2>9. active' \in OpId /\ generation' \in Nat
    BY <1>1, <2>1 DEF Claim
  <2> QED
    BY <2>6, <2>7, <2>8, <2>9 DEF Claim, TypeInv, TypeOK
<1>2. CASE ~Claimable(o)
  BY <1>2, StopType DEF Claim, TypeInv, TypeOK
<1> QED
  BY <1>1, <1>2

\* persistRequestSnapshot writes a checkpoint and a ledger entry.
LEMMA PersistRequestSnapshotType ==
    ASSUME TypeInv, NEW f \in Fiber, PersistRequestSnapshot(f)
    PROVE  TypeInv'
<1> DEFINE o == fibers[f].op
           next == IF fibers[f].mode = "continue" THEN "partial-begin" ELSE "mark"
           effects == operations[o].effects + 1
           p == [operations[o] EXCEPT !.checkpoint = "preparing", !.effects = effects]
<1>1. o \in OpId /\ operations[o] \in Operation
  BY WorkingType DEF PersistRequestSnapshot, Working, Claimed
<1>e. effects \in Nat
  BY <1>1 DEF Operation
<1>2. p \in Operation
  <2> HIDE DEF effects
  <2> QED
    BY <1>1, <1>e DEF Operation, Checkpoint
<1>3. \/ operations' = [operations EXCEPT ![o] = p] /\ Goto(f, next)
      \/ Stop(f) /\ UNCHANGED operations
  BY <1>1 DEF PersistRequestSnapshot, TypeInv, TypeOK
<1>4. operations' \in [OpId -> Operation]
  BY <1>1, <1>2, <1>3, OperationSet DEF TypeInv, TypeOK
<1>5. next \in PC
  BY DEF PC
<1>6. fibers' \in [Fiber -> FiberRecord] /\ NamesOperation'
  BY <1>1, <1>3, <1>5, GotoType, StopType
<1> QED
  BY <1>4, <1>6, OperationAndCalls DEF PersistRequestSnapshot

\* markStreaming writes a checkpoint, a lease and a ledger entry.
LEMMA MarkStreamingType ==
    ASSUME TypeInv, NEW f \in Fiber, MarkStreaming(f)
    PROVE  TypeInv'
<1> DEFINE o == fibers[f].op
           effects == operations[o].effects + 1
           p == [operations[o] EXCEPT
                    !.status = "running", !.checkpoint = "streaming",
                    !.lease = now + LeaseDuration, !.effects = effects]
           base == IF fibers[f].mode = "continue" THEN Len(transcript[o].text) ELSE 0
           step == IF fibers[f].mode = "continue" THEN "body" ELSE "begin"
           r == [fibers[f] EXCEPT !.pc = "stream", !.since = now, !.parts = << >>,
                    !.step = step, !.base = base]
<1>1. /\ o \in OpId /\ operations[o] \in Operation /\ transcript[o] \in Transcript
      /\ fibers[f] \in FiberRecord /\ now \in Nat /\ now + LeaseDuration \in Int
  BY WorkingType DEF MarkStreaming, Working, Claimed
<1>e. effects \in Nat
  BY <1>1 DEF Operation
<1>2. p \in Operation
  <2> HIDE DEF effects
  <2> QED
    BY <1>1, <1>e DEF Operation, Status, Checkpoint
<1>3. base \in Nat /\ step \in {"begin", "body", "saved", "ended"} /\ << >> \in Seq(Nat)
  BY <1>1 DEF Transcript
<1>4. r \in FiberRecord /\ r.op = o
  <2> HIDE DEF base, step
  <2> QED
    BY <1>1, <1>3 DEF FiberRecord, PC
<1>5. \/ operations' = [operations EXCEPT ![o] = p] /\ fibers' = [fibers EXCEPT ![f] = r]
      \/ Stop(f) /\ UNCHANGED operations
  BY <1>1 DEF MarkStreaming, TypeInv, TypeOK
<1>6. operations' \in [OpId -> Operation]
  BY <1>1, <1>2, <1>5, OperationSet DEF TypeInv, TypeOK
<1>7. fibers' \in [Fiber -> FiberRecord] /\ NamesOperation'
  BY <1>1, <1>4, <1>5, FiberSet, StopType
<1> QED
  BY <1>6, <1>7, OperationAndCalls DEF MarkStreaming

\* append writes the stream, the operation and the progress of the incident.
LEMMA AppendEventType ==
    ASSUME TypeInv, NEW f \in Fiber, fibers[f].pc = "stream", NEW tool \in BOOLEAN,
           NEW text \in Seq(Nat), NEW advanced \in FiberRecord, advanced.op = fibers[f].op,
           AppendEvent(f, text, tool, advanced), EventUnchanged
    PROVE  TypeInv'
<1> DEFINE o == fibers[f].op
           work == IF operations[o].attempt > 0 THEN operations[o].work + 1 ELSE operations[o].work
           events == operations[o].events + 1
           answer == operations[o].text \o text
           called == operations[o].tool \/ tool
           p == [operations[o] EXCEPT
                    !.status = "running", !.checkpoint = "streaming", !.work = work,
                    !.lease = now + LeaseDuration, !.stream = "open", !.expires = Never,
                    !.events = events, !.text = answer, !.tool = called]
           i == [recovery EXCEPT !.lastProgress = now, !.work = work]
<1>1. /\ o \in OpId /\ operations[o] \in Operation /\ recovery \in Incident
      /\ now \in Nat /\ now + LeaseDuration \in Int
  BY WorkingType DEF Working, Claimed, TypeInv, TypeOK
<1>2. work \in Nat /\ events \in Nat /\ answer \in Seq(Nat) /\ Never \in Int
  <2>1. /\ operations[o].work \in Nat /\ operations[o].events \in Nat
        /\ operations[o].text \in Seq(Nat)
    BY <1>1 DEF Operation
  <2> QED
    BY <2>1 DEF Never
<1>3. called \in BOOLEAN
  BY <1>1 DEF Operation
<1>4. p \in Operation
  <2> HIDE DEF work, events, answer, called
  <2> QED
    BY <1>1, <1>2, <1>3 DEF Operation, Status, Checkpoint, StreamStatus
<1>5. i \in Incident
  <2> HIDE DEF work
  <2> QED
    BY <1>1, <1>2 DEF Incident
<1>6. \/ /\ operations' = [operations EXCEPT ![o] = p]
         /\ recovery' \in {recovery, i}
         /\ fibers' = [fibers EXCEPT ![f] = advanced]
      \/ Fail(f, "fatal") /\ UNCHANGED <<operations, recovery>>
  <2>1. CASE ownsUnexpiredLease(fibers[f], now) /\ ~Capped(operations[o])
    <3>1. operations' = [operations EXCEPT ![o] = p]
      <4>1. o \in DOMAIN operations
        BY <1>1 DEF TypeInv, TypeOK
      <4> QED
        BY <2>1, <4>1, ZenonT(150) DEF AppendEvent
    <3>2. recovery' \in {recovery, i} /\ fibers' = [fibers EXCEPT ![f] = advanced]
      <4> HIDE DEF p
      <4> QED
        BY <1>1, <2>1 DEF AppendEvent
    <3> QED
      BY <3>1, <3>2
  <2>2. CASE ~(ownsUnexpiredLease(fibers[f], now) /\ ~Capped(operations[o]))
    BY <2>2 DEF AppendEvent
  <2> QED
    BY <2>1, <2>2
<1>7. operations' \in [OpId -> Operation] /\ recovery' \in Incident
  BY <1>1, <1>4, <1>5, <1>6, OperationSet DEF TypeInv, TypeOK
<1>8. fibers' \in [Fiber -> FiberRecord] /\ NamesOperation'
  BY <1>1, <1>6, FiberSet, FailType
<1> QED
  BY <1>7, <1>8 DEF EventUnchanged, TypeInv, TypeOK

\* Each event of the executor is such an append.
LEMMA EmitType ==
    ASSUME TypeInv, NEW f \in Fiber,
           EmitStarted(f) \/ EmitText(f) \/ EmitTool(f) \/ EmitDone(f)
    PROVE  TypeInv'
<1> DEFINE part == fibers[f].base + Len(fibers[f].parts) + 1
           parts == Append(fibers[f].parts, part)
<1>1. fibers[f] \in FiberRecord /\ now \in Nat
  BY WorkingType
<1>2. part \in Nat /\ parts \in Seq(Nat) /\ <<part>> \in Seq(Nat) /\ << >> \in Seq(Nat)
  BY <1>1 DEF FiberRecord
<1>3. CASE EmitStarted(f)
  <2> DEFINE r == [fibers[f] EXCEPT !.step = "body", !.since = now]
  <2>1. r \in FiberRecord /\ r.op = fibers[f].op
    BY <1>1 DEF FiberRecord
  <2>2. AppendEvent(f, << >>, FALSE, r) /\ EventUnchanged /\ fibers[f].pc = "stream"
    BY <1>3 DEF EmitStarted, Streaming
  <2> QED
    BY <1>2, <2>1, <2>2, AppendEventType
<1>4. CASE EmitText(f)
  <2> DEFINE r == [fibers[f] EXCEPT !.parts = parts, !.since = now]
  <2>1. r \in FiberRecord /\ r.op = fibers[f].op
    <3> HIDE DEF parts
    <3> QED
      BY <1>1, <1>2 DEF FiberRecord
  <2>2. AppendEvent(f, <<part>>, FALSE, r) /\ EventUnchanged /\ fibers[f].pc = "stream"
    BY <1>4 DEF EmitText, Streaming
  <2> QED
    BY <1>2, <2>1, <2>2, AppendEventType
<1>5. CASE EmitTool(f)
  <2> DEFINE r == [fibers[f] EXCEPT !.since = now]
  <2>1. r \in FiberRecord /\ r.op = fibers[f].op
    BY <1>1 DEF FiberRecord
  <2>2. AppendEvent(f, << >>, TRUE, r) /\ EventUnchanged /\ fibers[f].pc = "stream"
    BY <1>5 DEF EmitTool, Streaming
  <2> QED
    BY <1>2, <2>1, <2>2, AppendEventType
<1>6. CASE EmitDone(f)
  <2> DEFINE r == [fibers[f] EXCEPT !.step = "ended", !.since = now]
  <2>1. r \in FiberRecord /\ r.op = fibers[f].op
    BY <1>1 DEF FiberRecord
  <2>2. AppendEvent(f, << >>, FALSE, r) /\ EventUnchanged /\ fibers[f].pc = "stream"
    BY <1>6 DEF EmitDone, Streaming
  <2> QED
    BY <1>2, <2>1, <2>2, AppendEventType
<1> QED
  BY <1>3, <1>4, <1>5, <1>6

\* persistResponse writes an assistant message.
LEMMA SaveResponseType ==
    ASSUME TypeInv, NEW f \in Fiber, NEW saved \in {"partial", "final"}, SaveResponse(f, saved)
    PROVE  transcript' \in [OpId -> Transcript] /\ fibers[f].pc = "stream" /\ fibers[f].op \in OpId
<1> DEFINE o == fibers[f].op
           t == [text |-> transcript[o].text \o fibers[f].parts, saved |-> saved]
<1>1. o \in OpId /\ transcript[o] \in Transcript /\ fibers[f] \in FiberRecord /\ fibers[f].pc = "stream"
  BY WorkingType DEF SaveResponse, Streaming, Working, Claimed
<1>2. t \in Transcript
  BY <1>1 DEF Transcript, FiberRecord
<1>3. transcript' = [transcript EXCEPT ![o] = t]
  BY <1>1 DEF SaveResponse, TypeInv, TypeOK
<1> QED
  BY <1>1, <1>2, <1>3 DEF TypeInv, TypeOK

\* A saved response leaves the stored runtime state alone.
LEMMA SaveType ==
    ASSUME TypeInv, NEW f \in Fiber, SaveToolRound(f) \/ SaveAnswer(f)
    PROVE  TypeInv'
<1> DEFINE base == fibers[f].base + Len(fibers[f].parts)
<1>1. fibers[f] \in FiberRecord
  BY WorkingType
<1>2. base \in Nat /\ << >> \in Seq(Nat)
  BY <1>1 DEF FiberRecord
<1>3. CASE SaveToolRound(f)
  <2> DEFINE r == [fibers[f] EXCEPT !.base = base, !.parts = << >>]
  <2>1. r \in FiberRecord /\ r.op = fibers[f].op
    <3> HIDE DEF base
    <3> QED
      BY <1>1, <1>2 DEF FiberRecord
  <2>2. fibers' = [fibers EXCEPT ![f] = r]
    BY <1>3 DEF SaveToolRound
  <2>3. transcript' \in [OpId -> Transcript] /\ fibers[f].op \in OpId
    BY <1>3, SaveResponseType DEF SaveToolRound
  <2>4. fibers' \in [Fiber -> FiberRecord] /\ NamesOperation'
    BY <2>1, <2>2, <2>3, FiberSet
  <2> QED
    BY <1>3, <2>3, <2>4, CallsOnly DEF SaveToolRound, TypeInv, TypeOK
<1>4. CASE SaveAnswer(f)
  <2> DEFINE r == [fibers[f] EXCEPT !.step = "saved"]
  <2>1. r \in FiberRecord /\ r.op = fibers[f].op
    BY <1>1 DEF FiberRecord
  <2>2. fibers' = [fibers EXCEPT ![f] = r]
    BY <1>4 DEF SaveAnswer
  <2>3. transcript' \in [OpId -> Transcript] /\ fibers[f].op \in OpId
    BY <1>4, SaveResponseType DEF SaveAnswer
  <2>4. fibers' \in [Fiber -> FiberRecord] /\ NamesOperation'
    BY <2>1, <2>2, <2>3, FiberSet
  <2> QED
    BY <1>4, <2>3, <2>4, CallsOnly DEF SaveAnswer, TypeInv, TypeOK
<1> QED
  BY <1>3, <1>4

\* The ways a call ends or fails without touching the stored state.
LEMMA CallEndsType ==
    ASSUME TypeInv, NEW f \in Fiber,
           \/ PermitTimeout(f) \/ Stall(f) \/ Die(f) \/ StorageFails(f)
           \/ \E error \in {"retryable", "oom", "fatal"} : ExecutorFails(f, error)
    PROVE  TypeInv'
<1>1. faults' \in 0..MaxFaults
  BY BoundsAssumption DEF TypeInv, TypeOK, PermitTimeout, Stall, Die, StorageFails, ExecutorFails
<1>2. fibers[f].pc = "stream" => fibers[f].op \in OpId
  BY DEF TypeInv, NamesOperation, Working, Claimed
<1>3. /\ Stop(f) \/ (fibers[f].pc = "stream" /\ \E e \in {"stall", "retryable", "oom", "fatal"} : Fail(f, e))
      /\ UNCHANGED <<stored, admitted, transcript, now, boot>>
  BY DEF PermitTimeout, Stall, Die, StorageFails, ExecutorFails, Streaming
<1>4. fibers' \in [Fiber -> FiberRecord] /\ NamesOperation'
  BY <1>2, <1>3, StopType, FailType
<1> QED
  BY <1>1, <1>3, <1>4, CallsOnly DEF TypeInv, TypeOK

\* A settlement that is not refused.
LEMMA SettleType ==
    ASSUME TypeInv, NEW f \in Fiber, fibers[f].pc \in Working, NEW outcome \in Terminal,
           Settle(f, outcome, FALSE),
           UNCHANGED <<queue, generation, admitted, transcript, now, boot, faults>>
    PROVE  TypeInv'
<1> DEFINE o == fibers[f].op
           effects == operations[o].effects + 1
           p == [operations[o] EXCEPT
                    !.status = outcome, !.checkpoint = "terminal",
                    !.owner = None, !.lease = Never, !.effects = effects,
                    !.stream = outcome, !.expires = now + CompletedStreamRetention]
<1>1. o \in OpId /\ operations[o] \in Operation /\ now + CompletedStreamRetention \in Int
  BY WorkingType
<1>2. /\ effects \in Nat /\ None \in Nat /\ Never \in Int
      /\ outcome \in Status /\ outcome \in StreamStatus
  <2>1. operations[o].effects \in Nat
    BY <1>1 DEF Operation
  <2>2. outcome \in Status /\ outcome \in StreamStatus
    BY DEF Terminal, Status, StreamStatus
  <2> QED
    BY <2>1, <2>2 DEF None, Never
<1>3. p \in Operation
  <2> HIDE DEF effects
  <2> QED
    BY <1>1, <1>2 DEF Operation, Checkpoint
<1>4. operations' = [operations EXCEPT ![o] = p]
  BY <1>1 DEF Settle, TypeInv, TypeOK
<1>5. /\ operations' \in [OpId -> Operation]
      /\ fibers' \in [Fiber -> FiberRecord] /\ NamesOperation'
  BY <1>1, <1>3, <1>4, OperationSet, StopType DEF Settle
<1> QED
  BY <1>5, Empties DEF Settle, TypeInv, TypeOK

\* The end of the stream settles the operation or fails the call.
LEMMA SettleCompletedType ==
    ASSUME TypeInv, NEW f \in Fiber, SettleCompleted(f)
    PROVE  TypeInv'
<1>1. fibers[f].pc \in Working /\ fibers[f].op \in OpId
  BY WorkingType DEF SettleCompleted, Working, Claimed
<1>2. CASE Settle(f, "completed", FALSE)
  BY <1>1, <1>2, SettleType DEF SettleCompleted, Terminal
<1>3. CASE ~Settle(f, "completed", FALSE)
  <2>1. /\ Stop(f) \/ Fail(f, "fatal")
        /\ UNCHANGED <<operations, active, recovery, alarm>>
    BY <1>3 DEF SettleCompleted, Settle
  <2>2. fibers' \in [Fiber -> FiberRecord] /\ NamesOperation'
    BY <1>1, <2>1, StopType, FailType
  <2> QED
    BY <2>1, <2>2 DEF SettleCompleted, TypeInv, TypeOK
<1> QED
  BY <1>2, <1>3

\* scheduleRecoveryAfterFailure writes the incident and its alarm.
LEMMA ScheduleRecoveryType ==
    ASSUME TypeInv, NEW f \in Fiber, fibers[f].pc \in Working, ScheduleRecovery(f),
           UNCHANGED <<queue, generation, admitted, transcript, now, boot, faults>>
    PROVE  TypeInv'
<1> DEFINE o == fibers[f].op
           checkpoint == IF fibers[f].mode = "continue" THEN "partial-persisted"
                         ELSE operations[o].checkpoint
           p == [operations[o] EXCEPT
                    !.status = "interrupted", !.checkpoint = checkpoint,
                    !.owner = None, !.lease = Never, !.stream = "interrupted"]
           due == now + AlarmDebounce
           attempt == IF recovery.operation = None THEN operations[o].attempt ELSE recovery.attempt
           oom == recovery.oom + (IF fibers[f].error = "oom" THEN 1 ELSE 0)
           progress == IF recovery.operation = None THEN now ELSE recovery.lastProgress
           i == [ operation |-> o, kind |-> classifyRecovery(operations[o]),
                  status |-> "scheduled", attempt |-> attempt, work |-> operations[o].work,
                  oom |-> oom, lastProgress |-> progress, scheduledAt |-> due ]
<1>1. o \in OpId /\ operations[o] \in Operation /\ recovery \in Incident /\ now \in Nat /\ due \in Int
  BY WorkingType DEF TypeInv, TypeOK
<1>2. checkpoint \in Checkpoint /\ None \in Nat /\ Never \in Int
  BY <1>1 DEF Operation, Checkpoint, None, Never
<1>3. p \in Operation
  <2> HIDE DEF checkpoint
  <2> QED
    BY <1>1, <1>2 DEF Operation, Status, StreamStatus
<1>4. /\ attempt \in Nat /\ operations[o].work \in Nat /\ oom \in Nat /\ progress \in Nat
      /\ operations[o].generation \in Nat
  <2>1. /\ operations[o].attempt \in Nat /\ operations[o].work \in Nat
        /\ operations[o].generation \in Nat
    BY <1>1 DEF Operation
  <2>2. recovery.attempt \in Nat /\ recovery.oom \in Nat /\ recovery.lastProgress \in Nat
    BY <1>1 DEF Incident
  <2> QED
    BY <1>1, <2>1, <2>2
<1>5. classifyRecovery(operations[o]) \in Kind
  BY DEF classifyRecovery, Kind
<1>6. i \in Incident
  <2> HIDE DEF attempt, oom, progress, due
  <2> QED
    BY <1>1, <1>4, <1>5 DEF Incident
<1>7. AlarmFor(o, due) \in Alarm
  BY <1>1, <1>4 DEF AlarmFor, Alarm
<1>8. CASE ownsUnexpiredLease(fibers[f], now)
  <2>1. operations' = [operations EXCEPT ![o] = p]
    BY <1>1, <1>8 DEF ScheduleRecovery, TypeInv, TypeOK
  <2>2. recovery' = i /\ alarm' = AlarmFor(o, due) /\ active' = o /\ Stop(f)
    BY <1>8 DEF ScheduleRecovery
  <2>3. /\ operations' \in [OpId -> Operation]
        /\ fibers' \in [Fiber -> FiberRecord] /\ NamesOperation'
    BY <1>1, <1>3, <2>1, <2>2, OperationSet, StopType
  <2> QED
    BY <1>1, <1>6, <1>7, <2>2, <2>3 DEF TypeInv, TypeOK
<1>9. CASE ~ownsUnexpiredLease(fibers[f], now)
  BY <1>9, StopType DEF ScheduleRecovery, TypeInv, TypeOK
<1> QED
  BY <1>8, <1>9

\* A failed call schedules recovery or settles the operation.
LEMMA CatchType ==
    ASSUME TypeInv, NEW f \in Fiber, Catch(f)
    PROVE  TypeInv'
<1>1. fibers[f].pc \in Working
  BY DEF Catch, Working, Claimed
<1>2. CASE Recoverable(fibers[f])
  BY <1>1, <1>2, ScheduleRecoveryType DEF Catch
<1>3. CASE ~Recoverable(fibers[f]) /\ Settle(f, "failed", FALSE)
  BY <1>1, <1>3, SettleType DEF Catch, Terminal
<1>4. CASE ~Recoverable(fibers[f]) /\ ~Settle(f, "failed", FALSE)
  <2>1. Stop(f) /\ UNCHANGED <<operations, active, recovery, alarm>>
    BY <1>4 DEF Catch, Settle
  <2> QED
    BY <2>1, StopType DEF Catch, TypeInv, TypeOK
<1> QED
  BY <1>2, <1>3, <1>4

\* wake with an idle session starts a call of run.
LEMMA WakeIdleType ==
    ASSUME TypeInv, NEW f \in Fiber, WakeIdle(f)
    PROVE  TypeInv'
<1>1. Head(queue) \in OpId /\ boot \in Nat /\ now \in Nat
  BY BoundsAssumption, HeadTailProperties DEF WakeIdle, TypeInv, TypeOK
<1>2. fibers' = [fibers EXCEPT ![f] = Spawned("run", boot, Head(queue))]
  BY DEF WakeIdle
<1>3. fibers' \in [Fiber -> FiberRecord] /\ NamesOperation'
  BY <1>1, <1>2, SpawnedType, FiberSet
<1> QED
  BY <1>3, CallsOnly DEF WakeIdle, TypeInv, TypeOK

\* The alarm handler starts a call of recover.
LEMMA StartRecoverType ==
    ASSUME TypeInv, NEW f \in Fiber, StartRecover(f)
    PROVE  TypeInv'
<1>1. boot \in Nat /\ now \in Nat
  BY BoundsAssumption DEF TypeInv, TypeOK
<1>2. fibers' = [fibers EXCEPT ![f] = Spawned("recover", boot, None)]
  BY DEF StartRecover
<1>3. fibers' \in [Fiber -> FiberRecord] /\ NamesOperation'
  BY <1>1, <1>2, SpawnedType, FiberSet
<1> QED
  BY <1>3, CallsOnly DEF StartRecover, TypeInv, TypeOK

\* wake with a stale holder writes the interruption, its incident and alarm.
LEMMA WakeInterruptsType ==
    ASSUME TypeInv, NEW b \in LiveBoots, WakeInterrupts(b)
    PROVE  TypeInv'
<1> DEFINE o == operations[active]
           known == Open(recovery) /\ recovery.operation = active
           kind == classifyRecovery(o)
           due == IF known /\ recovery.scheduledAt # Never
                  THEN recovery.scheduledAt ELSE now + AlarmDebounce
           p == [o EXCEPT !.status = "interrupted", !.owner = None, !.lease = Never,
                          !.stream = "interrupted"]
           again == [recovery EXCEPT !.status = "scheduled", !.scheduledAt = due]
           opened == [ operation |-> active, kind |-> kind, status |-> "scheduled",
                       attempt |-> 0, work |-> o.work, oom |-> 0,
                       lastProgress |-> now, scheduledAt |-> due ]
<1>1. active \in OpId /\ o \in Operation /\ recovery \in Incident /\ now \in Nat
  BY BoundsAssumption DEF WakeInterrupts, TypeInv, TypeOK
<1>2. due \in Int
  <2>1. recovery.scheduledAt \in Int
    BY <1>1 DEF Incident
  <2> QED
    BY <1>1, <2>1, LimitsAssumption
<1>3. None \in Nat /\ Never \in Int /\ o.work \in Nat /\ o.generation \in Nat
  BY <1>1 DEF None, Never, Operation
<1>4. p \in Operation
  BY <1>1, <1>3 DEF Operation, Status, StreamStatus
<1>5. kind \in Kind
  BY DEF classifyRecovery, Kind
<1>6. again \in Incident /\ opened \in Incident
  <2> HIDE DEF due, kind, o
  <2> QED
    BY <1>1, <1>2, <1>3, <1>5 DEF Incident
<1>7. AlarmFor(active, due) \in Alarm
  BY <1>1, <1>2, <1>3 DEF AlarmFor, Alarm
<1>8. CASE ~known /\ kind = "terminal-noop"
  BY <1>8 DEF WakeInterrupts, NamesOperation, TypeInv, TypeOK, OpId
<1>9. CASE ~(~known /\ kind = "terminal-noop")
  <2>1. operations' = [operations EXCEPT ![active] = p]
    BY <1>1, <1>9 DEF WakeInterrupts, Interrupted, TypeInv, TypeOK
  <2>2. recovery' \in {again, opened} /\ alarm' = AlarmFor(active, due) /\ UNCHANGED active
    BY <1>9 DEF WakeInterrupts
  <2>3. operations' \in [OpId -> Operation]
    BY <1>1, <1>4, <2>1, OperationSet
  <2> QED
    BY <1>6, <1>7, <2>2, <2>3 DEF WakeInterrupts, NamesOperation, TypeInv, TypeOK, OpId
<1> QED
  BY <1>8, <1>9

\* reconcileTranscriptTerminal names the operation it found proof for.
LEMMA ReconcileReadType ==
    ASSUME TypeInv, NEW f \in Fiber, ReconcileRead(f)
    PROVE  TypeInv'
<1> DEFINE proven == ProvenTerminal(recovery.operation)
           pc == IF proven THEN "reconcile-commit" ELSE "prepare"
           op == IF proven THEN recovery.operation ELSE None
           r == [fibers[f] EXCEPT !.pc = pc, !.op = op, !.since = now]
<1>1. /\ fibers[f] \in FiberRecord /\ now \in Nat
      /\ recovery.operation \in OpId \cup {None}
  BY WorkingType DEF TypeInv, TypeOK, Incident
<1>2. pc \in PC /\ op \in OpId \cup {None} /\ (pc \in Working => op \in OpId)
  BY <1>1 DEF PC, Working, Claimed, ProvenTerminal
<1>3. r \in FiberRecord /\ r.pc = pc /\ r.op = op
  <2> HIDE DEF pc, op
  <2> QED
    BY <1>1, <1>2 DEF FiberRecord
<1>4. fibers' = [fibers EXCEPT ![f] = r]
  BY DEF ReconcileRead
<1>5. fibers' \in [Fiber -> FiberRecord] /\ NamesOperation'
  BY <1>2, <1>3, <1>4, FiberSet
<1> QED
  BY <1>5, CallsOnly DEF ReconcileRead, TypeInv, TypeOK

\* It writes a completed operation and clears the incident.
LEMMA ReconcileCommitType ==
    ASSUME TypeInv, NEW f \in Fiber, ReconcileCommit(f)
    PROVE  TypeInv'
<1> DEFINE o == fibers[f].op
           g == generation + 1
           effects == operations[o].effects + 1
           expires == fibers[f].since + CompletedStreamRetention
           p == [operations[o] EXCEPT
                    !.status = "completed", !.checkpoint = "terminal", !.generation = g,
                    !.owner = None, !.lease = Never, !.effects = effects,
                    !.stream = "completed", !.expires = expires]
<1>1. o \in OpId /\ operations[o] \in Operation /\ g \in Nat /\ fibers[f] \in FiberRecord
  BY WorkingType DEF ReconcileCommit, Working
<1>2. /\ effects \in Nat /\ expires \in Int /\ None \in Nat /\ Never \in Int
  <2>1. fibers[f].since \in Nat /\ operations[o].effects \in Nat
    BY <1>1 DEF FiberRecord, Operation
  <2> QED
    BY <2>1, LimitsAssumption DEF None, Never
<1>3. p \in Operation
  <2> HIDE DEF g, effects, expires
  <2> QED
    BY <1>1, <1>2 DEF Operation, Status, Checkpoint, StreamStatus
<1>4. fibers' \in [Fiber -> FiberRecord] /\ NamesOperation'
  BY StopType DEF ReconcileCommit
<1>5. CASE operations[o].status \notin {"absent", "completed"} /\ LedgerRoom(operations[o], 1)
  <2>1. operations' = [operations EXCEPT ![o] = p]
    BY <1>1, <1>5 DEF ReconcileCommit, TypeInv, TypeOK
  <2>2. operations' \in [OpId -> Operation]
    BY <1>1, <1>3, <2>1, OperationSet
  <2> QED
    BY <1>1, <1>4, <1>5, <2>2, Empties DEF ReconcileCommit, TypeInv, TypeOK
<1>6. CASE ~(operations[o].status \notin {"absent", "completed"} /\ LedgerRoom(operations[o], 1))
  BY <1>4, <1>6 DEF ReconcileCommit, TypeInv, TypeOK
<1> QED
  BY <1>5, <1>6

\* prepareRecovery writes a failed operation when the budget is spent,
LEMMA ExhaustType ==
    ASSUME TypeInv, NEW f \in Fiber, NEW o \in OpId, Exhaust(f, o),
           UNCHANGED <<queue, admitted, transcript, now, boot, faults>>
    PROVE  TypeInv'
<1> DEFINE g == generation + 1
           effects == operations[o].effects + 1
           expires == now + CompletedStreamRetention
           p == [operations[o] EXCEPT
                    !.status = "failed", !.checkpoint = "terminal", !.generation = g,
                    !.owner = None, !.lease = Never, !.effects = effects,
                    !.stream = "failed", !.expires = expires]
           i == [recovery EXCEPT !.status = "exhausted", !.scheduledAt = Never]
<1>1. operations[o] \in Operation /\ g \in Nat /\ expires \in Int /\ recovery \in Incident
  BY WorkingType DEF TypeInv, TypeOK
<1>2. effects \in Nat /\ None \in Nat /\ Never \in Int
  BY <1>1 DEF Operation, None, Never
<1>3. p \in Operation
  <2> HIDE DEF g, effects, expires
  <2> QED
    BY <1>1, <1>2 DEF Operation, Status, Checkpoint, StreamStatus
<1>4. i \in Incident
  BY <1>1, <1>2 DEF Incident
<1>5. fibers' \in [Fiber -> FiberRecord] /\ NamesOperation'
  BY StopType DEF Exhaust
<1>6. CASE LedgerRoom(operations[o], 1)
  <2>1. operations' = [operations EXCEPT ![o] = p]
    BY <1>6 DEF Exhaust, TypeInv, TypeOK
  <2>2. operations' \in [OpId -> Operation]
    BY <1>3, <2>1, OperationSet
  <2> QED
    BY <1>1, <1>4, <1>5, <1>6, <2>2, Empties DEF Exhaust, TypeInv, TypeOK
<1>7. CASE ~LedgerRoom(operations[o], 1)
  BY <1>5, <1>7 DEF Exhaust, TypeInv, TypeOK
<1> QED
  BY <1>6, <1>7

\* a recovering one, with the next attempt, when it is not,
LEMMA AttemptType ==
    ASSUME TypeInv, NEW f \in Fiber, NEW o \in OpId, Attempt(f, o),
           UNCHANGED <<queue, admitted, transcript, now, boot, faults>>
    PROVE  TypeInv'
<1> DEFINE g == generation + 1
           attempt == operations[o].attempt + 1
           spent == recovery.attempt + 1
           continues == recovery.kind = "partial-continuation"
           mode == IF continues THEN "continue" ELSE "fresh"
           parts == IF continues THEN operations[o].text ELSE << >>
           p == [operations[o] EXCEPT
                    !.status = "recovering", !.generation = g, !.attempt = attempt,
                    !.owner = fibers[f].boot, !.lease = now + LeaseDuration, !.stream = "open"]
           i == [recovery EXCEPT !.status = "attempting", !.attempt = spent, !.scheduledAt = Never]
           r == [fibers[f] EXCEPT !.pc = "snapshot", !.op = o, !.generation = g,
                    !.attempt = attempt, !.since = now, !.mode = mode, !.parts = parts]
<1>1. /\ operations[o] \in Operation /\ g \in Nat /\ recovery \in Incident
      /\ fibers[f] \in FiberRecord /\ fibers[f].boot \in Nat
      /\ now \in Nat /\ now + LeaseDuration \in Int
  BY WorkingType DEF TypeInv, TypeOK
<1>2. attempt \in Nat /\ spent \in Nat /\ Never \in Int /\ mode \in {"fresh", "continue"}
  <2>1. operations[o].attempt \in Nat /\ recovery.attempt \in Nat
    BY <1>1 DEF Operation, Incident
  <2> QED
    BY <2>1 DEF Never
<1>3. parts \in Seq(Nat)
  BY <1>1 DEF Operation
<1>4. p \in Operation
  <2> HIDE DEF g, attempt
  <2> QED
    BY <1>1, <1>2 DEF Operation, Status, StreamStatus
<1>5. i \in Incident
  <2> HIDE DEF spent
  <2> QED
    BY <1>1, <1>2 DEF Incident
<1>6. r \in FiberRecord /\ r.op = o
  <2> HIDE DEF g, attempt, mode, parts
  <2> QED
    BY <1>1, <1>2, <1>3 DEF FiberRecord, PC
<1>7. operations' = [operations EXCEPT ![o] = p]
  BY DEF Attempt, TypeInv, TypeOK
<1>8. operations' \in [OpId -> Operation]
  BY <1>4, <1>7, OperationSet
<1>9. Stop(f) \/ fibers' = [fibers EXCEPT ![f] = r]
  BY DEF Attempt
<1>10. fibers' \in [Fiber -> FiberRecord] /\ NamesOperation'
  <2> HIDE DEF r
  <2> QED
    BY <1>6, <1>9, FiberSet, StopType
<1>11. recovery' = i /\ generation' = g /\ active' = o /\ alarm' = NoAlarm
  BY DEF Attempt
<1> QED
  BY <1>1, <1>5, <1>8, <1>10, <1>11, Empties DEF TypeInv, TypeOK

\* or disarms an alarm that does not match, or changes nothing.
LEMMA PrepareRecoveryType ==
    ASSUME TypeInv, NEW f \in Fiber, PrepareRecovery(f)
    PROVE  TypeInv'
<1> DEFINE o == recovery.operation
           i == [recovery EXCEPT !.status = "scheduled", !.scheduledAt = Never]
<1>1. recovery \in Incident /\ (Open(recovery) => o \in OpId)
  BY DEF TypeInv, TypeOK, Incident, Open
<1>2. UNCHANGED <<queue, admitted, transcript, now, boot, faults>>
  BY DEF PrepareRecovery
<1>3. \/ NoRecovery(f) \/ DisarmMismatch(f)
      \/ Open(recovery) /\ (Exhaust(f, o) \/ Attempt(f, o))
  BY DEF PrepareRecovery
<1>4. CASE NoRecovery(f)
  BY <1>2, <1>4, StopType DEF NoRecovery, TypeInv, TypeOK
<1>5. CASE DisarmMismatch(f)
  <2>1. Never \in Int
    BY DEF Never
  <2>2. i \in Incident
    BY <1>1, <2>1 DEF Incident
  <2> QED
    BY <1>2, <1>5, <2>2, StopType, Empties DEF DisarmMismatch, TypeInv, TypeOK
<1>6. CASE Open(recovery) /\ Exhaust(f, o)
  BY <1>1, <1>2, <1>6, ExhaustType
<1>7. CASE Open(recovery) /\ Attempt(f, o)
  BY <1>1, <1>2, <1>7, AttemptType
<1> QED
  BY <1>3, <1>4, <1>5, <1>6, <1>7

\* beginPhaseEffect writes a pending ledger entry.
LEMMA BeginPartialType ==
    ASSUME TypeInv, NEW f \in Fiber, BeginPartial(f)
    PROVE  TypeInv'
<1> DEFINE o == fibers[f].op
           effects == IF operations[o].partial # "none" THEN operations[o].effects
                      ELSE operations[o].effects + 1
           p == [operations[o] EXCEPT !.partial = "pending", !.effects = effects]
<1>1. o \in OpId /\ operations[o] \in Operation
  BY WorkingType DEF BeginPartial, Working, Claimed
<1>2. effects \in Nat
  BY <1>1 DEF Operation
<1>3. p \in Operation
  <2> HIDE DEF effects
  <2> QED
    BY <1>1, <1>2 DEF Operation
<1>4. \/ (Stop(f) \/ Goto(f, "mark")) /\ UNCHANGED operations
      \/ operations' = [operations EXCEPT ![o] = p] /\ Goto(f, "partial-write")
  BY <1>1 DEF BeginPartial, TypeInv, TypeOK
<1>5. operations' \in [OpId -> Operation]
  BY <1>1, <1>3, <1>4, OperationSet DEF TypeInv, TypeOK
<1>6. fibers' \in [Fiber -> FiberRecord] /\ NamesOperation'
  BY <1>1, <1>4, GotoType, StopType DEF PC
<1> QED
  BY <1>5, <1>6, OperationAndCalls DEF BeginPartial

\* persistPartial writes the reconstructed assistant message.
LEMMA WritePartialType ==
    ASSUME TypeInv, NEW f \in Fiber, WritePartial(f)
    PROVE  TypeInv'
<1> DEFINE t == [text |-> fibers[f].parts, saved |-> "partial"]
<1>1. fibers[f].op \in OpId /\ fibers[f] \in FiberRecord
  BY WorkingType DEF WritePartial, Working, Claimed
<1>2. t \in Transcript
  BY <1>1 DEF Transcript, FiberRecord
<1>3. transcript' \in [OpId -> Transcript]
  BY <1>1, <1>2 DEF WritePartial, TypeInv, TypeOK
<1>4. fibers' \in [Fiber -> FiberRecord] /\ NamesOperation'
  BY <1>1, GotoType DEF WritePartial, PC
<1> QED
  BY <1>3, <1>4, CallsOnly DEF WritePartial, TypeInv, TypeOK

\* completePhaseEffect writes the completed entry.
LEMMA CompletePartialType ==
    ASSUME TypeInv, NEW f \in Fiber, CompletePartial(f)
    PROVE  TypeInv'
<1> DEFINE o == fibers[f].op
           p == [operations[o] EXCEPT !.partial = "completed"]
<1>1. o \in OpId /\ operations[o] \in Operation
  BY WorkingType DEF CompletePartial, Working, Claimed
<1>2. p \in Operation
  BY <1>1 DEF Operation
<1>3. \/ Stop(f) /\ UNCHANGED operations
      \/ operations' = [operations EXCEPT ![o] = p] /\ Goto(f, "mark")
  BY <1>1 DEF CompletePartial, TypeInv, TypeOK
<1>4. operations' \in [OpId -> Operation]
  BY <1>1, <1>2, <1>3, OperationSet DEF TypeInv, TypeOK
<1>5. fibers' \in [Fiber -> FiberRecord] /\ NamesOperation'
  BY <1>1, <1>3, GotoType, StopType DEF PC
<1> QED
  BY <1>4, <1>5, OperationAndCalls DEF CompletePartial

\* Retention, the clock and the loss of the isolate.
LEMMA EnvironmentType ==
    ASSUME TypeInv, Cleanup \/ Tick \/ Restart
    PROVE  TypeInv'
<1>1. CASE Cleanup
  <2>1. operations' \in [OpId -> Operation]
    BY <1>1, Empties DEF Cleanup, TypeInv, TypeOK
  <2> QED
    BY <1>1, <2>1 DEF Cleanup, NamesOperation, TypeInv, TypeOK, OpId
<1>2. CASE Tick
  BY <1>2, BoundsAssumption DEF Tick, stored, NamesOperation, TypeInv, TypeOK, OpId
<1>3. CASE Restart
  <2>1. fibers' \in [Fiber -> FiberRecord]
    BY <1>3, Empties DEF Restart, TypeInv, TypeOK
  <2>2. \A f \in Fiber : fibers'[f] \in {fibers[f], Idle}
    BY <1>3 DEF Restart, TypeInv, TypeOK
  <2>3. NamesOperation'
    BY <2>2, Empties DEF NamesOperation, TypeInv, OpId
  <2>4. boot' \in 1..MaxBoots
    BY <1>3, BoundsAssumption DEF Restart, TypeInv, TypeOK
  <2> QED
    BY <1>3, <2>1, <2>3, <2>4 DEF Restart, stored, TypeInv, TypeOK
<1> QED
  BY <1>1, <1>2, <1>3

-----------------------------------------------------------------------------

\* The types are inductive.
LEMMA NextTypeInv == TypeInv /\ [Next]_vars => TypeInv'
<1> SUFFICES ASSUME TypeInv, [Next]_vars PROVE TypeInv'
  OBVIOUS
<1>1. ASSUME NEW s \in Submission, NEW spawn \in AtMostOne, Admit(s, spawn) PROVE TypeInv'
  BY <1>1, AdmitType
<1>2. ASSUME NEW f \in Fiber, Claim(f) \/ PersistRequestSnapshot(f) \/ MarkStreaming(f)
      PROVE  TypeInv'
  BY <1>2, ClaimType, PersistRequestSnapshotType, MarkStreamingType
<1>3. ASSUME NEW f \in Fiber, EmitStarted(f) \/ EmitText(f) \/ EmitTool(f) \/ EmitDone(f)
      PROVE  TypeInv'
  BY <1>3, EmitType
<1>4. ASSUME NEW f \in Fiber, SaveToolRound(f) \/ SaveAnswer(f) PROVE TypeInv'
  BY <1>4, SaveType
<1>5. ASSUME NEW f \in Fiber,
             \/ PermitTimeout(f) \/ Stall(f) \/ Die(f) \/ StorageFails(f)
             \/ \E error \in {"retryable", "oom", "fatal"} : ExecutorFails(f, error)
      PROVE  TypeInv'
  BY <1>5, CallEndsType
<1>6. ASSUME NEW f \in Fiber, SettleCompleted(f) \/ Catch(f) PROVE TypeInv'
  BY <1>6, SettleCompletedType, CatchType
<1>7. ASSUME NEW f \in Fiber, WakeIdle(f) \/ StartRecover(f) PROVE TypeInv'
  BY <1>7, WakeIdleType, StartRecoverType
<1>8. ASSUME NEW f \in Fiber, ReconcileRead(f) \/ ReconcileCommit(f) \/ PrepareRecovery(f)
      PROVE  TypeInv'
  BY <1>8, ReconcileReadType, ReconcileCommitType, PrepareRecoveryType
<1>9. ASSUME NEW f \in Fiber, BeginPartial(f) \/ WritePartial(f) \/ CompletePartial(f)
      PROVE  TypeInv'
  BY <1>9, BeginPartialType, WritePartialType, CompletePartialType
<1>10. ASSUME NEW b \in LiveBoots, WakeInterrupts(b) PROVE TypeInv'
  BY <1>10, WakeInterruptsType
<1>11. CASE Cleanup \/ Tick \/ Restart
  BY <1>11, EnvironmentType
<1>12. CASE UNCHANGED vars
  BY <1>12 DEF vars, stored, TypeInv, TypeOK, NamesOperation, OpId, Working, Claimed
<1> QED
  BY <1>1, <1>2, <1>3, <1>4, <1>5, <1>6, <1>7, <1>8, <1>9, <1>10, <1>11, <1>12 DEF Next

\* Every reachable state of the runtime is well typed: whatever the limits, the
\* submissions and the calls, no transition of durable-execution.ts writes an
\* ill-formed operation, incident, alarm or queue.
THEOREM TypeCorrect == Spec => []TypeOK
<1>1. TypeInv => TypeOK
  BY DEF TypeInv
<1> QED
  BY InitTypeInv, NextTypeInv, <1>1, PTL DEF Spec

-----------------------------------------------------------------------------
(* Fencing: a claim's generation is its own *)

\* Every claim took a generation of its own, none newer than the counter.
OwnGeneration ==
    /\ \A f \in Fiber : fibers[f].generation <= generation
    /\ \A f, g \in Fiber :
           f # g /\ fibers[f].pc \in Claimed /\ fibers[g].pc \in Claimed
           => fibers[f].generation # fibers[g].generation

\* What a step that makes no claim does to a call: it keeps its generation and
\* gains no claim, or it starts over without one.
GainsNothing(f) ==
    \/ /\ fibers'[f].generation = fibers[f].generation
       /\ fibers'[f].pc \in Claimed => fibers[f].pc \in Claimed
    \/ fibers'[f].generation = 0 /\ fibers'[f].pc \notin Claimed

\* A step without a claim leaves every claim its own generation,
LEMMA NoNewClaim ==
    ASSUME TypeInv, TypeInv', OwnGeneration, generation' \in {generation, generation + 1},
           \A f \in Fiber : GainsNothing(f)
    PROVE  OwnGeneration'
<1>1. /\ generation \in Nat /\ generation' \in Nat
      /\ \A f \in Fiber : fibers[f].generation \in Nat
  BY DEF TypeInv, TypeOK, FiberRecord
<1>2. \A f \in Fiber : fibers'[f].generation <= generation'
  BY <1>1 DEF OwnGeneration, GainsNothing
<1>3. \A f \in Fiber : fibers'[f].pc \in Claimed =>
          fibers[f].pc \in Claimed /\ fibers'[f].generation = fibers[f].generation
  BY DEF GainsNothing
<1> QED
  BY <1>2, <1>3 DEF OwnGeneration

\* and so does a claim, which takes the next one.
LEMMA NewClaim ==
    ASSUME TypeInv, OwnGeneration, NEW f \in Fiber, generation' = generation + 1,
           fibers'[f].generation = generation + 1,
           \A g \in Fiber \ {f} : fibers'[g] = fibers[g]
    PROVE  OwnGeneration'
<1>1. /\ generation \in Nat
      /\ \A g \in Fiber : fibers[g].generation \in Nat
  BY DEF TypeInv, TypeOK, FiberRecord
<1>2. \A g \in Fiber : fibers'[g].generation <= generation'
  BY <1>1 DEF OwnGeneration
<1>3. \A g \in Fiber \ {f} : fibers'[g].generation # fibers'[f].generation
  BY <1>1 DEF OwnGeneration
<1> QED
  BY <1>2, <1>3 DEF OwnGeneration

\* A call that ends gains nothing;
LEMMA IdleGainsNothing ==
    ASSUME TypeInv, NEW f \in Fiber, Stop(f)
    PROVE  \A g \in Fiber : GainsNothing(g)
<1>1. Idle.generation = 0 /\ Idle.pc \notin Claimed
  BY DEF Idle, Claimed
<1>2. \A g \in Fiber : fibers'[g] = IF g = f THEN Idle ELSE fibers[g]
  BY DEF Stop, TypeInv, TypeOK
<1> QED
  BY <1>1, <1>2 DEF GainsNothing

\* nor does a call that starts.
LEMMA SpawnedGainsNothing ==
    ASSUME NEW g \in Fiber, NEW kind \in {"run", "recover"}, NEW b, NEW o,
           fibers'[g] \in {fibers[g], Spawned(kind, b, o)}
    PROVE  GainsNothing(g)
<1>1. Spawned(kind, b, o).generation = 0 /\ Spawned(kind, b, o).pc \notin Claimed
  BY DEF Spawned, Idle, Claimed
<1> QED
  BY <1>1 DEF GainsNothing

\* A call that holds a claim moves within its run, under the same generation.
LEMMA MovesGainsNothing ==
    ASSUME TypeInv, NEW f \in Fiber, fibers[f].pc \in Claimed, NEW r,
           r.generation = fibers[f].generation, fibers' = [fibers EXCEPT ![f] = r]
    PROVE  \A g \in Fiber : GainsNothing(g)
<1>1. \A g \in Fiber : fibers'[g] = IF g = f THEN r ELSE fibers[g]
  BY DEF TypeInv, TypeOK
<1> QED
  BY <1>1 DEF GainsNothing

\* A claimed call that moves to its next transaction gains nothing,
LEMMA GotoGainsNothing ==
    ASSUME TypeInv, NEW f \in Fiber, fibers[f].pc \in Claimed, NEW pc, Goto(f, pc)
    PROVE  \A g \in Fiber : GainsNothing(g)
<1> DEFINE r == [fibers[f] EXCEPT !.pc = pc, !.since = now]
<1>1. r.generation = fibers[f].generation
  BY WorkingType DEF FiberRecord
<1>2. fibers' = [fibers EXCEPT ![f] = r]
  BY DEF Goto
<1> QED
  BY <1>1, <1>2, MovesGainsNothing

\* nor does one whose executor fails.
LEMMA FailGainsNothing ==
    ASSUME TypeInv, NEW f \in Fiber, fibers[f].pc \in Claimed, NEW error, Fail(f, error)
    PROVE  \A g \in Fiber : GainsNothing(g)
<1> DEFINE r == [fibers[f] EXCEPT !.pc = "catch", !.error = error, !.since = now]
<1>1. r.generation = fibers[f].generation
  BY WorkingType DEF FiberRecord
<1>2. fibers' = [fibers EXCEPT ![f] = r]
  BY DEF Fail
<1> QED
  BY <1>1, <1>2, MovesGainsNothing

\* The transitions of a call up to and during the stream.
LEMMA StreamGainsNothing ==
    ASSUME TypeInv, NEW f \in Fiber,
           \/ MarkStreaming(f)
           \/ EmitStarted(f) \/ EmitText(f) \/ EmitTool(f) \/ EmitDone(f)
           \/ SaveToolRound(f) \/ SaveAnswer(f)
    PROVE  generation' = generation /\ \A g \in Fiber : GainsNothing(g)
<1>1. fibers[f].pc \in Claimed /\ fibers[f] \in FiberRecord
  BY WorkingType DEF MarkStreaming, EmitStarted, EmitText, EmitTool, EmitDone, Streaming,
     SaveToolRound, SaveAnswer, SaveResponse, Claimed
<1>2. generation' = generation
  BY DEF MarkStreaming, EmitStarted, EmitText, EmitTool, EmitDone, EventUnchanged,
     SaveToolRound, SaveAnswer, stored
<1>3. ASSUME NEW text, NEW tool, NEW r, AppendEvent(f, text, tool, r),
             r.generation = fibers[f].generation
      PROVE  \A g \in Fiber : GainsNothing(g)
  <2>1. fibers' = [fibers EXCEPT ![f] = r] \/ Fail(f, "fatal")
    BY <1>3 DEF AppendEvent
  <2> QED
    BY <1>1, <1>3, <2>1, MovesGainsNothing, FailGainsNothing
<1>4. CASE MarkStreaming(f)
  <2> DEFINE r == [fibers[f] EXCEPT !.pc = "stream", !.since = now, !.parts = << >>,
                       !.step = IF fibers[f].mode = "continue" THEN "body" ELSE "begin",
                       !.base = IF fibers[f].mode = "continue"
                                THEN Len(transcript[fibers[f].op].text) ELSE 0]
  <2>1. r.generation = fibers[f].generation
    BY <1>1 DEF FiberRecord
  <2>2. fibers' = [fibers EXCEPT ![f] = r] \/ Stop(f)
    BY <1>4 DEF MarkStreaming
  <2> HIDE DEF r
  <2> QED
    BY <1>2, <1>1, <2>1, <2>2, MovesGainsNothing, IdleGainsNothing
<1>5. CASE EmitStarted(f)
  <2> DEFINE r == [fibers[f] EXCEPT !.step = "body", !.since = now]
  <2>1. r.generation = fibers[f].generation /\ AppendEvent(f, << >>, FALSE, r)
    BY <1>1, <1>5 DEF FiberRecord, EmitStarted
  <2> QED
    BY <1>2, <1>3, <2>1
<1>6. CASE EmitText(f)
  <2> DEFINE part == fibers[f].base + Len(fibers[f].parts) + 1
             r == [fibers[f] EXCEPT !.parts = Append(@, part), !.since = now]
  <2>1. r.generation = fibers[f].generation
    BY <1>1 DEF FiberRecord
  <2>2. AppendEvent(f, <<part>>, FALSE, r)
    BY <1>6 DEF EmitText
  <2> QED
    BY <1>2, <1>3, <2>1, <2>2
<1>7. CASE EmitTool(f)
  <2> DEFINE r == [fibers[f] EXCEPT !.since = now]
  <2>1. r.generation = fibers[f].generation /\ AppendEvent(f, << >>, TRUE, r)
    BY <1>1, <1>7 DEF FiberRecord, EmitTool
  <2> QED
    BY <1>2, <1>3, <2>1
<1>8. CASE EmitDone(f)
  <2> DEFINE r == [fibers[f] EXCEPT !.step = "ended", !.since = now]
  <2>1. r.generation = fibers[f].generation /\ AppendEvent(f, << >>, FALSE, r)
    BY <1>1, <1>8 DEF FiberRecord, EmitDone
  <2> QED
    BY <1>2, <1>3, <2>1
<1>9. CASE SaveToolRound(f)
  <2> DEFINE r == [fibers[f] EXCEPT !.base = @ + Len(fibers[f].parts), !.parts = << >>]
  <2>1. r.generation = fibers[f].generation
    BY <1>1 DEF FiberRecord
  <2>2. fibers' = [fibers EXCEPT ![f] = r]
    BY <1>9 DEF SaveToolRound
  <2> QED
    BY <1>2, <1>1, <2>1, <2>2, MovesGainsNothing
<1>10. CASE SaveAnswer(f)
  <2> DEFINE r == [fibers[f] EXCEPT !.step = "saved"]
  <2>1. r.generation = fibers[f].generation
    BY <1>1 DEF FiberRecord
  <2>2. fibers' = [fibers EXCEPT ![f] = r]
    BY <1>10 DEF SaveAnswer
  <2> QED
    BY <1>2, <1>1, <2>1, <2>2, MovesGainsNothing
<1> QED
  BY <1>2, <1>4, <1>5, <1>6, <1>7, <1>8, <1>9, <1>10

\* The transitions that move a call on, end it or fail it, and its start.
LEMMA CallGainsNothing ==
    ASSUME TypeInv, NEW f \in Fiber,
           \/ PersistRequestSnapshot(f) \/ BeginPartial(f) \/ WritePartial(f) \/ CompletePartial(f)
           \/ PermitTimeout(f) \/ Stall(f) \/ Die(f) \/ StorageFails(f)
           \/ \E error \in {"retryable", "oom", "fatal"} : ExecutorFails(f, error)
           \/ SettleCompleted(f) \/ Catch(f)
    PROVE  generation' = generation /\ \A g \in Fiber : GainsNothing(g)
<1>1. generation' = generation
  BY DEF PersistRequestSnapshot, BeginPartial, WritePartial, CompletePartial, PermitTimeout,
     Stall, Die, StorageFails, ExecutorFails, SettleCompleted, Catch, stored
<1>2. \/ Stop(f)
      \/ /\ fibers[f].pc \in Claimed
         /\ \/ \E pc \in PC : Goto(f, pc)
            \/ \E error \in {"stall", "retryable", "oom", "fatal"} : Fail(f, error)
  <2>1. CASE PersistRequestSnapshot(f) \/ BeginPartial(f) \/ WritePartial(f) \/ CompletePartial(f)
    BY <2>1 DEF PersistRequestSnapshot, BeginPartial, WritePartial, CompletePartial, Claimed, PC
  <2>2. CASE \/ PermitTimeout(f) \/ Stall(f) \/ Die(f) \/ StorageFails(f)
             \/ \E error \in {"retryable", "oom", "fatal"} : ExecutorFails(f, error)
    BY <2>2 DEF PermitTimeout, Stall, Die, StorageFails, ExecutorFails, Streaming, Claimed
  <2>3. CASE SettleCompleted(f) \/ Catch(f)
    BY <2>3 DEF SettleCompleted, Catch, Settle, ScheduleRecovery, Claimed
  <2> QED
    BY <2>1, <2>2, <2>3
<1>3. ASSUME NEW pc \in PC, fibers[f].pc \in Claimed, Goto(f, pc)
      PROVE  \A g \in Fiber : GainsNothing(g)
  BY <1>3, GotoGainsNothing
<1>4. ASSUME NEW error \in {"stall", "retryable", "oom", "fatal"}, fibers[f].pc \in Claimed,
             Fail(f, error)
      PROVE  \A g \in Fiber : GainsNothing(g)
  BY <1>4, FailGainsNothing
<1>5. CASE Stop(f)
  BY <1>1, <1>5, IdleGainsNothing
<1>6. CASE fibers[f].pc \in Claimed /\ \E pc \in PC : Goto(f, pc)
  <2>1. PICK pc \in PC : Goto(f, pc)
    BY <1>6
  <2> QED
    BY <1>1, <1>3, <1>6, <2>1
<1>7. CASE /\ fibers[f].pc \in Claimed
           /\ \E error \in {"stall", "retryable", "oom", "fatal"} : Fail(f, error)
  <2>1. PICK error \in {"stall", "retryable", "oom", "fatal"} : Fail(f, error)
    BY <1>7
  <2> QED
    BY <1>1, <1>4, <1>7, <2>1
<1> QED
  BY <1>2, <1>5, <1>6, <1>7

\* Claims keep their generations to themselves.
LEMMA NextOwnGeneration == TypeInv /\ OwnGeneration /\ [Next]_vars => OwnGeneration'
<1> SUFFICES ASSUME TypeInv, OwnGeneration, [Next]_vars PROVE OwnGeneration'
  OBVIOUS
<1>0. TypeInv'
  BY NextTypeInv
<1>1. ASSUME NEW s \in Submission, NEW spawn \in AtMostOne, Admit(s, spawn) PROVE OwnGeneration'
  <2>1. /\ generation' = generation
        /\ \A g \in Fiber : fibers'[g] \in {fibers[g], Spawned("run", boot, admitted + 1)}
    BY <1>1 DEF Admit
  <2>2. \A g \in Fiber : GainsNothing(g)
    BY <2>1, SpawnedGainsNothing
  <2> QED
    BY <1>0, <2>1, <2>2, NoNewClaim
<1>2. ASSUME NEW f \in Fiber, Claim(f) PROVE OwnGeneration'
  <2>1. CASE Claimable(fibers[f].op)
    <3>1. generation' = generation + 1 /\ fibers'[f].generation = generation + 1
      BY <1>2, <2>1, WorkingType DEF Claim, TypeInv, TypeOK, FiberRecord
    <3>2. \A g \in Fiber \ {f} : fibers'[g] = fibers[g]
      BY <1>2, <2>1 DEF Claim, TypeInv, TypeOK
    <3> QED
      BY <3>1, <3>2, NewClaim
  <2>2. CASE ~Claimable(fibers[f].op)
    <3>1. Stop(f) /\ generation' = generation
      BY <1>2, <2>2 DEF Claim
    <3> QED
      BY <1>0, <3>1, IdleGainsNothing, NoNewClaim
  <2> QED
    BY <2>1, <2>2
<1>3. ASSUME NEW f \in Fiber,
             \/ MarkStreaming(f)
             \/ EmitStarted(f) \/ EmitText(f) \/ EmitTool(f) \/ EmitDone(f)
             \/ SaveToolRound(f) \/ SaveAnswer(f)
      PROVE  OwnGeneration'
  BY <1>0, <1>3, StreamGainsNothing, NoNewClaim
<1>4. ASSUME NEW f \in Fiber,
             \/ PersistRequestSnapshot(f) \/ BeginPartial(f) \/ WritePartial(f) \/ CompletePartial(f)
             \/ PermitTimeout(f) \/ Stall(f) \/ Die(f) \/ StorageFails(f)
             \/ \E error \in {"retryable", "oom", "fatal"} : ExecutorFails(f, error)
             \/ SettleCompleted(f) \/ Catch(f)
      PROVE  OwnGeneration'
  BY <1>0, <1>4, CallGainsNothing, NoNewClaim
<1>5. ASSUME NEW f \in Fiber, WakeIdle(f) \/ StartRecover(f) PROVE OwnGeneration'
  <2>1. generation' = generation
    BY <1>5 DEF WakeIdle, StartRecover, stored
  <2>2. CASE WakeIdle(f)
    <3>1. \A g \in Fiber : fibers'[g] \in {fibers[g], Spawned("run", boot, Head(queue))}
      BY <2>2 DEF WakeIdle, TypeInv, TypeOK
    <3>2. \A g \in Fiber : GainsNothing(g)
      BY <3>1, SpawnedGainsNothing
    <3> QED
      BY <1>0, <2>1, <3>2, NoNewClaim
  <2>3. CASE StartRecover(f)
    <3>1. \A g \in Fiber : fibers'[g] \in {fibers[g], Spawned("recover", boot, None)}
      BY <2>3 DEF StartRecover, TypeInv, TypeOK
    <3>2. \A g \in Fiber : GainsNothing(g)
      BY <3>1, SpawnedGainsNothing
    <3> QED
      BY <1>0, <2>1, <3>2, NoNewClaim
  <2> QED
    BY <1>5, <2>2, <2>3
<1>6. ASSUME NEW f \in Fiber, ReconcileRead(f) PROVE OwnGeneration'
  <2> DEFINE proven == ProvenTerminal(recovery.operation)
             r == [fibers[f] EXCEPT
                      !.pc = IF proven THEN "reconcile-commit" ELSE "prepare",
                      !.op = IF proven THEN recovery.operation ELSE None, !.since = now]
  <2>1. r.generation = fibers[f].generation /\ r.pc \notin Claimed
    BY WorkingType DEF FiberRecord, Claimed
  <2>2. fibers' = [fibers EXCEPT ![f] = r]
    BY <1>6 DEF ReconcileRead
  <2>3. \A g \in Fiber : fibers'[g] = IF g = f THEN r ELSE fibers[g]
    BY <2>2 DEF TypeInv, TypeOK
  <2>4. \A g \in Fiber : GainsNothing(g)
    <3> HIDE DEF r
    <3> QED
      BY <2>1, <2>3 DEF GainsNothing
  <2> QED
    BY <1>0, <1>6, <2>4, NoNewClaim DEF ReconcileRead, stored
<1>7. ASSUME NEW f \in Fiber, ReconcileCommit(f) PROVE OwnGeneration'
  <2>1. Stop(f) /\ generation' \in {generation, generation + 1}
    BY <1>7 DEF ReconcileCommit
  <2> QED
    BY <1>0, <2>1, IdleGainsNothing, NoNewClaim
<1>8. ASSUME NEW f \in Fiber, PrepareRecovery(f) PROVE OwnGeneration'
  <2>1. \/ Stop(f) /\ generation' \in {generation, generation + 1}
        \/ Attempt(f, recovery.operation) /\ ~Stop(f)
    BY <1>8 DEF PrepareRecovery, NoRecovery, DisarmMismatch, Exhaust, Attempt
  <2>2. CASE Stop(f) /\ generation' \in {generation, generation + 1}
    BY <1>0, <2>2, IdleGainsNothing, NoNewClaim
  <2>3. CASE Attempt(f, recovery.operation) /\ ~Stop(f)
    <3>1. generation' = generation + 1 /\ fibers'[f].generation = generation + 1
      BY <2>3, WorkingType DEF Attempt, TypeInv, TypeOK, FiberRecord
    <3>2. \A g \in Fiber \ {f} : fibers'[g] = fibers[g]
      BY <2>3 DEF Attempt, TypeInv, TypeOK
    <3> QED
      BY <3>1, <3>2, NewClaim
  <2> QED
    BY <2>1, <2>2, <2>3
<1>9. CASE \/ \E b \in LiveBoots : WakeInterrupts(b)
           \/ Cleanup \/ Tick \/ UNCHANGED vars
  <2>1. generation' = generation /\ fibers' = fibers
    BY <1>9 DEF WakeInterrupts, Cleanup, Tick, stored, vars
  <2> QED
    BY <2>1 DEF OwnGeneration
<1>10. CASE Restart
  <2>1. \A g \in Fiber : fibers'[g] \in {fibers[g], Idle}
    BY <1>10 DEF Restart, TypeInv, TypeOK
  <2>2. \A g \in Fiber : GainsNothing(g)
    BY <2>1 DEF GainsNothing, Idle, Claimed
  <2> QED
    BY <1>0, <1>10, <2>2, NoNewClaim DEF Restart, stored
<1> QED
  BY <1>1, <1>2, <1>3, <1>4, <1>5, <1>6, <1>7, <1>8, <1>9, <1>10 DEF Next

\* At most one call passes the fence of an operation, in every reachable state,
\* even while the calls of a replaced isolate go on beside those of the next:
\* ownsUnexpiredLease compares generations, and no two claims share one.
THEOREM FenceExcludes == Spec => []SingleWriter
<1>1. Init => OwnGeneration
  <2> SUFFICES ASSUME Init PROVE OwnGeneration
    OBVIOUS
  <2>1. Idle.generation = 0 /\ Idle.pc \notin Claimed
    BY DEF Idle, Claimed
  <2> QED
    BY <2>1 DEF Init, OwnGeneration
<1>2. OwnGeneration => SingleWriter
  BY DEF OwnGeneration, SingleWriter, MayWrite, ownsUnexpiredLease, FencedPC, Claimed
<1> QED
  BY InitTypeInv, NextTypeInv, NextOwnGeneration, <1>1, <1>2, PTL DEF Spec
===============================================================================
