--------------------------- MODULE DurableExecution ---------------------------
(***************************************************************************)
(* The durable turn runtime of one chat session                            *)
(* (packages/agent-runtime/src/durable-execution.ts).                      *)
(*                                                                         *)
(* The runtime state lives in the storage of one Durable Object.  Every    *)
(* change of it is one `store.transact`, so one action here; what happens  *)
(* between two transactions of a fiber (an await, a model event, a crash)  *)
(* is the interleaving the module explores.  A stream belongs to exactly   *)
(* one operation (`admit` creates both, `cleanup` drops both), so its       *)
(* record is kept in the operation's; of its log the transitions read how  *)
(* many events it holds, their text deltas, and whether a tool was called. *)
(*                                                                         *)
(* Every limit of RuntimeLimits the transitions read is a CONSTANT under   *)
(* its own name.  The remaining constants bound the exploration.           *)
(***************************************************************************)
EXTENDS Integers, Sequences, FiniteSets

CONSTANTS
    Submission,                 \* client submission ids
    Fiber,                      \* slots for the calls of run and recover
    MaxQueuedTurns, MaxEventsPerStream, MaxRetainedStreams, MaxPhaseEffects,
    MaxRecoveryAttempts, MaxRecoveryWork, MaxOomStrikes,
    LeaseDuration, AlarmDebounce, StallTimeout, NoProgressTimeout,
    StableStateTimeout, CompletedStreamRetention,
    ToolsEnabled,               \* the model may call a tool in a fresh turn
    OverlappingIsolates,        \* a replaced isolate may go on running
    MaxOperations, MaxTime, MaxBoots, MaxFaults          \* exploration bounds

ASSUME BoundsAssumption ==
    /\ MaxOperations \in Nat
    /\ MaxTime \in Nat
    /\ MaxBoots \in Nat \ {0}
    /\ MaxFaults \in Nat

ASSUME LimitsAssumption ==
    /\ MaxQueuedTurns \in Nat
    /\ MaxEventsPerStream \in Nat
    /\ MaxRetainedStreams \in Nat
    /\ MaxPhaseEffects \in Nat
    /\ MaxRecoveryAttempts \in Nat
    /\ MaxRecoveryWork \in Nat
    /\ MaxOomStrikes \in Nat
    /\ LeaseDuration \in Nat
    /\ AlarmDebounce \in Nat
    /\ StallTimeout \in Nat
    /\ NoProgressTimeout \in Nat
    /\ StableStateTimeout \in Nat
    /\ CompletedStreamRetention \in Nat

ASSUME ModesAssumption == ToolsEnabled \in BOOLEAN /\ OverlappingIsolates \in BOOLEAN

VARIABLES
    operations,   \* operation and stream records, by id in order of admission
    queue,        \* ids waiting for the session, oldest first
    active,       \* the id holding the session, None if there is none
    recovery,     \* the recovery incident
    alarm,        \* the persisted recovery alarm
    generation,   \* fencing counter of the session
    admitted,     \* ids minted so far
    transcript,   \* assistant message of each operation, in the session store
    fibers,       \* calls of run and recover in flight
    now, boot, faults

stored == <<operations, queue, active, recovery, alarm, generation>>
vars == <<stored, admitted, transcript, fibers, now, boot, faults>>

OpId == 1..MaxOperations
None == 0                       \* no operation, or no owner
Never == -1                     \* a null instant

Status == {"absent", "queued", "running", "recovering", "interrupted", "completed", "failed"}
Checkpoint == {"admitted", "preparing", "streaming", "partial-persisted", "terminal"}
StreamStatus == {"open", "interrupted", "completed", "failed"}
Kind == {"pre-stream-retry", "partial-continuation", "terminal-noop", "unrecoverable"}
Terminal == {"completed", "failed"}

Operation == [
    submission : Submission \cup {None},
    status : Status,
    checkpoint : Checkpoint,
    generation : Nat,
    attempt : Nat,
    work : Nat,                                     \* recoveryWork
    owner : Nat,                                    \* ownerBootId
    lease : Int,                                    \* leaseExpiresAt
    effects : Nat,                                  \* entries of effectLedger
    partial : {"none", "pending", "completed"},     \* its transcript-partial:0
    stream : StreamStatus,
    events : Nat,                                   \* latestSequence + 1
    text : Seq(Nat),                                \* parts of the answer, by delta
    tool : BOOLEAN,                                 \* a ToolCall event is in the log
    expires : Int ]                                 \* stream.expiresAt

AbsentOperation == [
    submission |-> None, status |-> "absent", checkpoint |-> "admitted",
    generation |-> 0, attempt |-> 0, work |-> 0, owner |-> None, lease |-> Never,
    effects |-> 0, partial |-> "none", stream |-> "open", events |-> 0,
    text |-> << >>, tool |-> FALSE, expires |-> Never ]

Incident == [
    operation : OpId \cup {None},
    kind : Kind,
    status : {"scheduled", "attempting", "exhausted"},
    attempt : Nat, work : Nat, oom : Nat,
    lastProgress : Nat, scheduledAt : Int ]

NoIncident == [
    operation |-> None, kind |-> "terminal-noop", status |-> "exhausted",
    attempt |-> 0, work |-> 0, oom |-> 0, lastProgress |-> 0, scheduledAt |-> Never ]

Alarm == [operation : OpId \cup {None}, generation : Nat, scheduledAt : Int]

NoAlarm == [operation |-> None, generation |-> 0, scheduledAt |-> Never]

Transcript == [text : Seq(Nat), saved : {"none", "partial", "final"}]

Idle == [
    pc |-> "idle", kind |-> "run", boot |-> 0, op |-> None, generation |-> 0,
    attempt |-> 0, mode |-> "fresh", since |-> 0, step |-> "begin",
    base |-> 0, parts |-> << >>, error |-> "none" ]

PC == {"idle", "claim", "snapshot", "reconcile", "reconcile-commit", "prepare",
       "partial-begin", "partial-write", "partial-complete", "mark", "stream", "catch"}

FiberRecord == [
    pc : PC,
    kind : {"run", "recover"},
    boot : Nat,                                     \* isolate it runs in
    op : OpId \cup {None}, generation : Nat, attempt : Nat,
    mode : {"fresh", "continue"},
    since : Nat,                                    \* instant of its last step
    step : {"begin", "body", "saved", "ended"},     \* progress of the executor
    base : Nat, parts : Seq(Nat),                   \* answer before, and in, this response
    error : {"none", "stall", "retryable", "oom", "fatal"} ]

-----------------------------------------------------------------------------
(* State functions *)

classifyRecovery(o) ==
    IF o.status \in Terminal \/ o.stream \in Terminal THEN "terminal-noop"
    ELSE IF o.events = 0 THEN "pre-stream-retry"
    ELSE IF o.checkpoint \in {"streaming", "partial-persisted"} THEN "partial-continuation"
    ELSE "unrecoverable"

\* Mutant of ownsUnexpiredLease: any unexpired lease will do.
someUnexpiredLease(r, t) ==
    /\ operations[r.op].status # "absent"
    /\ operations[r.op].owner # None
    /\ operations[r.op].lease > t

\* The generation and lease check in front of every fenced transition, at the
\* instant t the transition read the clock.
ownsUnexpiredLease(r, t) ==
    /\ operations[r.op].status # "absent"
    /\ operations[r.op].generation = r.generation
    /\ operations[r.op].owner # None
    /\ operations[r.op].owner = r.boot
    /\ operations[r.op].lease > t

\* upsertPhaseEffect of a key the ledger does not hold yet needs a free entry.
LedgerRoom(o, entries) == o.effects + entries <= MaxPhaseEffects

\* queue.filter(id # o).  A claimed id stands at the head, or is active and so
\* no longer queued; ids are queued once.
Dequeue(q, o) == IF q # << >> /\ Head(q) = o THEN Tail(q) ELSE q

Holding == PC \ {"idle", "claim", "reconcile"}

\* Mutant of PermitFree: the permit is released before the stream ends.
PermitFreeAlways(b) == b \in Nat

\* turnSemaphore is free: one permit per isolate, held to the end of the call.
PermitFree(b) == \A g \in Fiber : fibers[g].boot = b => fibers[g].pc \notin Holding

\* The isolates a call may still be running in.
LiveBoots == IF OverlappingIsolates THEN 1..boot ELSE {boot}

\* Mutant of AlarmFor: the alarm forgets the debounced instant of the incident.
AlarmForNow(o, t) ==
    [operation |-> o, generation |-> operations[o].generation, scheduledAt |-> now]

\* The Recover alarm of operation o, due at t.
AlarmFor(o, t) ==
    [operation |-> o, generation |-> operations[o].generation, scheduledAt |-> t]

Stop(f) == fibers' = [fibers EXCEPT ![f] = Idle]

Goto(f, pc) == fibers' = [fibers EXCEPT ![f].pc = pc, ![f].since = now]

Spawned(kind, b, o) ==
    [Idle EXCEPT !.pc = IF kind = "run" THEN "claim" ELSE "reconcile",
                 !.kind = kind, !.boot = b, !.op = o, !.since = now]

-----------------------------------------------------------------------------
Init ==
    /\ operations = [o \in OpId |-> AbsentOperation]
    /\ queue = << >>
    /\ active = None
    /\ recovery = NoIncident
    /\ alarm = NoAlarm
    /\ generation = 0
    /\ admitted = 0
    /\ transcript = [o \in OpId |-> [text |-> << >>, saved |-> "none"]]
    /\ fibers = [f \in Fiber |-> Idle]
    /\ now = 0
    /\ boot = 1
    /\ faults = 0

-----------------------------------------------------------------------------
(* Admission *)

Retains(s) == \E o \in OpId : operations[o].status # "absent" /\ operations[o].submission = s

\* admit: append a queued operation with its stream; its two ledger entries are
\* the request snapshot and the admission itself.  A known submission and a
\* full queue change nothing, so they are not actions.  The caller then runs
\* the operation, unless the call ended in between (spawn is empty).
Admit(s, spawn) ==
    LET o == admitted + 1 IN
    /\ o \in OpId
    /\ ~Retains(s)
    /\ Len(queue) < MaxQueuedTurns
    /\ admitted' = o
    /\ operations' = [operations EXCEPT ![o] =
           [AbsentOperation EXCEPT !.submission = s, !.status = "queued", !.effects = 2]]
    /\ queue' = Append(queue, o)
    /\ \A f \in spawn : fibers[f].pc = "idle"
    /\ fibers' = [f \in Fiber |-> IF f \in spawn THEN Spawned("run", boot, o) ELSE fibers[f]]
    /\ UNCHANGED <<active, recovery, alarm, generation, transcript, now, boot, faults>>

-----------------------------------------------------------------------------
(* run: permit, claim, request snapshot, inference *)

\* The semaphore did not come free within the stable-state timeout.
PermitTimeout(f) ==
    /\ fibers[f].pc \in {"claim", "reconcile"}
    /\ ~PermitFree(fibers[f].boot)
    /\ now - fibers[f].since >= StableStateTimeout
    /\ Stop(f)
    /\ UNCHANGED <<stored, admitted, transcript, now, boot, faults>>

\* Mutants of Claimable: without the FIFO check; without the session check.
ClaimableAnywhere(o) ==
    /\ operations[o].status \notin {"absent"} \cup Terminal
    /\ active \in {None, o}

ClaimableWhileActive(o) ==
    /\ operations[o].status \notin {"absent"} \cup Terminal
    /\ active \in {None, o} \/ (queue # << >> /\ Head(queue) = o)
    /\ active = None => queue # << >> /\ Head(queue) = o

\* claim's checks in mode fresh: present, not terminal, no other operation
\* active, and the FIFO head unless it is active already.
Claimable(o) ==
    /\ operations[o].status \notin {"absent"} \cup Terminal
    /\ active \in {None, o}
    /\ active = None => queue # << >> /\ Head(queue) = o

\* takeTurnPermit and claim in mode fresh: a new generation owned by this
\* isolate.  Refused, or terminal and replayed, the call ends here.
Claim(f) ==
    LET r == fibers[f]
        o == r.op
        g == generation + 1
    IN
    /\ r.pc = "claim"
    /\ PermitFree(r.boot)
    /\ IF Claimable(o)
       THEN /\ generation' = g
            /\ operations' = [operations EXCEPT
                   ![o].status = "running", ![o].checkpoint = "preparing",
                   ![o].generation = g, ![o].owner = r.boot,
                   ![o].lease = now + LeaseDuration]
            /\ queue' = Dequeue(queue, o)
            /\ active' = o
            /\ fibers' = [fibers EXCEPT
                   ![f].pc = "snapshot", ![f].generation = g,
                   ![f].attempt = operations[o].attempt, ![f].since = now]
       ELSE /\ Stop(f)
            /\ UNCHANGED <<operations, queue, active, generation>>
    /\ UNCHANGED <<recovery, alarm, admitted, transcript, now, boot, faults>>

\* persistRequestSnapshot: the clock is read before the request is captured, so
\* the lease is checked at an instant t that may be past when the state changes.
PersistRequestSnapshot(f) ==
    LET r == fibers[f]
        next == IF r.mode = "continue" THEN "partial-begin" ELSE "mark"
    IN
    /\ r.pc = "snapshot"
    /\ \E t \in r.since..now :
           IF ownsUnexpiredLease(r, t) /\ LedgerRoom(operations[r.op], 1)
           THEN /\ operations' = [operations EXCEPT
                       ![r.op].checkpoint = "preparing", ![r.op].effects = @ + 1]
                /\ Goto(f, next)
           ELSE Stop(f) /\ UNCHANGED operations
    /\ UNCHANGED <<queue, active, recovery, alarm, generation, admitted, transcript, now, boot, faults>>

\* markStreaming renews the lease; the executor then loads the session, and a
\* continuation goes on from the assistant message it finds there.
MarkStreaming(f) ==
    LET r == fibers[f] IN
    /\ r.pc = "mark"
    /\ IF ownsUnexpiredLease(r, now) /\ LedgerRoom(operations[r.op], 1)
       THEN /\ operations' = [operations EXCEPT
                   ![r.op].status = "running", ![r.op].checkpoint = "streaming",
                   ![r.op].lease = now + LeaseDuration, ![r.op].effects = @ + 1]
            /\ fibers' = [fibers EXCEPT
                   ![f].pc = "stream", ![f].since = now, ![f].parts = << >>,
                   ![f].step = IF r.mode = "continue" THEN "body" ELSE "begin",
                   ![f].base = IF r.mode = "continue"
                               THEN Len(transcript[r.op].text) ELSE 0]
       ELSE Stop(f) /\ UNCHANGED operations
    /\ UNCHANGED <<queue, active, recovery, alarm, generation, admitted, transcript, now, boot, faults>>

-----------------------------------------------------------------------------
(* The executor's events and their append *)

Fail(f, error) ==
    fibers' = [fibers EXCEPT ![f].pc = "catch", ![f].error = error, ![f].since = now]

Capped(o) ==
    \/ o.events >= MaxEventsPerStream
    \/ o.attempt > 0 /\ o.work >= MaxRecoveryWork

\* append of an event that adds `text` and a tool call or none to the log, then
\* the fiber as `advanced`; a refused append fails the stream.
AppendEvent(f, text, tool, advanced) ==
    LET r == fibers[f]
        o == operations[r.op]
        work == IF o.attempt > 0 THEN o.work + 1 ELSE o.work
    IN  IF ownsUnexpiredLease(r, now) /\ ~Capped(o)
        THEN /\ operations' = [operations EXCEPT
                    ![r.op].status = "running", ![r.op].checkpoint = "streaming",
                    ![r.op].work = work, ![r.op].lease = now + LeaseDuration,
                    ![r.op].stream = "open", ![r.op].expires = Never,
                    ![r.op].events = @ + 1, ![r.op].text = @ \o text,
                    ![r.op].tool = @ \/ tool]
             /\ recovery' = IF recovery.operation = None THEN recovery
                            ELSE [recovery EXCEPT !.lastProgress = now, !.work = work]
             /\ fibers' = [fibers EXCEPT ![f] = advanced]
        ELSE Fail(f, "fatal") /\ UNCHANGED <<operations, recovery>>

Streaming(f, steps) ==
    /\ fibers[f].pc = "stream"
    /\ fibers[f].step \in steps
    /\ now - fibers[f].since <= StallTimeout

EventUnchanged == UNCHANGED <<queue, active, alarm, generation, admitted, transcript, now, boot, faults>>

\* TurnStarted, a text delta, a tool call or its result, TurnCompleted.
EmitStarted(f) ==
    /\ Streaming(f, {"begin"})
    /\ AppendEvent(f, << >>, FALSE, [fibers[f] EXCEPT !.step = "body", !.since = now])
    /\ EventUnchanged

EmitText(f) ==
    LET part == fibers[f].base + Len(fibers[f].parts) + 1 IN
    /\ Streaming(f, {"body"})
    /\ AppendEvent(f, <<part>>, FALSE,
                   [fibers[f] EXCEPT !.parts = Append(@, part), !.since = now])
    /\ EventUnchanged

EmitTool(f) ==
    /\ ToolsEnabled
    /\ fibers[f].mode = "fresh"
    /\ Streaming(f, {"body"})
    /\ AppendEvent(f, << >>, TRUE, [fibers[f] EXCEPT !.since = now])
    /\ EventUnchanged

EmitDone(f) ==
    /\ Streaming(f, {"saved"})
    /\ AppendEvent(f, << >>, FALSE, [fibers[f] EXCEPT !.step = "ended", !.since = now])
    /\ EventUnchanged

\* persistResponse: what the model said in this response joins the assistant
\* message.  After a tool call the turn goes on with another response; the
\* first, required, tool call is saved before its event is offered.
SaveResponse(f, saved) ==
    LET r == fibers[f] IN
    /\ Streaming(f, {"body"})
    /\ transcript' = [transcript EXCEPT
           ![r.op] = [text |-> @.text \o r.parts, saved |-> saved]]

SaveToolRound(f) ==
    /\ ToolsEnabled
    /\ fibers[f].mode = "fresh"
    /\ SaveResponse(f, "partial")
    /\ fibers' = [fibers EXCEPT ![f].base = @ + Len(fibers[f].parts), ![f].parts = << >>]
    /\ UNCHANGED <<stored, admitted, now, boot, faults>>

SaveAnswer(f) ==
    /\ fibers[f].parts # << >>
    /\ SaveResponse(f, "final")
    /\ fibers' = [fibers EXCEPT ![f].step = "saved"]
    /\ UNCHANGED <<stored, admitted, now, boot, faults>>

\* The model, a tool or the session store fails.
ExecutorFails(f, error) ==
    /\ Streaming(f, {"begin", "body"})
    /\ error \in {"retryable", "oom", "fatal"}
    /\ Fail(f, error)
    /\ UNCHANGED <<stored, admitted, transcript, now, boot, faults>>

\* The stall watchdog.
Stall(f) ==
    /\ fibers[f].pc = "stream"
    /\ fibers[f].step # "ended"
    /\ now - fibers[f].since >= StallTimeout
    /\ Fail(f, "stall")
    /\ UNCHANGED <<stored, admitted, transcript, now, boot, faults>>

-----------------------------------------------------------------------------
(* Settlement and scheduled recovery *)

\* settle as `outcome`; `refused` is what becomes of the fiber when the fence,
\* the ledger or an earlier settlement lets nothing change.
Settle(f, outcome, refused) ==
    LET r == fibers[f]
        o == operations[r.op]
    IN  IF /\ ownsUnexpiredLease(r, now)
           /\ o.status \notin Terminal
           /\ o.stream \notin Terminal
           /\ LedgerRoom(o, 1)
        THEN /\ operations' = [operations EXCEPT
                    ![r.op].status = outcome, ![r.op].checkpoint = "terminal",
                    ![r.op].owner = None, ![r.op].lease = Never,
                    ![r.op].effects = @ + 1, ![r.op].stream = outcome,
                    ![r.op].expires = now + CompletedStreamRetention]
             /\ active' = None
             /\ recovery' = NoIncident
             /\ alarm' = NoAlarm
             /\ Stop(f)
        ELSE refused /\ UNCHANGED <<operations, active, recovery, alarm>>

\* The end of the executor's stream settles the turn; a refusal is caught.
SettleCompleted(f) ==
    LET o == operations[fibers[f].op] IN
    /\ fibers[f].pc = "stream"
    /\ fibers[f].step = "ended"
    /\ Settle(f, "completed",
              IF o.status \in Terminal \/ o.stream \in Terminal
              THEN Stop(f) ELSE Fail(f, "fatal"))
    /\ UNCHANGED <<queue, generation, admitted, transcript, now, boot, faults>>

Recoverable(r) == r.attempt > 0 \/ r.error # "fatal"

\* scheduleRecoveryAfterFailure: the counters of whatever incident is stored
\* carry over.
ScheduleRecovery(f) ==
    LET r == fibers[f]
        o == operations[r.op]
        fresh == recovery.operation = None
        strike == IF r.error = "oom" THEN 1 ELSE 0
        due == now + AlarmDebounce
    IN
    IF ownsUnexpiredLease(r, now)
    THEN /\ operations' = [operations EXCEPT
                ![r.op].status = "interrupted",
                ![r.op].checkpoint = IF r.mode = "continue" THEN "partial-persisted" ELSE @,
                ![r.op].owner = None, ![r.op].lease = Never,
                ![r.op].stream = "interrupted"]
         /\ active' = r.op
         /\ recovery' = [
                operation |-> r.op,
                kind |-> classifyRecovery(o),
                status |-> "scheduled",
                attempt |-> IF fresh THEN o.attempt ELSE recovery.attempt,
                work |-> o.work,
                oom |-> recovery.oom + strike,
                lastProgress |-> IF fresh THEN now ELSE recovery.lastProgress,
                scheduledAt |-> due ]
         /\ alarm' = AlarmFor(r.op, due)
         /\ Stop(f)
    ELSE Stop(f) /\ UNCHANGED <<operations, active, recovery, alarm>>

\* executeClaimed's catch: schedule recovery if the failure is recoverable,
\* settle as failed if not.
Catch(f) ==
    /\ fibers[f].pc = "catch"
    /\ IF Recoverable(fibers[f])
       THEN ScheduleRecovery(f)
       ELSE Settle(f, "failed", Stop(f))
    /\ UNCHANGED <<queue, generation, admitted, transcript, now, boot, faults>>

-----------------------------------------------------------------------------
(* wake *)

\* Mutants of Interrupted: ownership kept; stream left open; the operation's
\* status copied to the stream.
InterruptedKeepsLease(o) == [operations EXCEPT
    ![o].status = "interrupted", ![o].stream = "interrupted"]

InterruptedKeepsStream(o) == [operations EXCEPT
    ![o].status = "interrupted", ![o].owner = None, ![o].lease = Never]

InterruptedCopiesStatus(o) == [operations EXCEPT
    ![o].status = "interrupted", ![o].owner = None, ![o].lease = Never,
    ![o].stream = operations[o].status]

Interrupted(o) == [operations EXCEPT
    ![o].status = "interrupted", ![o].owner = None, ![o].lease = Never,
    ![o].stream = "interrupted"]

Open(incident) == incident.operation # None /\ incident.status # "exhausted"

\* Nothing holds the session: the caller is offered the head of the queue and
\* runs it (every caller of wake does), unless it ends before it can.
WakeIdle(f) ==
    /\ active = None
    /\ queue # << >>
    /\ fibers[f].pc = "idle"
    /\ fibers' = [fibers EXCEPT ![f] = Spawned("run", boot, Head(queue))]
    /\ UNCHANGED <<stored, admitted, transcript, now, boot, faults>>

\* The holder is not this isolate, or its lease ran out: the operation is
\* interrupted, and its incident is rescheduled or opened.  An operation that
\* is already terminal just gives the session up.
WakeInterrupts(b) ==
    LET o == operations[active]
        known == Open(recovery) /\ recovery.operation = active
        kind == classifyRecovery(o)
        due == IF known /\ recovery.scheduledAt # Never
               THEN recovery.scheduledAt ELSE now + AlarmDebounce
    IN
    /\ active # None
    /\ o.owner # b \/ o.lease <= now
    /\ IF ~known /\ kind = "terminal-noop"
       THEN active' = None /\ UNCHANGED <<operations, recovery, alarm>>
       ELSE /\ operations' = Interrupted(active)
            /\ recovery' =
                 IF known THEN [recovery EXCEPT !.status = "scheduled", !.scheduledAt = due]
                 ELSE [ operation |-> active, kind |-> kind, status |-> "scheduled",
                        attempt |-> 0, work |-> o.work, oom |-> 0,
                        lastProgress |-> now, scheduledAt |-> due ]
            /\ alarm' = AlarmFor(active, due)
            /\ UNCHANGED active
    /\ UNCHANGED <<queue, generation, admitted, transcript, fibers, now, boot, faults>>

-----------------------------------------------------------------------------
(* recover *)

\* The Durable Object's alarm handler: alarms are also set for cleanup and for
\* queued work, so the call may come at any time.
StartRecover(f) ==
    /\ fibers[f].pc = "idle"
    /\ recovery.operation # None
    /\ fibers' = [fibers EXCEPT ![f] = Spawned("recover", boot, None)]
    /\ UNCHANGED <<stored, admitted, transcript, now, boot, faults>>

\* Mutant of ProvenTerminal: the transcript is not asked for the message.
ProvenByCheckpoint(o) ==
    /\ o # None
    /\ operations[o].status # "absent"
    /\ operations[o].checkpoint = "streaming"
    /\ ~operations[o].tool

\* What reconcileTranscriptTerminal takes as proof that the turn is complete.
ProvenTerminal(o) ==
    /\ o # None
    /\ operations[o].status # "absent"
    /\ operations[o].checkpoint = "streaming"
    /\ ~operations[o].tool
    /\ transcript[o].saved # "none"

\* It reads the state and the transcript ...
ReconcileRead(f) ==
    LET proven == ProvenTerminal(recovery.operation) IN
    /\ fibers[f].pc = "reconcile"
    /\ PermitFree(fibers[f].boot)
    /\ fibers' = [fibers EXCEPT
           ![f].pc = IF proven THEN "reconcile-commit" ELSE "prepare",
           ![f].op = IF proven THEN recovery.operation ELSE None,
           ![f].since = now]
    /\ UNCHANGED <<stored, admitted, transcript, now, boot, faults>>

\* ... and completes the operation, with the clock it read first and no fence.
ReconcileCommit(f) ==
    LET r == fibers[f]
        o == operations[r.op]
        g == generation + 1
    IN
    /\ r.pc = "reconcile-commit"
    /\ IF o.status \notin {"absent", "completed"} /\ LedgerRoom(o, 1)
       THEN /\ generation' = g
            /\ operations' = [operations EXCEPT
                   ![r.op].status = "completed", ![r.op].checkpoint = "terminal",
                   ![r.op].generation = g, ![r.op].owner = None, ![r.op].lease = Never,
                   ![r.op].effects = @ + 1, ![r.op].stream = "completed",
                   ![r.op].expires = r.since + CompletedStreamRetention]
            /\ active' = None
            /\ recovery' = NoIncident
            /\ alarm' = NoAlarm
       ELSE UNCHANGED <<generation, operations, active, recovery, alarm>>
    /\ Stop(f)
    /\ UNCHANGED <<queue, admitted, transcript, now, boot, faults>>

\* Mutant of BudgetSpent: one attempt too many.
BudgetSpentLate(incident) ==
    \/ incident.attempt > MaxRecoveryAttempts
    \/ incident.work >= MaxRecoveryWork
    \/ incident.oom >= MaxOomStrikes
    \/ now - incident.lastProgress >= NoProgressTimeout
    \/ incident.kind = "unrecoverable"

BudgetSpent(incident) ==
    \/ incident.attempt >= MaxRecoveryAttempts
    \/ incident.work >= MaxRecoveryWork
    \/ incident.oom >= MaxOomStrikes
    \/ now - incident.lastProgress >= NoProgressTimeout
    \/ incident.kind = "unrecoverable"

\* prepareRecovery's branches, for an open incident of the operation o.
Exhaust(f, o) ==
    LET g == generation + 1 IN
    /\ IF LedgerRoom(operations[o], 1)
       THEN /\ generation' = g
            /\ operations' = [operations EXCEPT
                   ![o].status = "failed", ![o].checkpoint = "terminal",
                   ![o].generation = g, ![o].owner = None, ![o].lease = Never,
                   ![o].effects = @ + 1, ![o].stream = "failed",
                   ![o].expires = now + CompletedStreamRetention]
            /\ active' = None
            /\ recovery' = [recovery EXCEPT !.status = "exhausted", !.scheduledAt = Never]
            /\ alarm' = NoAlarm
       ELSE UNCHANGED <<generation, operations, active, recovery, alarm>>
    /\ Stop(f)

AlarmMatches(o) ==
    /\ alarm.operation = o
    /\ alarm.generation = operations[o].generation
    /\ alarm.scheduledAt = recovery.scheduledAt

DisarmMismatch(f) ==
    /\ recovery' = [recovery EXCEPT !.status = "scheduled", !.scheduledAt = Never]
    /\ alarm' = NoAlarm
    /\ Stop(f)
    /\ UNCHANGED <<operations, active, generation>>

Attempt(f, o) ==
    LET r == fibers[f]
        g == generation + 1
        continues == recovery.kind = "partial-continuation"
    IN
    /\ generation' = g
    /\ operations' = [operations EXCEPT
           ![o].status = "recovering", ![o].generation = g, ![o].attempt = @ + 1,
           ![o].owner = r.boot, ![o].lease = now + LeaseDuration, ![o].stream = "open"]
    /\ active' = o
    /\ recovery' = [recovery EXCEPT
           !.status = "attempting", !.attempt = @ + 1, !.scheduledAt = Never]
    /\ alarm' = NoAlarm
    /\ IF continues \/ recovery.kind = "pre-stream-retry"
       THEN fibers' = [fibers EXCEPT
                ![f].pc = "snapshot", ![f].op = o, ![f].generation = g,
                ![f].attempt = operations[o].attempt + 1, ![f].since = now,
                ![f].mode = IF continues THEN "continue" ELSE "fresh",
                ![f].parts = IF continues THEN operations[o].text ELSE << >>]
       ELSE Stop(f)

NoRecovery(f) == Stop(f) /\ UNCHANGED <<operations, active, recovery, alarm, generation>>

PrepareRecovery(f) ==
    LET o == recovery.operation IN
    /\ fibers[f].pc = "prepare"
    /\ IF ~Open(recovery) THEN NoRecovery(f)
       ELSE IF operations[o].status = "absent" THEN NoRecovery(f)
       ELSE IF BudgetSpent(recovery) THEN Exhaust(f, o)
       ELSE IF alarm = NoAlarm THEN NoRecovery(f)
       ELSE IF ~AlarmMatches(o) THEN DisarmMismatch(f)
       ELSE IF alarm.scheduledAt > now THEN NoRecovery(f)
       ELSE Attempt(f, o)
    /\ UNCHANGED <<queue, admitted, transcript, now, boot, faults>>

\* beginPhaseEffect of transcript-partial, whose key names generation 0 in
\* every attempt: once completed it is never taken again.
BeginPartial(f) ==
    LET r == fibers[f]
        o == operations[r.op]
        taken == o.partial # "none"
    IN
    /\ r.pc = "partial-begin"
    /\ IF ~ownsUnexpiredLease(r, now) \/ (~taken /\ ~LedgerRoom(o, 1))
       THEN Stop(f) /\ UNCHANGED operations
       ELSE IF o.partial = "completed"
       THEN Goto(f, "mark") /\ UNCHANGED operations
       ELSE /\ operations' = [operations EXCEPT
                   ![r.op].partial = "pending",
                   ![r.op].effects = IF taken THEN @ ELSE @ + 1]
            /\ Goto(f, "partial-write")
    /\ UNCHANGED <<queue, active, recovery, alarm, generation, admitted, transcript, now, boot, faults>>

\* persistPartial replaces the assistant message with the reconstructed text.
WritePartial(f) ==
    /\ fibers[f].pc = "partial-write"
    /\ transcript' = [transcript EXCEPT
           ![fibers[f].op] = [text |-> fibers[f].parts, saved |-> "partial"]]
    /\ Goto(f, "partial-complete")
    /\ UNCHANGED <<stored, admitted, now, boot, faults>>

CompletePartial(f) ==
    LET r == fibers[f] IN
    /\ r.pc = "partial-complete"
    /\ IF ownsUnexpiredLease(r, now)
       THEN /\ operations' = [operations EXCEPT ![r.op].partial = "completed"]
            /\ Goto(f, "mark")
       ELSE Stop(f) /\ UNCHANGED operations
    /\ UNCHANGED <<queue, active, recovery, alarm, generation, admitted, transcript, now, boot, faults>>

-----------------------------------------------------------------------------
(* cleanup *)

\* Terminal streams, the newest first; equal ages keep their stored order.
Newer(p, o) ==
    \/ operations[p].expires > operations[o].expires
    \/ operations[p].expires = operations[o].expires /\ p < o

TerminalStreams == {o \in OpId \ {active} :
    operations[o].status # "absent" /\ operations[o].stream \in Terminal}

Retained == {o \in TerminalStreams :
    /\ Cardinality({p \in TerminalStreams : Newer(p, o)}) < MaxRetainedStreams
    /\ operations[o].expires > now}

Dropped == {o \in OpId : operations[o].status # "absent" /\ operations[o].stream \in Terminal} \ Retained

Cleanup ==
    /\ Dropped # {}
    /\ operations' = [o \in OpId |-> IF o \in Dropped THEN AbsentOperation ELSE operations[o]]
    /\ UNCHANGED <<queue, active, recovery, alarm, generation, admitted, transcript, fibers, now, boot, faults>>

-----------------------------------------------------------------------------
(* Time, loss of a call, loss of an isolate *)

Tick ==
    /\ now < MaxTime
    /\ now' = now + 1
    /\ UNCHANGED <<stored, admitted, transcript, fibers, boot, faults>>

\* A call ends without another transition: its client went away, or a storage
\* transaction failed, before or after the commit, outside the stream's catch.
Die(f) ==
    /\ fibers[f].pc # "idle"
    /\ faults < MaxFaults
    /\ faults' = faults + 1
    /\ Stop(f)
    /\ UNCHANGED <<stored, admitted, transcript, now, boot>>

\* A storage transaction of the stream fails, before or after the commit.
StorageFails(f) ==
    /\ fibers[f].pc = "stream"
    /\ faults < MaxFaults
    /\ faults' = faults + 1
    /\ Fail(f, "fatal")
    /\ UNCHANGED <<stored, admitted, transcript, now, boot>>

\* The isolate is evicted, resets or is redeployed; the next one has a new boot
\* id, and only what is stored survives.  With OverlappingIsolates the calls of
\* the replaced isolate go on until they end by themselves.
Restart ==
    /\ boot < MaxBoots
    /\ boot' = boot + 1
    /\ fibers' = IF OverlappingIsolates THEN fibers ELSE [f \in Fiber |-> Idle]
    /\ UNCHANGED <<stored, admitted, transcript, now, faults>>

AtMostOne == {{}} \cup {{f} : f \in Fiber}

Next ==
    \/ \E s \in Submission, spawn \in AtMostOne : Admit(s, spawn)
    \/ \E f \in Fiber :
        \/ PermitTimeout(f) \/ Claim(f) \/ PersistRequestSnapshot(f) \/ MarkStreaming(f)
        \/ EmitStarted(f) \/ EmitText(f) \/ EmitTool(f) \/ EmitDone(f)
        \/ SaveToolRound(f) \/ SaveAnswer(f) \/ Stall(f)
        \/ \E error \in {"retryable", "oom", "fatal"} : ExecutorFails(f, error)
        \/ SettleCompleted(f) \/ Catch(f)
        \/ WakeIdle(f) \/ StartRecover(f)
        \/ ReconcileRead(f) \/ ReconcileCommit(f) \/ PrepareRecovery(f)
        \/ BeginPartial(f) \/ WritePartial(f) \/ CompletePartial(f)
        \/ Die(f) \/ StorageFails(f)
    \/ \E b \in LiveBoots : WakeInterrupts(b)
    \/ Cleanup \/ Tick \/ Restart

Spec == Init /\ [][Next]_vars

-----------------------------------------------------------------------------
(* Properties *)

\* The shape of the stored state, the session store and the calls in flight.
TypeOK ==
    /\ operations \in [OpId -> Operation]
    /\ queue \in Seq(OpId)
    /\ active \in OpId \cup {None}
    /\ recovery \in Incident
    /\ alarm \in Alarm
    /\ generation \in Nat
    /\ admitted \in 0..MaxOperations
    /\ transcript \in [OpId -> Transcript]
    /\ fibers \in [Fiber -> FiberRecord]
    /\ now \in 0..MaxTime
    /\ boot \in 1..MaxBoots
    /\ faults \in 0..MaxFaults

Waiting == {queue[i] : i \in DOMAIN queue}

Executing == {"running", "recovering"}

FencedPC == {"snapshot", "partial-begin", "partial-complete", "mark", "stream", "catch"}

\* The fence would let this call change the state of its operation now.
MayWrite(f) == fibers[f].pc \in FencedPC /\ ownsUnexpiredLease(fibers[f], now)

\* Whatever isolates and calls overlap, at most one of them passes the fence of
\* an operation (ownsUnexpiredLease and the generation check).
SingleWriter ==
    \A f, g \in Fiber :
        MayWrite(f) /\ MayWrite(g) /\ fibers[f].op = fibers[g].op => f = g

\* Ownership, lease and status agree, and only the active operation is owned.
OwnerIsActive ==
    \A o \in OpId :
        /\ operations[o].owner # None <=> operations[o].status \in Executing
        /\ operations[o].owner # None <=> operations[o].lease # Never
        /\ operations[o].owner # None => active = o

\* No admitted turn is lost: until it is terminal an operation is in the queue
\* or is the active one, and never both.
Accounted ==
    \A o \in OpId :
        /\ operations[o].status = "queued" <=> o \in Waiting
        /\ operations[o].status \in Executing \cup {"interrupted"} <=> active = o

\* Turns take the session in the order of their admission, once each.
FIFO ==
    /\ \A i, j \in DOMAIN queue : i < j => queue[i] < queue[j]
    /\ \A o \in OpId, i \in DOMAIN queue :
           operations[o].status \notin {"absent", "queued"} => o < queue[i]

\* An interrupted turn can always be taken up again: its own incident is
\* scheduled and the persisted alarm is the one prepareRecovery will accept.
InterruptedIsScheduled ==
    \A o \in OpId : operations[o].status = "interrupted" =>
        /\ recovery.operation = o
        /\ recovery.status = "scheduled"
        /\ recovery.scheduledAt # Never
        /\ AlarmMatches(o)

\* The stream tells the same outcome as its operation, and no outcome before.
StreamFollowsOperation ==
    \A o \in OpId :
        /\ operations[o].status \in Terminal \/ operations[o].stream \in Terminal
              => /\ operations[o].stream = operations[o].status
                 /\ operations[o].checkpoint = "terminal"
                 /\ operations[o].expires # Never
        /\ operations[o].status = "interrupted" => operations[o].stream = "interrupted"

\* Restarts, spent leases and runners do not refill the attempts of a turn.
AttemptBudget ==
    \A o \in OpId :
        /\ operations[o].attempt <= MaxRecoveryAttempts
        /\ active = o /\ operations[o].attempt > 0
              => /\ recovery.operation = o
                 /\ Open(recovery)
                 /\ recovery.attempt >= operations[o].attempt

\* The ledger keeps room for the entry a terminal transition adds, so an
\* operation cannot become impossible to settle.
LedgerKeepsRoom ==
    active # None => LedgerRoom(operations[active], 1)

\* A completed turn has its assistant message in the transcript, even when the
\* completion is inferred from the transcript, and its whole answer there unless
\* it was continued or its response may stop at a tool round.
AnsweredUnlessContinued ==
    \A o \in OpId : operations[o].status = "completed" =>
        /\ transcript[o].saved # "none"
        /\ operations[o].partial = "none" /\ ~ToolsEnabled => transcript[o].saved = "final"

\* An outcome is final: once settled, failed, exhausted or reconciled, a record
\* changes only by leaving retention.
OutcomeFinal ==
    [][\A o \in OpId : operations[o].status \in Terminal
          => operations'[o] \in {operations[o], AbsentOperation}]_vars

-----------------------------------------------------------------------------
(* Refinement *)

\* The turn an operation is: started from its claim to its outcome, however many
\* attempts that takes; forgotten when cleanup dropped it.
TurnState == [o \in OpId |->
    CASE operations[o].status = "absent" -> IF o <= admitted THEN "forgotten" ELSE "absent"
      [] operations[o].status = "queued" -> "queued"
      [] operations[o].status \in Terminal -> operations[o].status
      [] OTHER -> "started"]

Turns == INSTANCE TurnSpec WITH
    Turn <- OpId, state <- TurnState, line <- queue,
    events <- [o \in OpId |-> operations[o].events]

\* Every transition is a step of TurnSpec or none: claim takes the head of the line
\* and only when no turn is started, append writes to started turns only, settle,
\* exhaustion and reconciliation end a turn that is started.
ImplementsTurnSpec == Turns!TurnSafety
===============================================================================
