# A verification development of chemistry

chemistry is a chat agent on Cloudflare Durable Objects. Each chat session is
one Durable Object that owns a durable turn runtime: a submitted prompt becomes
an *operation* with a *stream* of events, both kept in the object's storage, so
that a turn survives the loss of the isolate that runs it. This directory holds
TLA+ models of that program, the TLC configurations that check them, and
TLAPS proofs. All paths are relative to `src/`; `durable-execution.ts`,
`runtime-state.ts` and `agent-service-live.ts` are in
`packages/agent-runtime/src`. The table from definitions to source lines is
`map` in `PROJECT.json`.

## 1. The system

| Component | State it keeps | Operations | Talks to |
| --- | --- | --- | --- |
| Durable execution (`durable-execution.ts`) | permit of the isolate; everything else is in the store | admit, run (claim, request snapshot, mark streaming, append, settle), schedule recovery, wake, recover (reconcile, prepare, partial write), cleanup; replay, terminal, probe only read | store, turn executor |
| Runtime state and store (`runtime-state.ts`, `runtime-store.ts`, `durable-object-runtime-store.ts`) | operations, queue, active operation, streams, incident, alarm intent, generation | load, transact (atomic), migration of V1 | Durable Object storage |
| Turn executor and agent service (`agent-turn-executor-live.ts`, `agent-service-live.ts`) | a lock per isolate | runTurn, persistPartial, hasAssistantMessage, captureRequest, updateContext, compactSession | model, tools, session store |
| Conversation, compaction, session store | messages, context, compactions | load, save, build the prompt, plan a compaction, migrate | Durable Object storage |
| Replay handoff (`replay-handoff.ts`) | cursor and parking buffer per connection | begin, park, accept backlog, drain | adapter |
| WebSocket adapter (`runtime-websocket-adapter.ts`) | handoff gates; per-socket attachment | upgrade, onMessage (resume, submit, ack), broadcast, runAccepted, recoverSession | engine, clients |
| Agent session object (`agent-durable-object.ts`) | the platform alarm | RPCs, alarm handler | engine, adapter |
| Client runtime (`packages/client-runtime`) | snapshot with cursor, socket, timers | frame reducer; connect, reconnect, submit, close | adapter |
| Chat catalog (`packages/chat-catalog`, `chat-catalog-durable-object.ts`) | bounded list of chats | create, touch, list, migrate | its own object |
| Contracts, backend routing, id sources, website, tooling | none, or presentation | | |

How a turn runs. `admit` stores a queued operation and its open stream. `run`
takes the isolate's permit, *claims* the FIFO head (a new generation, a lease,
this isolate as owner), stores the request it will send, marks the operation
streaming and then appends one event after another, each renewing the lease;
the end of the stream *settles* it. A failure worth a retry *schedules
recovery*: the operation becomes interrupted and a recovery incident and alarm
are stored. After a lost isolate it is `wake`, called ahead of every request,
that does so. The platform alarm calls `recover`, which first looks whether the
transcript proves the turn complete, then checks the budgets and either fails
the turn, retries it from the start, or continues it from its partial answer.

What is hard about it: every transition is atomic, but between two transitions
of one call anything can happen: a second call of the same isolate, a
replacement isolate with the old one still running, expiry of the lease, an
alarm early or late, a loss of everything not stored, a failure of storage, a
stalled model. State is read before an `await` and used after it. Two stores
(runtime and transcript) are written in separate steps.

What makes each component correct:

- Durable execution: one writer per operation; turns in order, none lost; an
  interrupted turn can be taken up again; a bounded number of attempts; one
  final outcome; operation, stream, incident and alarm agree; a completed turn
  has its answer.
- Store and migration: transitions are atomic; migrated state satisfies the
  engine's invariants.
- Agent service and session store: each message once, no update lost between
  turns, context changes and compactions; compactions cover disjoint ranges.
- Handoff, adapter, client: every client sees the stream's events in order, each
  once, and the terminal after them, across reconnects.
- Session object: a stored alarm intent is matched by a platform alarm; a
  refused message can be accepted later; every turn ends.
- Catalog: bounded, titles set once.

## 2. Modules

| Module | Role |
| --- | --- |
| `DurableExecution` | the engine, its storage, one transcript message per turn, calls, isolates, time |
| `MCDurableExecution` | its instances for TLC (symmetry) |
| `DurableExecutionClaims` | statements of the documentation that the model refutes |
| `DurableExecutionProofs` | its theorems: types and the fence |
| `DurableExecutionStoreProofs` | its theorems about the stored state, and that it implements `TurnSpec` |
| `DurableExecutionAnswerProofs` | its theorem about the transcript |
| `DurableExecutionLedgerProofs` | its theorem about the ledger of phase effects |
| `TurnSpec` | what a session promises about its turns; both `DurableExecution` and `SessionHost` implement it |
| `SessionHost` | the adapter and the session object around the engine: which paths wake, run, arm the platform alarm or refuse; liveness |
| `SessionHostProofs` | its theorems, the refinement of `TurnSpec` among them |
| `StreamDelivery` | handoff gate, adapter, client reducer and resumable socket: how a stream's events reach one browser; liveness |
| `StreamDeliveryProofs` | its theorems: types, the gate and the handoff |
| `StreamDeliveryOrderProofs` | its theorem about the order in which events are shown |
| `StreamDeliveryClaims` | a statement about the reducer that it refutes |
| `SessionTranscript` | messages, context and compactions under the service lock, with turns retried and continued |
| `SessionTranscriptProofs` | its theorems: all its properties |
| `SessionTranscriptClaims` | a statement about the continuation's prompt that it refutes |

The engine decides whether a turn is lost, duplicated or stuck; the host whether
it ever ends; delivery what users see; the transcript what the model is asked.
The chat catalog and the migrations of stored state have no module (section 6).

The modules meet at the engine's interface. `DurableExecution` has every
transaction; the others keep of the engine what their component reads: the host
the answers of `wake`, `run` and `recover`; delivery the length and outcome of
each stream; the transcript the order of an attempt's reads and writes of the
session store. `TurnSpec` is stated once, and each of the two modules that have
turns implements it by its own mapping (`ImplementsTurnSpec`).

### DurableExecution and the code

| Variable | Code |
| --- | --- |
| `operations[o]` | `RuntimeOperationRecord` and the `RuntimeStreamRecord` of the same operation |
| `queue`, `active`, `recovery`, `alarm`, `generation` | the fields of `RuntimeState` |
| `transcript[o]` | what the session store holds of the assistant's answer to `o`: by which deltas, and whether it is a partial or the final one |
| `fibers[f]` | a call of `run` or `recover`: where it is (`pc`), the isolate it runs in, the claim it captured (operation, generation, attempt), how far the executor's stream is |
| `boot` | the current isolate; calls of an earlier one carry its number |
| `now`, `faults` | clock, number of faults so far |

Every `store.transact` is one action, and every awaited step outside a
transaction (capturing the request, the model's events, writes and reads of the
session store) is a step of its own, so all their interleavings are explored.
A call that fails its fence, its ledger or its queue check ends (`Stop`), or
falls into the stream's catch (`Fail`), as in the code. `Next` also contains
what the environment does: time (`Tick`), a call that ends because its consumer
left or storage failed (`Die`), a failed transaction inside the stream
(`StorageFails`), a new isolate (`Restart`). With `OverlappingIsolates` the
calls of the old isolate go on after `Restart`, as during a redeployment;
without, they are gone. `wake` and `recover` may happen at any time, since
every request and every alarm leads to them.

Abstractions, and why they are sound for what is checked:

- `parked` is never entered by the code; the status and the branches on it are
  left out. So is the `continue` mode of `claim`, which no caller uses.
- Fields no decision reads are left out: timestamps other than
  `lastProgressAt`, `scheduledAt`, `expiresAt` and the lease; `progress`,
  `progressBaseline`, `firstSeenAt`, `terminalReason`, the state's `bootId`.
  `cleanup` sorts by `updatedAt`, which a terminal stream has equal to its
  expiry less a constant, so the model sorts by expiry.
- A stream's log is its length, its text deltas and whether it has a tool call.
  The limits in bytes are left out; a refused append behaves as at the limit in
  events.
- The phase ledger is its size and the status of the one key that outlives an
  attempt (`transcript-partial:0`). Other keys name the generation, so whether a
  key is new follows from the place in the protocol.
- Taking the permit is merged with the transaction or read that follows it.
- An answer after a tool round joins the text before it. A save appends to what
  the transcript holds at that instant; the code appends to what it loaded when
  the stream began. Without overlapping isolates only this call writes in
  between, so they agree; with overlap they may differ in the text, which the
  properties of that run and the transitions (they ask whether there is a
  message) do not read.
- A duplicate submission, a full queue and a wake by the owner with a valid lease
  change nothing the model keeps, so they are not actions.
- Storage transitions of the host around the engine (which request wakes, when
  the platform alarm is set) are left open here: `wake` and `recover` may happen at
  any time. `SessionHost` closes them.

### SessionHost and the code

| Variable | Code |
| --- | --- |
| `turns`, `queue`, `active` | operation status, `queue`, `activeOperationId` |
| `lease` | of the active turn's owner: valid, lapsed, or cleared with the owner |
| `incident`, `intent` | the recovery incident; whether the stored `Recover` alarm matches its generation and instant |
| `platform` | `ctx.storage` has an alarm |
| `waiting`, `holder` | calls of `run` waiting for the permit, the call that has it |
| `ring` | the alarm handler, from `alarm()` to the end of `recoverSession` |
| `finishing` | calls past their run or recovery: `broadcastTerminal` and the wake that follows |
| `visit` | a request past `ready()`, with the recoverable operation `wake` reported |

`Visit` is `ready()`, `turnReady()` and `onMessage` up to the branch on the frame,
`Submit` the admission, `Claim`, `Settle`, `ScheduleRecovery`, `Fenced` and `Abandon`
the call of `run`, `Fire` to `AlarmPermitTimeout` the alarm handler,
`BroadcastTerminal` and `Wake` what follows a run in `runAccepted`, in the stream
of `sendMessage` and in `recoverSession`. A mishap is what cuts a call short: a
failure of storage, of a socket or of `setAlarm`, a caller of
`sendMessage` that leaves, a lost isolate. The handler of the alarm swallows its
failures, so the platform does not repeat it; a handler lost with its isolate it
does repeat.

Abstractions: the RPC's run and the WebSocket's run are one kind of call, for
they do the same steps; waiting runs of one turn count as one; `wake`, setting
the alarm and starting the next run are one step but for the mishap between
them; the platform's alarm is set or not, whatever it is for, because the handler
does the same for all; time is two events, a lease that lapses and a recovery
that falls due. Outcomes are chosen freely, so every property holds for whatever
the model and the tools do.

### StreamDelivery and the code

| Variable | Code |
| --- | --- |
| `log`, `outcome`, `active` | events and status of each stream, the active operation |
| `driven` | a call of this isolate executes the active turn |
| `outbox` | an event appended whose broadcast is to follow |
| `notices`, `ringing` | `broadcastTerminal` in flight; the stream an alarm handler probed, before its `recover` |
| `conn` | the server's side of the latest connection: its handoff gate, its resume (`FailedResume` once storage failed in it); `missed` is history: an outcome it was to be told was not |
| `toClient`, `toServer` | frames in flight; a frame is `stale` once its socket is not the client's |
| `client`, `online` | `RuntimeClientSnapshot` and `ResumableAgentSocket`; `navigator.onLine` |

`recent` keeps each event as its stream and sequence. The steps between awaits
are actions: append and broadcast; upgrade; the read of the backlog; the drain,
which sends backlog, parked events and `ResumeComplete` without an await; the read
of the outcome after it. On the client every frame of the apply queue, timer and
socket event is an action. `Drop`, `Restart` and `Hibernate` are the losses, `Close`
and `Connect` the user.

Storage may fail in every handler of the adapter. `ReceiveFails`: in `wake` or the
alarm it sets, which ends the handler without a word to the client
(`agent-durable-object.ts` logs it), or in the first call of `dispatch`, which answers
a recoverable `ProtocolError`. Both use a `ResumeAck` up and leave its gate.
`ResumeFails`: in `replay`, which removes the gate first, or in the question for an
outcome that follows the handoff. `BroadcastFails`: in `broadcastTerminal`, and nobody is
told. Each costs one of `MaxFaults`.

Abstractions: one browser; backoff is "later"; the frames' payloads, the ping
interval, error texts and optimistic messages are left out, and so are `StreamAck`
and the cursor in the attachment, which the adapter writes and nothing reads.
`AppendToLog` waits while a terminal of an earlier turn or attempt is being
broadcast: that is one read of storage, an attempt's first event follows four
transactions (section 6 has what happens without that assumption). It waits likewise for an
alarm handler that probed an earlier stream. That handler tells the outcome of the
stream it probed if `recover` finds nothing to do; that no other turn starts and is
interrupted between its probe and this look is a bound (`Recover`). A gap or an
error that is not recoverable closes the socket, as `resumable-agent-socket.ts` relies
on (section 6).

### SessionTranscript and the code

| Variable | Code |
| --- | --- |
| `session` | `ChatSession`: context, messages, compaction overlays |
| `lock` | the agent service's semaphore |
| `turns`, `active` | the runtime's record: checkpoint, request snapshot, kind of incident, and whether the stream has begun, has a tool call, has its partial in the ledger |
| `call` | the attempt: `copy` is the record it loaded and writes back |
| `request` | `updateContext` or `compactSession`, from the check in `mutableSession` to the save |

A message is its id, its role and what the compaction and the prompt depend on
(has it a tool call), its turn, and as history whether it was added for a response
without content (`blank`). A write under an id that is there replaces every message
that has it, as the code's `map` does (`Rewritten`). Every load and every save is an action, the
calls to the model are between them. An overlay is the id of the last message it
covers; a threshold on the number of visible messages stands for the token count.
The lock is served in order of arrival: a request that found no turn active waits
ahead of the `captureRequest` of a turn claimed later (guard of `Capture`). That
assumption is essential: without it TLC refutes `UpdatesKept` and
`QuestionInSight`.

## 3. Runs

Seven runs hold:

| Run | Question | Bounds | States |
| --- | --- | --- | --- |
| `restarts` | does one turn stay consistent through losses of its isolate? | 1 operation, 1 call at a time, 3 isolates, 5 instants, 1 fault, 2 attempts | 1.04 M |
| `runners` | what can two calls of one isolate do to one turn? | 1 operation, 2 calls, 1 isolate, 4 instants, tools on | 1.28 M |
| `isolates` | does the fence hold between an old isolate and a new one? | 1 operation, 2 calls, 2 isolates, 2 instants, overlap | 1.24 M |
| `queue` | are turns taken in order, none lost, and the abstract turn implemented? | 3 operations, queue of 2, 1 call, retention of 1 and 1 instant, 2 instants | 0.82 M |
| `host` | does every turn end, and every session accept messages again? | 2 turns, 2 attempts, 2 mishaps | 63 k |
| `delivery` | does the client see every event once and reach the end? | 1 turn of 2 events, parking buffer of 1, 3 reconnects, 1 alarm, 1 fault | 1.22 M |
| `transcript` | do turns, updates and compactions keep each other's work? | 2 turns, 2 updates or compactions, 2 failed or lost attempts, 2 tool rounds | 1.75 M |

Properties of the engine:

- `OwnerIsActive`, `StreamFollowsOperation`, `InterruptedIsScheduled`: the five
  parts of the stored state agree after every transition. The last is what
  makes recovery possible: a mismatch of generation or instant between alarm and
  incident makes `prepareRecovery` disarm it.
- `AttemptBudget`: neither restarts nor rescheduling refill the attempts.
- `LedgerKeepsRoom`: the bounded ledger never makes a turn impossible to settle.
- `AnsweredUnlessContinued`: reconciliation completes a turn that was never
  continued only when its whole answer was saved.
- `OutcomeFinal`: no transition changes a terminal record.
- `SingleWriter`: at most one call passes an operation's fence.
- `FIFO`, `Accounted`: order of admission, and no turn lost or held twice.
- `ImplementsTurnSpec`: a refinement of `TurnSpec`: turns start one at a time and
  in order, only the log of a started turn grows, and it ends once. Retention
  maps to `Forget`, which drops ended turns only.

Of the host:

- `ArmedAtRest`: unless a call was cut short, a session at rest with unfinished
  work has its platform alarm set.
- `EndsUnattended`: until a mishap every submitted turn ends, with nobody making a
  request. It rests on the platform's alarm alone.
- `EndsIfVisited`: after mishaps every submitted turn still ends if requests recur.
- `AcceptsAgain`: a session that refuses messages because a turn has to recover
  accepts them later.
- `ImplementsTurnSpec`: the same abstract turn, whatever the host does.

Of delivery:

- `ShownOnce`: no event twice, none out of order, at the client.
- `GateHasResume`: a gate holds back live events, so it should not outlive the resume
  that will remove it. After the six paths on which the adapter removes it, a
  lost connection and a hibernation, no gate is left behind. The one exception is in its
  statement: storage failed before the handoff, in `wake` or in the first read of
  `handleResume`, and the gate stays as long as its connection.
- `HandoffCatchesUp`: when a gate opens, everything broadcast until then was sent.
- `Converges`: when the turns are over and the client has not left, it ends up with
  the last outcome; no overflow, gap or lost connection leaves it waiting, or out
  of attempts. A connection on which storage failed before it was told (`Untold`) does not
  count as the end: there the client does wait until it connects again, and then it
  catches up.

Of the transcript:

- `MessagesKept`, `UpdatesKept`: every save replaces the whole record by a copy,
  some of them filtered by an older snapshot; no message, context update or overlay
  that was saved is dropped by it.
- `OneMessageEach`, `TurnsInOrder`: retries, continuations and second runs neither
  repeat a question or the first message of an answer nor write behind the next
  turn. A second message under an id is always one that was added for a response
  without content; what a later write puts into it makes no difference to that.
- `OverlaysAdvance`, `QuestionInSight`: compactions end one behind the other, never
  part a tool call from its result, and never hide the question being answered. The
  first is about transcripts whose ids are unique, for a summary names its end by
  an id.

Each module also has its type invariant `TypeOK`.

Why the bounds suffice. In the engine, ratios between limits are kept as by
default: the debounce is shorter than the lease, the lease than the stall timeout,
the stall timeout than the no-progress timeout (1, 2, 3, 4 instants in
`restarts`). Every run lets the budgets be exhausted. Two attempts reach a second
continuation, which is where the ledger key of the first matters. Two calls
suffice for the permit, since a third can only wait. Two isolates suffice for the
fence, since each claim compares only with the current owner; `FenceExcludes`
removes this bound. The other proof modules of the engine
remove the bounds of its other properties, for an engine without overlapping
isolates; what remains of them in `LedgerKeepsRoom` is the limit it is about. Calls and submissions are symmetric: the model never orders
them. In the host two turns make one wait while the other recovers, two attempts
tell a retry from the last one, and a second mishap strikes the recovery of the
first; `RestIsArmed` and `HostImplementsTurnSpec` remove the bounds of
their properties. In delivery a buffer of one overflows with two live
events, and two events make a gap, a duplicate and a backlog with a parked event
behind it; three reconnects are one more than two losses of a connection can
cost; `NoGateOutlives`, `HandoffComplete` and `NoEventShownTwice` remove the bounds of its
other three properties, the one turn among them, the last for a gate that outlives
hibernations. In the transcript a recent history of one message and a threshold of one
make compactions happen within a turn's few messages, and two lost attempts give
a continuation that is continued; `SessionTranscriptProofs` removes the bounds of
all its properties. Between them the passing runs take every
action.

Deadlock is not checked: when its bounds are used up a model stops, and a session
with nothing to do is idle.

The ledger limit is 12 entries against 2 attempts, where the code has 32
against 5: an attempt adds at most two entries (request snapshot, inference), a
turn starts with two, its partial and its terminal add one each. A duplicate
call that claims the interrupted turn (see below) adds two without spending an
attempt. The 12 entries leave room for one such call, the 32 for eight.
`LedgerKeepsRoom` is checked at this limit, and `LedgerHasRoom` proves it for any number
of calls and attempts that fit. Nothing in the code keeps the number of duplicates
at eight, so beyond it the property is not claimed.

### Disagreements between the documentation and the code

Five runs refute a statement of the documentation or of a comment. Each has its
entry under `findings` in `PROJECT.json`. `RA` is `docs/runtime-architecture.md`.

- `claim_truncated`: a turn streams, its isolate is lost, the continuation saves
  the partial to the transcript and marks the operation streaming, and its
  isolate is lost too. Now the transcript holds the assistant message and the
  checkpoint is streaming, which reconciliation takes as proof: the turn is
  completed with the truncated text. (RA:137)
- `claim_partial`: the continuation streams some deltas and is lost. The second
  continuation finds `transcript-partial:0` completed and does not write, so the
  model goes on from the older text. (RA:119)
- `claim_retry`: a turn is lost before its first event; its retry is lost while it
  streams. The incident keeps its kind, so the turn starts afresh, on a stream
  that already has text. (RA:135)
- `claim_skip`: a client connects to an idle session, and a turn starts elsewhere.
  Its first event is applied; `ResumeComplete` of the empty session then resets the
  cursor to -1, so the next event is taken for a gap and closes the socket. The
  terminal queued behind it moves the cursor to the end of the stream, and the
  reconnect resumes there: the event that raised the gap is never shown.
  (`runtime-client-state.ts:70`)
- `claim_orphan`: a turn is lost after a tool round. The partial write replaces the
  assistant message, which holds the tool call, by the streamed text; the tool's
  result stays, and the continuation's prompt has it without its call.
  (`conversation.ts:82`)

Met while modelling, without a run. In the engine:

- A lease of 30 s is always over when the watchdog fires after 45 s, so the call
  that stalled cannot schedule recovery; only a later wake opens the incident.
- A duplicate call of `run` waiting for the permit claims an interrupted turn
  ahead of its alarm, without an attempt and without the debounce.
- The incident of a turn that failed for good stays stored. The next turn's first
  failure copies its counters, so it can fail without a retry. While the next turn
  runs, a refused message names that older turn.
- RA:153 says progress resets the no-progress attempt window; `append` moves
  `lastProgressAt` but resets no attempts.
- `persistRequestSnapshot` checks the lease with a clock read before an await,
  where RA:117 has every phase own an unexpired lease. The model keeps the early
  reading; the invariants above hold nonetheless.
- Reconciliation commits without a fence. With overlapping isolates it turns a
  failed record into a completed one, so `OutcomeFinal` is checked only without.
- The first, required tool round is saved before its event is in the log, so
  with tools reconciliation can complete a turn that has only that round;
  `AnsweredUnlessContinued` is therefore checked without tools.
- `cleanup` can drop the operation an exhausted incident names; `recover` then
  fails with "Recovery operation is missing". No property is about it.

In the host:

- A turn left started with a valid lease, by a caller of `sendMessage` that went
  away, a failure of storage or a lost isolate, has no platform alarm until the
  next request wakes the session. That is why `EndsUnattended` stops at the first
  mishap and `EndsIfVisited` assumes requests.

In the transcript:

- A response without content to the required fact tool, after an earlier attempt
  left its message, appends a second message under the same id. A continuation or a
  fresh answer that follows writes its text into both. `OneMessageEach` names this one
  source of a second message, and `OverlaysAdvance` asks that there is none.
- A fresh rerun joins its answer to the assistant message of the first attempt,
  which stands before that attempt's tool result.
- `admit` captures a snapshot under the lock, so an admission waits until a running
  turn's stream ends.

## 4. Fairness

The engine's `Spec` has none: whether a turn ends is a question to its host.

`SessionHost` assumes weak fairness of what the isolate goes on with by itself
(the handler of a request, the permit's next call, the end of a run, a call's last
steps), of the platform's alarm (`Fire`), and of time (`RecoveryDue`; `LeaseLapses`
once no call renews the lease). All of these stay enabled until they are taken or
superseded by another of the same formula, so weak fairness suffices. `Visit` and
`Submit` are not fair: nobody has to make a request. `EndsIfVisited` and `AcceptsAgain`
therefore assume requests in the property itself (`[]<>(visit # NoVisit)`). A
run may not stream for ever: the event limit, the stall watchdog and the model's end
all lead to one of the disjuncts of `EndRun`.

`StreamDelivery` assumes weak fairness of the server's handlers, of the client's
apply queue, timers and close event, and that a browser that is offline comes online
again. The engine (`StartTurn`, `AppendToLog`, `EndTurn`, `Alarm`) and the user are not
fair: `Converges` only speaks of behaviours in which the turns end, and `SessionHost`
shows that they do. Its premise also asks that nothing is on the way to the server,
that the user has not left for good, and that the last connection is not one that a
failure of storage left untold.

Faults are bounded by their counters in all runs, so each behaviour ends with a
time without faults: the usual premise of a liveness property. No temporal run
uses symmetry but `queue` and the claims, whose properties are safety properties.

## 5. Proofs

### The engine

`DurableExecutionProofs`, for every value of the constants that satisfies
the assumptions (all limits and bounds are natural numbers, at least one
isolate, two Boolean modes), any set of submissions and any set of calls:

- `TypeCorrect`: `Spec => []TypeOK`.
- `FenceExcludes`: `Spec => []SingleWriter`.

`TypeOK` is not inductive: a call's record may name no operation, and a
transition indexes `operations` with it. `TypeInv` adds `NamesOperation`: past
the permit of `run`, and past the decision of `recover`, a call names an
operation. Each transition has a lemma, built on lemmas for the pieces the
transitions share (a call moves on, one operation record is replaced).

`SingleWriter` follows from `OwnGeneration`: two different calls that hold a
claim hold different generations, and no call has a generation above the
session's counter. The counter only grows and a claim takes its new value, so
a new claim differs from all earlier ones; every other step leaves a call's
generation alone or ends the call. The fence compares the call's generation
with the operation's, so of two calls of one operation at most one passes. The
argument needs neither clock nor lease, nor the identity of the isolate: the
lease and the owner decide *when* the fence stops letting a call through, the
generation that it never lets two through.

### The stored state

`DurableExecutionStoreProofs` proves, for the same constants and
`~OverlappingIsolates`, the invariants `OwnerIsActive`, `Accounted`, `FIFO`,
`InterruptedIsScheduled`, `StreamFollowsOperation`, `AttemptBudget`, the action
property `OutcomeFinal`, and `EngineImplementsTurnSpec`. The premise is needed:
reconciliation commits without a fence, and with a replaced isolate still at work it
may end a turn that another call has already ended (section 3).

None of them is inductive by itself. `StoreInv` joins `TypeInv`, `Agrees` and
`OnePermit`:

- `Agrees` says of each operation, in `Sound`, how its status, owner, lease, stream,
  checkpoint and expiry go with the queue, the active operation, the incident and
  the alarm; that the queue is in order (`FIFO`); and that an open incident is the
  active operation's. `Covered` is the part about attempts: an operation that was
  retried is covered by an open incident that counts at least as many. A new incident
  starts from the operation's own counter, and only the incident's budget lets an
  attempt through, so neither can refill the other.
- `OnePermit` says that all calls are of the current isolate, that one of them at
  most holds the permit, and that what a call read as proven before its
  reconciliation is still active when it commits. Without it reconciliation could
  end a turn twice.

Every transition changes the store in one of six ways, each a lemma that shows both
`Agrees'` and the step of `TurnSpec`: it leaves it alone (`Untouched`), the active
turn goes on (`ActiveGoesOn`) or ends (`ActiveEnds`), the head of the queue starts
(`HeadStarts`), a turn joins (`Joins`), ended turns are forgotten (`Forgets`). And it
changes the calls in one of three: the holder of the permit moves, it stops, or calls
that hold nothing start. What a fenced write adds is `FencePassed`: a call whose fence
lets it through works on the active operation.

The proof shows one branch of the code to be unreachable: `wake` leaves alone an
active operation whose record is terminal, and no such state exists.

### The answer

`DurableExecutionAnswerProofs` proves `CompletedIsAnswered`, `Spec =>
[]AnsweredUnlessContinued`, under the same premise. The transcript is written outside
the transactions, so the invariant `Answers` is about the places of a call. A call that
names an operation works on the active one, so nobody else writes that operation's
message. A stream that was saved or has ended has its final message in the transcript; a
call that is to write a partial has its ledger entry; a call that is to commit a
reconciliation has seen a message. And the message of the active operation is a partial
only if the ledger has the partial or a tool round wrote it: what reconciliation takes
for proof of a turn that was never continued is its whole answer.

### The ledger

`DurableExecutionLedgerProofs` proves `LedgerHasRoom`, `Spec => []LedgerKeepsRoom`, under
the same premise, for a finite set of calls and `MaxPhaseEffects >= 4 + 2 *
Cardinality(Fiber) + 2 * MaxRecoveryAttempts`. With the 32 entries and 5 attempts of
`RuntimeLimits` that covers nine calls of one turn, with the constants of `runners` its
two.

Attempts are bounded by `AttemptBudget`, but a call that claims the active turn again
counts as none. `Charged` charges it before it claims: the entries of the active turn, and two
for each call that waits to claim it (`Spent`), and those its call has yet to add
(`Due`), stay within two for the admission, two for each call there is, two for each attempt and one
for a partial (`Allowed`). A claim turns two entries charged to a waiting call into two
that are due; a snapshot, a mark and a partial turn what is due into entries; an attempt
allows for the two it makes due. A turn that waits has its two entries of the admission, so
at its first claim there is nothing else. And no call starts to wait for an active turn:
`admit` makes its call wait for the new turn, `wake` offers the head of the queue when
none is active.

### The host

`SessionHostProofs`, for any queue limit, attempt limit, number of turns and
number of mishaps (`HostAssumption`: they are natural numbers):

- `TypeCorrect`: `Spec => []TypeOK`. `Admitted` counts a finite set, so a new turn is
  a turn; `Released` and `Finishing` pass kinds and turns on.
- `RestIsArmed`: `Spec => []ArmedAtRest`. The strengthening `ArmInv` adds what each
  path has to hand over before it is at rest. `LeaseHasHolder`: until a mishap a
  valid lease has its call, so the last wake of a call finds either the lease gone,
  and reports an alarm, or another call at work. `WorkIsAttended`: until a mishap,
  unfinished work has the alarm set or a call other than a request under way, and
  every call that ends hands it to the alarm, to the next run, or to a call that is
  still there. `ArmedAtRest` is `WorkIsAttended` where no call is under way.
- `HostImplementsTurnSpec`: `Spec => ImplementsTurnSpec`. The mapping takes `turns` for
  `state`, `queue` for `line`, and a log that never grows. `HostInv` adds to the types
  that a turn is queued exactly while its status says so and only once
  (`QueuedOnce`), that only the active turn is started (`StartedIsActive`,
  `OwnerIsActive`), that an open incident is the active turn's (`IncidentIsActive`),
  and that turns are admitted in order (`AdmittedFirst`). Then every action is a
  stutter (`EngineAlone`) or one of three steps: the active turn ends, the head of
  the queue starts, the next turn is submitted.

### Delivery

`StreamDeliveryProofs`, for any parking buffer, reconnect budget and number of turns,
events, submissions, alarms and faults (`DeliveryAssumption`: they are natural
numbers):

- `TypeCorrect`: `Spec => []TypeOK`.
- `NoGateOutlives`: `Spec => []GateHasResume`.
- `HandoffComplete`: `Spec => HandoffCatchesUp`.

The invariant is `DeliveryInv`. Its first half, `TypeInv`, completes the types and adds
`EngineAgrees` (what is yet to be broadcast is the last event of the turn that is being
driven) and `TurnsFit` (every submission in flight finds its stream), which needs the
counting lemmas at the head of the module. Its second half has a part per argument:

- `SocketAgrees`: an open connection is the client's open socket, a dialing one has
  nothing in flight but frames of old sockets.
- `OneResume`: a connection has one resume at a time, as its probe, then as its
  acknowledgement, then as its handler; each step passes it on or drops the connection.
  `GateHasResume` is kept because a gate is set by the step that starts one of the
  three, and a step that ends the last of them also removes the gate or the connection;
  or it is a failure of storage, which marks the resume as failed until the connection
  goes.
- `GateFollows`: while a backlog is read and drained the gate is on its stream.
- `NothingMissed`: of that stream, every event broadcast behind the backlog that was
  read is parked, or at or below the gate's high-water mark. Appending changes nothing
  (the broadcast is to come), a broadcast parks its event or closes the socket, and an
  isolate that is lost takes the connection along.

`HandedOff` numbers the events it sends by their rank among them; `Ranks` shows that
the ranks of a finite set of numbers are those from 1 to its cardinality, so the last event
sent is the latest (`HandedOffLast`). With `NothingMissed` that is `HandoffReaches`.

`StreamDeliveryOrderProofs` proves `NoEventShownTwice`, for the same constants:

    Safe /\ [][Hibernate => conn.gate = NoGate]_vars => []ShownOnce

The premise says that no object is hibernated while a connection is gated, and it is
needed: a gate is in memory, so a hibernation between the upgrade and the `ResumeAck`
takes it away, an event of the next turn then goes live in front of the backlog that is to
hold it, and the client may show it twice (section 6). With one turn TLC finds
no such behaviour, so the run needs no premise. Lost isolates, lost connections and stale frames need none
either: they take the connection along with its gate.

`ShownOnce` speaks of the client alone, and the client's only defence is its cursor. But the
cursor does not remember: a frame of another stream, a probe or an acceptance resets it.
So the proof is about the frames on the way. `OrderInv`, next to `DeliveryInv`, says:

- `WireOrder`: of two events of a stream, one shown or on the way and the other behind it,
  the second has the higher sequence, or the cursor will have reached it when it arrives
  and it is refused (`Seen`: a `ResumeComplete` ahead of it, or the client's own cursor,
  with only frames in between that leave the cursor alone), or a frame between them makes
  the client forget the first (`Together` excludes that). While a probe is on the way no
  event of its stream is.
- `HandoffOrder`: the same for the event that is yet to be broadcast, while no gate of its
  stream is there to park it (`OrderToCome`). A connection has one stream to hand off, on
  which its gate stays until the backlog is sent (`OneStream`); no event of a gated stream
  is on the way (`GateHolds`); and the cursor from which the replay starts is not behind
  anything shown of it (`CursorBehind`), since the probe makes the client forget what it
  has beyond.
- `Logged`: every event, wherever it is, is one of the log; so an event appended next is
  behind all of them.
- `TurnGoesOn`: an event is to be broadcast only of a turn that is open, so no terminal of
  that turn can move the cursor in front of it. Here the guard of `AppendToLog` about
  `notices` and `ringing` (section 2) is used, by this part of the invariant only.

A `replay` that fails removes its gate ahead of the backlog, so an event of its stream may
be broadcast next with nothing to park it. `ReplaySeen` keeps what `HandoffOrder` then
needs from the upgrade on: while the resume of the active stream is awaited, everything shown
of it is before the event to come, or the probe on the way makes the client forget it, or
its cursor refuses the event.

TLC found no violation of `OrderInv` and `ReplaySeen`, with hibernations of ungated
connections only, in any state of two instances: one turn of two events with two faults,
and two turns of one event with one fault, one submission and one alarm. Each action either leaves order alone (`IdleOrder`), sends frames without events
(`SentOrder`, `SentToCome`), sends the event to come (`BroadcastOrder`) or the backlog
(`DrainHandoffOrder`, where `HandedOffOrder` says that what is sent is ascending and above
the cursor), or is the client's (`ApplyOrder`: `AppliedKinds` has the four things a frame
does to what is shown).

### The transcript

`SessionTranscriptProofs`, for any retention of at least one message, any threshold and
tool limit, and any number of turns, requests and losses (`TranscriptAssumption`):

- `TypeCorrect`, `OneMessageEachHolds`, `TurnsInOrderHolds`, `OverlaysAdvanceHolds`,
  `QuestionInSightHolds`: `Spec => []` of the invariant each is named for.
- `MessagesKeptHolds`, `UpdatesKeptHolds`: `Spec` implies the action properties.

The invariant is `TranscriptInv` (`TranscriptInvariant`). Its parts, in the order in
which they need each other:

- `OneTurn`: the started turn is the active one, those before it are over, and once the
  active turn has captured the session no request is pending. The last part is where the
  lock's order of arrival enters; nothing else in the code keeps an update from landing
  between the capture of a turn's snapshot and its load.
- `Copies`: whoever holds the lock has the record as it is, and what a fresh attempt is
  about to load is named by its snapshot in full. Without it the filter of
  `prepareRuntimeTurn` would be free to drop what the snapshot does not name. With it the
  filtered view is the record itself (`AllEntries`), so no save brings back an older one.
- `QuestionFirst` and `Written`: a turn that has opened its stream has its question in the
  transcript, and so has every turn that has written anything. A continuation relies on
  that: it adds no question.
- `Named`, `OnlyLaterBlank`: the ids of a turn are for its messages, and a second message
  under an id was added for a response without content (`Rewriting`: a rewrite keeps both).
- `TurnsInOrder`, by itself inductive with the parts above: only the active turn writes,
  and no message is of a later one (`NoneBehind`).
- `OverlaysBehind`: overlays end at messages of turns that are over, and advance if the ids
  of those turns are unique. `OverlaysAdvance` alone is not inductive: a partial write
  replaces a message that may hold a tool call, and a blank message makes an id
  ambiguous. Both concern the active turn only, whose messages no overlay covers, because a
  compaction runs while no turn is active or before the active one has asked.

Every action does one of four things to the record (`SessionSteps`): it is kept,
its context is updated, an overlay is added, or messages of the active turn are added or
rewritten under their ids (`Extends`). `QuestionInSight` then needs no case of its own:
an overlay ends at a message of an earlier turn, the order of turns puts the question
behind it.

### What is only model-checked

The properties of the engine with overlapping isolates but `SingleWriter`; `ShownOnce`
of `StreamDelivery` where a hibernation takes a gate away, which holds for one turn and fails
for more (section 6); and the five counterexamples. Out of
the prover's reach: liveness under fairness (`EndsUnattended`, `EndsIfVisited`,
`AcceptsAgain`, `Converges`), `ENABLED`, and what a recursive definition computes.

## 6. Not modelled

- Chat catalog: one pure, sequential transition per call, with unit tests. Which of
  two concurrent prompts gives a chat its title is left to the order of arrival.
- Migrations of stored state and of legacy sessions, and decoding failures: pure
  functions that run once, before any state of these models.
- `AgentService.sendMessage` and `prepareLegacyTurn`, which the deployed Worker does not
  call; the live-test abort.
- `StreamAck`, ping, undecodable frames and frames over 64 KiB, which the codec
  refuses.
- The client's side of two turns in a row. The theorems of delivery hold for any number
  of turns, but the run has one: with two, the model shows
  effects that no document speaks of. A `StreamTerminal` or `ResumeComplete` of the first
  turn that arrives after the second was accepted overwrites what the client shows
  of the second; a `Recovering` frame of another stream keeps `lastSequence`;
  `TurnAccepted` for a queued turn makes the active turn's next event a gap; the probe
  names the latest queued stream when none is active; and after a hibernation
  between the upgrade and the acknowledgement an event can be shown twice, which is the
  one case `NoEventShownTwice` has to leave out.
- Cleanup of a stream between the upgrade and its `ResumeAck`, which `replay` answers with
  an error as it does a failure of storage.
- Failures of storage outside the adapter's handlers of frames and terminals. Those
  inside are modelled, and their effect is: a gate left by a failed `wake` or a failed
  first read of `handleResume` holds back the live events of its stream, and the client
  shows "replaying" or an error, until its connection ends. Nothing in the code ends it
  for that reason.
- The codes of `WebSocket.close` in the client. It closes with 1012 after a gap and 1008
  after an error; a browser accepts 1000 and 3000 to 4999 only and throws for others, and
  the apply queue goes on after a task that throws. The model takes the call for a close,
  as the socket's interface does.
- Wire schemas, backend routing, the website, lint rules and deployment keep no state
  the properties speak of.

The model, the tools and the platform are environment: the model may emit any
number of deltas, fail, or stall; storage transactions are atomic, as the Durable
Object's are; ids drawn at random are distinct.
