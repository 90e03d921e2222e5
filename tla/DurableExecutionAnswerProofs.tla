---------------------- MODULE DurableExecutionAnswerProofs ----------------------
(***************************************************************************)
(* Proof that a completed turn has its answer in the transcript.  The      *)
(* transcript is written outside the transactions of the runtime state, so *)
(* the argument is about the calls: one that works on an operation works   *)
(* on the active one, nobody else writes that operation's message, and     *)
(* each place in the call's code says what the transcript holds by then.   *)
(* As in DurableExecutionStoreProofs, no replaced isolate goes on running. *)
(***************************************************************************)
EXTENDS DurableExecutionStoreProofs

\* Where a call names an operation it will write or has proof about.
Bound == Claimed \cup {"reconcile-commit"}

\* What a call's place in the code says of the transcript and of the ledger.
CallSaved(f) ==
    LET r == fibers[f] IN
    /\ r.op = active
    /\ r.pc = "reconcile-commit" => transcript[r.op].saved # "none"
    /\ r.pc \in {"partial-write", "partial-complete"} => operations[r.op].partial # "none"
    /\ r.pc = "stream" /\ r.step \in {"saved", "ended"} => transcript[r.op].saved = "final"

Answered(o) ==
    /\ transcript[o].saved # "none"
    /\ operations[o].partial = "none" /\ ~ToolsEnabled => transcript[o].saved = "final"

\* The message of the active operation is partial only where the ledger or a tool
\* round says so; a turn that has not started has no message.
Answers ==
    /\ \A f \in Fiber : fibers[f].pc \in Bound => CallSaved(f)
    /\ \A o \in OpId : TurnState[o] = "completed" => Answered(o)
    /\ \A o \in OpId : active = o /\ operations[o].partial = "none" /\ ~ToolsEnabled
                          => transcript[o].saved # "partial"
    /\ \A o \in OpId : TurnState[o] \in {"absent", "queued"} => transcript[o].saved = "none"

\* A step the store's proof covers.
Step == StoreInv /\ StoreInv' /\ TurnStep /\ Answers

-----------------------------------------------------------------------------
(* What follows from the store's invariant *)

\* The states of a turn, from those of its record.
LEMMA TurnOfRecord ==
    ASSUME TypeInv, NEW o \in OpId
    PROVE  /\ TurnState[o] = "completed" <=> operations[o].status = "completed"
           /\ TurnState[o] = "started" <=> operations[o].status \in Busy
<1>1. operations[o].status \in {"absent", "queued"} \cup Busy \cup Terminal
  BY StoreTypes DEF Operation, Status, Busy, Executing, Terminal
<1> QED
  BY <1>1, TurnStates DEF Busy, Executing, Terminal

\* The same of the state after a step.
LEMMA TurnOfNextRecord ==
    ASSUME TypeInv', NEW o \in OpId
    PROVE  /\ TurnState'[o] = "completed" <=> operations'[o].status = "completed"
           /\ TurnState'[o] = "started" <=> operations'[o].status \in Busy
<1>1. operations'[o].status \in {"absent", "queued"} \cup Busy \cup Terminal
  BY DEF TypeInv, TypeOK, Operation, Status, Busy, Executing, Terminal
<1> QED
  BY <1>1, TurnStatesNext DEF Busy, Executing, Terminal

\* The active turn is the started one.
LEMMA StartedIsActive ==
    ASSUME StoreInv, NEW o \in OpId
    PROVE  TurnState[o] = "started" <=> active = o
  BY TurnOfRecord DEF StoreInv, Agrees, Sound

\* The same of the state after a step.
LEMMA StartedIsActiveNext ==
    ASSUME StoreInv', NEW o \in OpId
    PROVE  TurnState'[o] = "started" <=> active' = o
  BY TurnOfNextRecord DEF StoreInv, Agrees, Sound

\* Where a turn can come from.
LEMMA TurnPath ==
    ASSUME StoreInv, TurnStep, NEW o \in OpId
    PROVE  /\ TurnState'[o] \in {"absent", "queued"} => TurnState[o] \in {"absent", "queued"}
           /\ TurnState'[o] = "started" => TurnState[o] \in {"queued", "started"}
           /\ TurnState'[o] = "completed" => TurnState[o] \in {"started", "completed"}
<1>1. TurnState = [p \in OpId |-> TurnState[p]]
  BY TurnStateFunction
<1>2. CASE UNCHANGED Turns!turnVars
  BY <1>2 DEF Turns!turnVars
<1>3. ASSUME NEW t \in OpId, Turns!SubmitTurn(t) \/ Turns!ExtendLog(t)
      PROVE  \/ TurnState'[o] = TurnState[o]
             \/ TurnState[o] = "absent" /\ TurnState'[o] = "queued"
  <2>1. CASE Turns!SubmitTurn(t)
    BY <1>1, <2>1 DEF Turns!SubmitTurn
  <2>2. CASE Turns!ExtendLog(t)
    BY <2>2 DEF Turns!ExtendLog
  <2> QED
    BY <1>3, <2>1, <2>2
<1>4. ASSUME NEW t \in OpId, Turns!StartNext(t)
      PROVE  \/ TurnState'[o] = TurnState[o]
             \/ TurnState[o] = "queued" /\ TurnState'[o] = "started"
  <2>1. queue # << >> /\ t = Head(queue) /\ queue' = Tail(queue)
    BY <1>4 DEF Turns!StartNext
  <2>2. t \in Waiting
    BY <2>1, HeadAndTail DEF StoreInv, Agrees
  <2>3. TurnState[t] = "queued"
    BY <2>2, TurnStates DEF StoreInv, Agrees, Sound
  <2> QED
    BY <1>1, <1>4, <2>3 DEF Turns!StartNext
<1>5. ASSUME NEW t \in OpId, NEW outcome \in Turns!Outcomes, Turns!End(t, outcome)
      PROVE  \/ TurnState'[o] = TurnState[o]
             \/ TurnState[o] = "started" /\ TurnState'[o] \in Turns!Outcomes
  BY <1>1, <1>5 DEF Turns!End
<1>6. ASSUME NEW turns \in SUBSET OpId, Turns!Forget(turns)
      PROVE  TurnState'[o] \in {TurnState[o], "forgotten"}
  BY <1>6 DEF Turns!Forget
<1> QED
  BY <1>2, <1>3, <1>4, <1>5, <1>6 DEF TurnStep, Turns!TurnNext, Turns!Outcomes

\* A call that works on an operation works on a started one, and no other call does.
LEMMA BoundToActive ==
    ASSUME StoreInv, Answers, NEW f \in Fiber, fibers[f].pc \in Bound
    PROVE  /\ fibers[f].op = active /\ active \in OpId
           /\ fibers[f].pc \in Holding /\ fibers[f].pc # "idle"
           /\ operations[active].status \in Busy
<1>1. fibers[f].op = active /\ fibers[f].op \in OpId
  BY DEF Answers, CallSaved, StoreInv, TypeInv, NamesOperation, Bound, Working
<1> QED
  BY <1>1 DEF StoreInv, Agrees, Sound, Bound, Claimed, Holding, PC

\* While one call holds the permit, no other is at a place that is bound to an
\* operation.
LEMMA OtherHolders ==
    ASSUME StoreInv, NEW f \in Fiber, fibers[f].pc \in Holding, NEW g \in Fiber, g # f
    PROVE  fibers[g].pc \notin Bound
  BY DEF StoreInv, OnePermit, Holding, Bound, Claimed, PC

\* While an operation stays active its ledger entry of a partial answer stays.
LEMMA ActivePartialStays ==
    ASSUME Step, NEW o \in OpId, active = o, active' = o
    PROVE  PartialStays(o)
<1>1. operations[o].status \in Busy /\ operations'[o].status \in Busy
  BY DEF Step, StoreInv, Agrees, Sound
<1>2. operations[o].status # "absent" /\ operations'[o] # AbsentOperation
  BY <1>1 DEF Busy, Executing, AbsentOperation
<1> QED
  BY <1>2 DEF Step, TurnStep, KeepsPartials

-----------------------------------------------------------------------------
(* The ways a step keeps the answers *)

\* The message and the ledger entry stay, so what a call's place says stays true.
LEMMA CallSavedStays ==
    ASSUME Step, NEW f \in Fiber, fibers[f].pc \in Bound,
           transcript' = transcript, active' = active, fibers'[f] = fibers[f]
    PROVE  CallSaved(f)'
<1>1. PICK o \in OpId : o = active
  BY BoundToActive DEF Step
<1>2. PartialStays(o) /\ CallSaved(f)
  BY <1>1, ActivePartialStays DEF Step, Answers
<1> QED
  BY <1>1, <1>2 DEF CallSaved, PartialStays

\* The transcript stays, and so does the active operation, or the next one starts.
LEMMA AnswersGoOn ==
    ASSUME Step, transcript' = transcript, active' = active \/ active = None,
           \A f \in Fiber : fibers'[f].pc \in Bound =>
               CallSaved(f)' \/ (fibers'[f] = fibers[f] /\ active' = active)
    PROVE  Answers'
<1> USE DEF Step
<1>1. None \notin OpId
  BY StoreTypes DEF StoreInv
<1>2. ASSUME NEW f \in Fiber, fibers'[f].pc \in Bound PROVE CallSaved(f)'
  BY <1>2, CallSavedStays
<1>3. ASSUME NEW o \in OpId, TurnState'[o] = "completed" PROVE Answered(o)'
  <2>1. TurnState[o] = "completed"
    <3>1. TurnState[o] = "started" => active' = o
      BY <1>1, StartedIsActive
    <3>2. active' # o
      BY <1>3, StartedIsActiveNext
    <3> QED
      BY <1>3, <3>1, <3>2, TurnPath
  <2>2. operations'[o] = operations[o]
    <3>1. operations[o].status = "completed" /\ operations'[o].status = "completed"
      BY <1>3, <2>1, TurnOfRecord, TurnOfNextRecord DEF StoreInv
    <3> QED
      BY <3>1 DEF TurnStep, KeepsOutcomes, Terminal, AbsentOperation
  <2> QED
    BY <2>1, <2>2 DEF Answers, Answered
<1>4. ASSUME NEW o \in OpId, active' = o, operations'[o].partial = "none", ~ToolsEnabled
      PROVE  transcript'[o].saved # "partial"
  <2>1. CASE active = o
    <3>1. operations[o].partial = "none"
      BY <1>4, <2>1, ActivePartialStays DEF PartialStays
    <3> QED
      BY <1>4, <2>1, <3>1 DEF Answers
  <2>2. CASE active = None
    <3>1. TurnState[o] # "started" /\ TurnState'[o] = "started"
      BY <1>1, <1>4, <2>2, StartedIsActive, StartedIsActiveNext
    <3> QED
      BY <3>1, TurnPath DEF Answers
  <2> QED
    BY <1>4, <2>1, <2>2
<1>5. \A o \in OpId : TurnState'[o] \in {"absent", "queued"} => transcript'[o].saved = "none"
  BY TurnPath DEF Answers
<1> QED
  BY <1>2, <1>3, <1>4, <1>5 DEF Answers

\* The active operation ends, and with it the call that holds the permit.
LEMMA AnswersEnd ==
    ASSUME Step, transcript' = transcript, active' = None,
           NEW f \in Fiber, fibers[f].pc \in Holding, Stop(f),
           NEW o \in OpId, active = o, operations'[o].status = "completed" => Answered(o)'
    PROVE  Answers'
<1> USE DEF Step
<1>1. None \notin OpId
  BY StoreTypes DEF StoreInv
<1>2. \A g \in Fiber : fibers'[g].pc \notin Bound
  <2>1. "idle" \notin Bound
    BY DEF Bound, Claimed
  <2>2. \A g \in Fiber : fibers'[g] = IF g = f THEN Idle ELSE fibers[g]
    BY DEF Stop, StoreInv, TypeInv, TypeOK
  <2> QED
    BY <2>1, <2>2, OtherHolders DEF Idle
<1>3. ASSUME NEW p \in OpId, TurnState'[p] = "completed" PROVE Answered(p)'
  <2>1. operations'[p].status = "completed"
    BY <1>3, TurnOfNextRecord DEF StoreInv
  <2>2. CASE p = o
    BY <2>1, <2>2
  <2>3. CASE p # o
    <3>1. TurnState[p] = "completed"
      BY <1>3, <2>3, StartedIsActive, TurnPath
    <3>2. operations[p].status = "completed"
      BY <3>1, TurnOfRecord DEF StoreInv
    <3>3. operations'[p] = operations[p]
      BY <2>1, <3>2 DEF TurnStep, KeepsOutcomes, Terminal, AbsentOperation
    <3> QED
      BY <3>1, <3>3 DEF Answers, Answered
  <2> QED
    BY <2>2, <2>3
<1>4. \A p \in OpId : TurnState'[p] \in {"absent", "queued"} => transcript'[p].saved = "none"
  BY TurnPath DEF Answers
<1> QED
  BY <1>1, <1>2, <1>3, <1>4 DEF Answers

\* A call writes the message of its operation.
LEMMA AnswersSaved ==
    ASSUME Step, NEW f \in Fiber, fibers[f].pc \in Bound,
           UNCHANGED <<operations, active, admitted>>,
           NEW text, NEW saved \in {"partial", "final"},
           transcript' = [transcript EXCEPT ![fibers[f].op] = [text |-> text, saved |-> saved]],
           saved = "partial" => ToolsEnabled \/ operations[fibers[f].op].partial # "none",
           \A g \in Fiber \ {f} : fibers'[g] = fibers[g],
           CallSaved(f)'
    PROVE  Answers'
<1> USE DEF Step
<1>1. PICK o \in OpId : o = active /\ o = fibers[f].op /\ fibers[f].pc \in Holding
  BY BoundToActive
<1>2. /\ transcript'[o].saved = saved
      /\ \A p \in OpId \ {o} : transcript'[p] = transcript[p]
  BY <1>1 DEF StoreInv, TypeInv, TypeOK
<1>3. TurnState' = TurnState /\ TurnState[o] = "started"
  BY <1>1, StartedIsActive DEF TurnState
<1>4. \A g \in Fiber : fibers'[g].pc \in Bound => CallSaved(g)'
  BY <1>1, OtherHolders
<1>5. \A p \in OpId : TurnState'[p] = "completed" => Answered(p)'
  BY <1>2, <1>3 DEF Answers, Answered
<1>6. \A p \in OpId : active' = p /\ operations'[p].partial = "none" /\ ~ToolsEnabled
                        => transcript'[p].saved # "partial"
  BY <1>1, <1>2
<1>7. \A p \in OpId : TurnState'[p] \in {"absent", "queued"} => transcript'[p].saved = "none"
  BY <1>2, <1>3 DEF Answers
<1> QED
  BY <1>4, <1>5, <1>6, <1>7 DEF Answers

\* Calls start or end; the rest of them stay where they are.
LEMMA AnswersKept ==
    ASSUME Step, transcript' = transcript, active' = active,
           \A f \in Fiber : fibers'[f] = fibers[f] \/ fibers'[f].pc \notin Bound
    PROVE  Answers'
  BY AnswersGoOn

\* One call ends.
LEMMA AnswersStop ==
    ASSUME Step, transcript' = transcript, active' = active, NEW f \in Fiber, Stop(f)
    PROVE  Answers'
<1>1. Idle.pc \notin Bound
  BY DEF Idle, Bound, Claimed
<1>2. \A g \in Fiber : fibers'[g] = IF g = f THEN Idle ELSE fibers[g]
  BY DEF Stop, Step, StoreInv, TypeInv, TypeOK
<1> QED
  BY <1>1, <1>2, AnswersKept

\* One call moves on to a place that says nothing of the transcript.
LEMMA AnswersMove ==
    ASSUME Step, transcript' = transcript, active' = active, NEW f \in Fiber,
           NEW r, fibers' = [fibers EXCEPT ![f] = r], r.op = active,
           r.pc \notin {"reconcile-commit", "partial-write", "partial-complete"},
           r.pc = "stream" => r.step \notin {"saved", "ended"}
    PROVE  Answers'
<1>1. \A g \in Fiber : fibers'[g] = IF g = f THEN r ELSE fibers[g]
  BY DEF Step, StoreInv, TypeInv, TypeOK
<1>2. CallSaved(f)'
  BY <1>1 DEF CallSaved
<1> QED
  BY <1>1, <1>2, AnswersGoOn

\* A call that moves on without a write keeps Answers.
LEMMA AnswersGoto ==
    ASSUME Step, transcript' = transcript, active' = active, NEW f \in Fiber,
           fibers[f].pc \in Bound, NEW pc \in {"partial-begin", "mark"}, Goto(f, pc)
    PROVE  Answers'
<1> DEFINE r == [fibers[f] EXCEPT !.pc = pc, !.since = now]
<1>1. r.op = fibers[f].op /\ r.pc = pc /\ fibers' = [fibers EXCEPT ![f] = r]
  BY WorkingType DEF Step, StoreInv, FiberRecord, Goto
<1>2. fibers[f].op = active
  BY BoundToActive DEF Step
<1> HIDE DEF r
<1> QED
  BY <1>1, <1>2, AnswersMove

\* A call that fails goes to its catch and keeps Answers.
LEMMA AnswersFail ==
    ASSUME Step, transcript' = transcript, active' = active, NEW f \in Fiber,
           fibers[f].pc \in Bound, NEW error, Fail(f, error)
    PROVE  Answers'
<1> DEFINE r == [fibers[f] EXCEPT !.pc = "catch", !.error = error, !.since = now]
<1>1. r.op = fibers[f].op /\ r.pc = "catch" /\ fibers' = [fibers EXCEPT ![f] = r]
  BY WorkingType DEF Step, StoreInv, FiberRecord, Fail
<1>2. fibers[f].op = active
  BY BoundToActive DEF Step
<1> HIDE DEF r
<1> QED
  BY <1>1, <1>2, AnswersMove

-----------------------------------------------------------------------------
(* The transitions *)

\* No turn is admitted and nobody calls.
LEMMA InitAnswers == Init => Answers
<1> SUFFICES ASSUME Init PROVE Answers
  OBVIOUS
<1>1. \A f \in Fiber : fibers[f].pc \notin Bound
  BY DEF Init, Idle, Bound, Claimed
<1>2. \A o \in OpId : transcript[o].saved = "none" /\ operations[o].status = "absent"
  BY DEF Init, AbsentOperation
<1>3. \A o \in OpId : TurnState[o] # "completed"
  BY <1>2, TurnStates
<1> QED
  BY <1>1, <1>2, <1>3 DEF Answers

\* An admitted turn has no message yet.
LEMMA AdmitAnswers ==
    ASSUME Step, NEW s \in Submission, NEW spawn \in AtMostOne, Admit(s, spawn)
    PROVE  Answers'
<1>1. \A f \in Fiber : fibers'[f] \in {fibers[f], Spawned("run", boot, admitted + 1)}
  BY DEF Admit
<1>2. Spawned("run", boot, admitted + 1).pc \notin Bound
  BY DEF Spawned, Idle, Bound, Claimed
<1> QED
  BY <1>1, <1>2, AnswersKept DEF Admit

\* claim binds the call to the operation it makes active.
LEMMA ClaimAnswers ==
    ASSUME Step, NEW f \in Fiber, Claim(f)
    PROVE  Answers'
<1> DEFINE o == fibers[f].op
           r == [fibers[f] EXCEPT !.pc = "snapshot", !.generation = generation + 1,
                                  !.attempt = operations[o].attempt, !.since = now]
<1>1. CASE ~Claimable(o)
  BY <1>1, AnswersStop DEF Claim
<1>2. CASE Claimable(o)
  <2>1. r.op = o /\ r.pc = "snapshot"
    BY WorkingType DEF Step, StoreInv, FiberRecord
  <2>2. fibers' = [fibers EXCEPT ![f] = r] /\ active' = o /\ transcript' = transcript
    BY <1>2 DEF Claim
  <2>3. active' = active \/ active = None
    BY <1>2, <2>2 DEF Claimable
  <2> HIDE DEF r
  <2>4. \A g \in Fiber : fibers'[g] = IF g = f THEN r ELSE fibers[g]
    BY <2>2 DEF Step, StoreInv, TypeInv, TypeOK
  <2>5. CallSaved(f)'
    BY <2>1, <2>2, <2>4 DEF CallSaved
  <2>6. ASSUME NEW g \in Fiber, g # f, fibers[g].pc \in Bound PROVE active' = active
    <3>1. active # None
      BY <2>6, BoundToActive, StoreTypes DEF Step, StoreInv
    <3> QED
      BY <2>3, <3>1
  <2> QED
    BY <2>2, <2>3, <2>4, <2>5, <2>6, AnswersGoOn
<1> QED
  BY <1>1, <1>2

\* The request snapshot concerns no message.
LEMMA SnapshotAnswers ==
    ASSUME Step, NEW f \in Fiber, PersistRequestSnapshot(f)
    PROVE  Answers'
<1>1. fibers[f].pc \in Bound /\ UNCHANGED <<transcript, active>>
  BY DEF PersistRequestSnapshot, Bound, Claimed
<1>2. Stop(f) \/ Goto(f, "partial-begin") \/ Goto(f, "mark")
  BY DEF PersistRequestSnapshot
<1> QED
  BY <1>1, <1>2, AnswersStop, AnswersGoto

\* Neither does the mark that the turn is streaming.
LEMMA MarkAnswers ==
    ASSUME Step, NEW f \in Fiber, MarkStreaming(f)
    PROVE  Answers'
<1> DEFINE step == IF fibers[f].mode = "continue" THEN "body" ELSE "begin"
           base == IF fibers[f].mode = "continue"
                   THEN Len(transcript[fibers[f].op].text) ELSE 0
           r == [fibers[f] EXCEPT !.pc = "stream", !.since = now, !.parts = << >>,
                                  !.step = step, !.base = base]
<1>1. fibers[f].op = active /\ UNCHANGED <<transcript, active>>
  BY BoundToActive DEF Step, MarkStreaming, Bound, Claimed
<1>2. r.op = fibers[f].op /\ r.pc = "stream" /\ r.step \in {"begin", "body"}
  <2>1. step \in {"begin", "body"}
    OBVIOUS
  <2> HIDE DEF step, base
  <2> QED
    BY <2>1, WorkingType DEF Step, StoreInv, FiberRecord
<1>3. Stop(f) \/ fibers' = [fibers EXCEPT ![f] = r]
  BY DEF MarkStreaming
<1> HIDE DEF r
<1> QED
  BY <1>1, <1>2, <1>3, AnswersStop, AnswersMove

\* Only the last event of a turn comes after its answer was saved.
LEMMA EmitAnswers ==
    ASSUME Step, NEW f \in Fiber,
           EmitStarted(f) \/ EmitText(f) \/ EmitTool(f) \/ EmitDone(f)
    PROVE  Answers'
<1>1. /\ fibers[f].pc = "stream" /\ fibers[f].pc \in Bound /\ fibers[f] \in FiberRecord
      /\ fibers[f].op = active /\ UNCHANGED <<transcript, active>>
  BY BoundToActive, WorkingType DEF Step, StoreInv, Bound, Claimed,
     EmitStarted, EmitText, EmitTool, EmitDone, Streaming, EventUnchanged
<1>2. CASE Fail(f, "fatal")
  BY <1>1, <1>2, AnswersFail
<1>3. CASE EmitStarted(f) /\ ~Fail(f, "fatal")
  <2> DEFINE r == [fibers[f] EXCEPT !.step = "body", !.since = now]
  <2>1. r.op = fibers[f].op /\ r.pc = "stream" /\ r.step = "body"
    BY <1>1 DEF FiberRecord
  <2>2. fibers' = [fibers EXCEPT ![f] = r]
    BY <1>3 DEF EmitStarted, AppendEvent
  <2> HIDE DEF r
  <2> QED
    BY <1>1, <2>1, <2>2, AnswersMove
<1>4. CASE EmitText(f) /\ ~Fail(f, "fatal")
  <2> DEFINE part == fibers[f].base + Len(fibers[f].parts) + 1
             parts == Append(fibers[f].parts, part)
             r == [fibers[f] EXCEPT !.parts = parts, !.since = now]
  <2>1. r.op = fibers[f].op /\ r.pc = "stream" /\ r.step = "body"
    <3>1. fibers[f].step = "body"
      BY <1>4 DEF EmitText, Streaming
    <3> HIDE DEF parts
    <3> QED
      BY <1>1, <3>1 DEF FiberRecord
  <2>2. fibers' = [fibers EXCEPT ![f] = r]
    BY <1>4 DEF EmitText, AppendEvent
  <2> HIDE DEF r
  <2> QED
    BY <1>1, <2>1, <2>2, AnswersMove
<1>5. CASE EmitTool(f) /\ ~Fail(f, "fatal")
  <2> DEFINE r == [fibers[f] EXCEPT !.since = now]
  <2>1. r.op = fibers[f].op /\ r.pc = "stream" /\ r.step = "body"
    BY <1>1, <1>5 DEF FiberRecord, EmitTool, Streaming
  <2>2. fibers' = [fibers EXCEPT ![f] = r]
    BY <1>5 DEF EmitTool, AppendEvent
  <2> HIDE DEF r
  <2> QED
    BY <1>1, <2>1, <2>2, AnswersMove
<1>6. CASE EmitDone(f) /\ ~Fail(f, "fatal")
  <2> DEFINE r == [fibers[f] EXCEPT !.step = "ended", !.since = now]
  <2>1. r.op = fibers[f].op /\ r.pc = "stream" /\ fibers[f].step = "saved"
    BY <1>1, <1>6 DEF FiberRecord, EmitDone, Streaming
  <2>2. fibers' = [fibers EXCEPT ![f] = r]
    BY <1>6 DEF EmitDone, AppendEvent
  <2> HIDE DEF r
  <2>3. \A g \in Fiber : fibers'[g] = IF g = f THEN r ELSE fibers[g]
    BY <2>2 DEF Step, StoreInv, TypeInv, TypeOK
  <2>4. CallSaved(f)'
    BY <1>1, <2>1, <2>3 DEF Step, Answers, CallSaved
  <2> QED
    BY <1>1, <2>3, <2>4, AnswersGoOn
<1> QED
  BY <1>2, <1>3, <1>4, <1>5, <1>6

\* persistResponse and persistPartial write the message of the active operation.
LEMMA SaveAnswers ==
    ASSUME Step, NEW f \in Fiber, SaveToolRound(f) \/ SaveAnswer(f) \/ WritePartial(f)
    PROVE  Answers'
<1>1. /\ fibers[f].pc \in Bound /\ fibers[f] \in FiberRecord /\ fibers[f].op = active
      /\ UNCHANGED <<operations, active, admitted>>
  BY BoundToActive, WorkingType DEF Step, StoreInv, Bound, Claimed, stored,
     SaveToolRound, SaveAnswer, SaveResponse, Streaming, WritePartial
<1>2. PICK o \in OpId : o = active
  BY <1>1, BoundToActive DEF Step
<1>3. CASE SaveToolRound(f)
  <2> DEFINE text == transcript[o].text \o fibers[f].parts
             base == fibers[f].base + Len(fibers[f].parts)
             r == [fibers[f] EXCEPT !.base = base, !.parts = << >>]
  <2>1. r.op = fibers[f].op /\ r.pc = "stream" /\ r.step = "body"
    <3>1. fibers[f].pc = "stream" /\ fibers[f].step = "body"
      BY <1>3 DEF SaveToolRound, SaveResponse, Streaming
    <3> HIDE DEF base
    <3> QED
      BY <1>1, <3>1 DEF FiberRecord
  <2>2. fibers' = [fibers EXCEPT ![f] = r]
    BY <1>3 DEF SaveToolRound
  <2>3. transcript' = [transcript EXCEPT ![fibers[f].op] = [text |-> text, saved |-> "partial"]]
    BY <1>1, <1>2, <1>3 DEF SaveToolRound, SaveResponse, Step, StoreInv, TypeInv, TypeOK
  <2>4. ToolsEnabled
    BY <1>3 DEF SaveToolRound
  <2> HIDE DEF r, text
  <2>5. \A g \in Fiber : fibers'[g] = IF g = f THEN r ELSE fibers[g]
    BY <2>2 DEF Step, StoreInv, TypeInv, TypeOK
  <2>6. CallSaved(f)'
    BY <1>1, <2>1, <2>5 DEF CallSaved
  <2> QED
    BY <1>1, <2>3, <2>4, <2>5, <2>6, AnswersSaved
<1>4. CASE SaveAnswer(f)
  <2> DEFINE text == transcript[o].text \o fibers[f].parts
             r == [fibers[f] EXCEPT !.step = "saved"]
  <2>1. r.op = fibers[f].op /\ r.pc = "stream"
    BY <1>1, <1>4 DEF FiberRecord, SaveAnswer, SaveResponse, Streaming
  <2>2. fibers' = [fibers EXCEPT ![f] = r]
    BY <1>4 DEF SaveAnswer
  <2>3. transcript' = [transcript EXCEPT ![fibers[f].op] = [text |-> text, saved |-> "final"]]
    BY <1>1, <1>2, <1>4 DEF SaveAnswer, SaveResponse, Step, StoreInv, TypeInv, TypeOK
  <2> HIDE DEF r, text
  <2>4. \A g \in Fiber : fibers'[g] = IF g = f THEN r ELSE fibers[g]
    BY <2>2 DEF Step, StoreInv, TypeInv, TypeOK
  <2>5. transcript'[o].saved = "final"
    BY <1>1, <1>2, <2>3 DEF Step, StoreInv, TypeInv, TypeOK
  <2>6. CallSaved(f)'
    BY <1>1, <1>2, <2>1, <2>4, <2>5 DEF CallSaved
  <2> QED
    BY <1>1, <2>3, <2>4, <2>6, AnswersSaved
<1>5. CASE WritePartial(f)
  <2> DEFINE text == fibers[f].parts
             r == [fibers[f] EXCEPT !.pc = "partial-complete", !.since = now]
  <2>1. r.op = fibers[f].op /\ r.pc = "partial-complete"
    BY <1>1 DEF FiberRecord
  <2>2. fibers' = [fibers EXCEPT ![f] = r]
    BY <1>5 DEF WritePartial, Goto
  <2>3. transcript' = [transcript EXCEPT ![fibers[f].op] = [text |-> text, saved |-> "partial"]]
    BY <1>5 DEF WritePartial
  <2>4. operations[active].partial # "none"
    BY <1>1, <1>5 DEF WritePartial, Step, Answers, CallSaved
  <2> HIDE DEF r, text
  <2>5. \A g \in Fiber : fibers'[g] = IF g = f THEN r ELSE fibers[g]
    BY <2>2 DEF Step, StoreInv, TypeInv, TypeOK
  <2>6. CallSaved(f)'
    BY <1>1, <2>1, <2>4, <2>5 DEF CallSaved
  <2> QED
    BY <1>1, <2>3, <2>4, <2>5, <2>6, AnswersSaved
<1> QED
  BY <1>3, <1>4, <1>5

\* Failures and ends of calls, and new calls.
LEMMA CallsOnlyAnswers ==
    ASSUME Step, NEW f \in Fiber,
           \/ PermitTimeout(f) \/ Stall(f) \/ Die(f) \/ StorageFails(f)
           \/ \E error \in {"retryable", "oom", "fatal"} : ExecutorFails(f, error)
           \/ WakeIdle(f) \/ StartRecover(f)
    PROVE  Answers'
<1>1. UNCHANGED <<transcript, active>>
  BY DEF PermitTimeout, Stall, Die, StorageFails, ExecutorFails, WakeIdle, StartRecover, stored
<1>2. CASE PermitTimeout(f) \/ Die(f)
  BY <1>1, <1>2, AnswersStop DEF PermitTimeout, Die
<1>3. CASE \/ Stall(f) \/ StorageFails(f)
           \/ \E error \in {"retryable", "oom", "fatal"} : ExecutorFails(f, error)
  BY <1>1, <1>3, AnswersFail
     DEF Stall, StorageFails, ExecutorFails, Streaming, Bound, Claimed
<1>4. CASE WakeIdle(f) \/ StartRecover(f)
  <2>1. \A g \in Fiber : fibers'[g] \in {fibers[g], Spawned("run", boot, Head(queue)),
                                         Spawned("recover", boot, None)}
    BY <1>4 DEF WakeIdle, StartRecover, Step, StoreInv, TypeInv, TypeOK
  <2>2. /\ Spawned("run", boot, Head(queue)).pc \notin Bound
        /\ Spawned("recover", boot, None).pc \notin Bound
    BY DEF Spawned, Idle, Bound, Claimed
  <2> QED
    BY <1>1, <2>1, <2>2, AnswersKept
<1> QED
  BY <1>2, <1>3, <1>4

\* The end of the stream comes after the answer was saved; a failure tells no answer.
LEMMA SettleAnswers ==
    ASSUME Step, NEW f \in Fiber, fibers[f].pc \in {"stream", "catch"},
           NEW outcome \in Terminal, Settle(f, outcome, FALSE), transcript' = transcript,
           outcome = "completed" => fibers[f].pc = "stream" /\ fibers[f].step = "ended"
    PROVE  Answers'
<1>1. fibers[f].pc \in Bound /\ fibers[f].pc \in Holding
  BY DEF Bound, Claimed, Holding, PC
<1>2. PICK o \in OpId : o = active /\ o = fibers[f].op
  BY <1>1, BoundToActive DEF Step
<1>3. active' = None /\ Stop(f)
  BY DEF Settle
<1>4. operations'[o].status = outcome
  <2> DEFINE q == fibers[f].op
             effects == operations[q].effects + 1
             expires == now + CompletedStreamRetention
             p == [operations[q] EXCEPT
                      !.status = outcome, !.checkpoint = "terminal",
                      !.owner = None, !.lease = Never, !.effects = effects,
                      !.stream = outcome, !.expires = expires]
  <2>1. q = o /\ q \in OpId /\ operations \in [OpId -> Operation] /\ operations[q] \in Operation
    BY <1>2, StoreTypes DEF Step, StoreInv
  <2>2. operations' = [operations EXCEPT ![q] = p]
    BY <2>1 DEF Settle
  <2>3. p.status = outcome
    <3> HIDE DEF effects, expires
    <3> QED
      BY <2>1 DEF Operation
  <2> HIDE DEF p, q
  <2> QED
    BY <2>1, <2>2, <2>3
<1>5. operations'[o].status = "completed" => Answered(o)'
  BY <1>1, <1>2, <1>4 DEF Step, Answers, CallSaved, Answered
<1> QED
  BY <1>1, <1>2, <1>3, <1>5, AnswersEnd

\* A turn whose stream has ended settles as completed, or its call stops or fails.
LEMMA SettleCompletedAnswers ==
    ASSUME Step, NEW f \in Fiber, SettleCompleted(f)
    PROVE  Answers'
<1>1. /\ fibers[f].pc = "stream" /\ fibers[f].step = "ended" /\ fibers[f].pc \in Bound
      /\ transcript' = transcript
  BY DEF SettleCompleted, Bound, Claimed
<1>2. CASE Settle(f, "completed", FALSE)
  BY <1>1, <1>2, SettleAnswers DEF Terminal
<1>3. CASE ~Settle(f, "completed", FALSE)
  <2>1. (Stop(f) \/ Fail(f, "fatal")) /\ active' = active
    BY <1>3 DEF SettleCompleted, Settle
  <2> QED
    BY <1>1, <2>1, AnswersStop, AnswersFail
<1> QED
  BY <1>2, <1>3

\* A failed call settles its turn or schedules it again, and writes no message.
LEMMA CatchAnswers ==
    ASSUME Step, NEW f \in Fiber, Catch(f)
    PROVE  Answers'
<1>1. fibers[f].pc = "catch" /\ fibers[f].pc \in Bound /\ transcript' = transcript
  BY DEF Catch, Bound, Claimed
<1>2. CASE ~Recoverable(fibers[f]) /\ Settle(f, "failed", FALSE)
  BY <1>1, <1>2, SettleAnswers DEF Terminal
<1>3. CASE ~Recoverable(fibers[f]) /\ ~Settle(f, "failed", FALSE)
  <2>1. Stop(f) /\ active' = active
    BY <1>3 DEF Catch, Settle
  <2> QED
    BY <1>1, <2>1, AnswersStop
<1>4. CASE Recoverable(fibers[f])
  <2>1. ScheduleRecovery(f) /\ fibers[f].op = active
    BY <1>1, <1>4, BoundToActive DEF Step, Catch
  <2>2. Stop(f) /\ active' = active
    BY <2>1 DEF ScheduleRecovery
  <2> QED
    BY <1>1, <2>2, AnswersStop
<1> QED
  BY <1>2, <1>3, <1>4

\* reconcileTranscriptTerminal commits what it read in the transcript.
LEMMA ReconcileAnswers ==
    ASSUME Step, NEW f \in Fiber, ReconcileRead(f) \/ ReconcileCommit(f)
    PROVE  Answers'
<1>1. CASE ReconcileRead(f)
  <2> DEFINE proven == ProvenTerminal(recovery.operation)
             pc == IF proven THEN "reconcile-commit" ELSE "prepare"
             op == IF proven THEN recovery.operation ELSE None
             r == [fibers[f] EXCEPT !.pc = pc, !.op = op, !.since = now]
  <2>1. UNCHANGED <<transcript, active>> /\ fibers' = [fibers EXCEPT ![f] = r]
    BY <1>1 DEF ReconcileRead, stored
  <2>2. r.pc = pc /\ r.op = op
    <3> HIDE DEF pc, op
    <3> QED
      BY WorkingType DEF Step, StoreInv, FiberRecord
  <2>3. \A g \in Fiber : fibers'[g] = IF g = f THEN r ELSE fibers[g]
    BY <2>1 DEF Step, StoreInv, TypeInv, TypeOK
  <2>4. CASE proven
    <3>1. fibers'[f].pc = "reconcile-commit" /\ fibers'[f].op = recovery.operation
      BY <2>2, <2>3, <2>4
    <3>2. fibers'[f].op = active /\ transcript'[fibers'[f].op].saved # "none"
      BY <2>1, <2>4, <3>1 DEF Step, StoreInv, OnePermit, ProvenTerminal
    <3>3. CallSaved(f)'
      BY <2>1, <3>1, <3>2 DEF CallSaved
    <3> HIDE DEF r
    <3> QED
      BY <2>1, <2>3, <3>3, AnswersGoOn
  <2>5. CASE ~proven
    <3>1. r.pc = "prepare"
      BY <2>2, <2>5
    <3> HIDE DEF r
    <3>2. fibers'[f].pc = "prepare"
      BY <2>3, <3>1
    <3>3. fibers'[f].pc \notin Bound
      BY <3>2 DEF Bound, Claimed
    <3> QED
      BY <2>1, <2>3, <3>3, AnswersKept
  <2> QED
    BY <2>4, <2>5
<1>2. CASE ReconcileCommit(f)
  <2>1. /\ fibers[f].pc = "reconcile-commit" /\ fibers[f].pc \in Bound /\ Stop(f)
        /\ fibers[f].pc \in Holding /\ transcript' = transcript
    BY <1>2 DEF ReconcileCommit, Bound, Holding, PC
  <2>2. PICK o \in OpId : o = active /\ o = fibers[f].op
    BY <2>1, BoundToActive DEF Step
  <2>3. CASE active' = active
    BY <2>1, <2>3, AnswersStop
  <2>4. CASE active' # active
    <3>1. active' = None
      BY <1>2, <2>4 DEF ReconcileCommit
    <3>2. transcript[o].saved \in {"partial", "final"}
      BY <2>1, <2>2 DEF Step, StoreInv, TypeInv, TypeOK, Transcript, Answers, CallSaved
    <3>3. operations'[o].status = "completed" => operations'[o].partial = operations[o].partial
      <4> DEFINE q == fibers[f].op
                 g == generation + 1
                 effects == operations[q].effects + 1
                 expires == fibers[f].since + CompletedStreamRetention
                 p == [operations[q] EXCEPT
                          !.status = "completed", !.checkpoint = "terminal", !.generation = g,
                          !.owner = None, !.lease = Never, !.effects = effects,
                          !.stream = "completed", !.expires = expires]
      <4>1. /\ q = o /\ q \in OpId
            /\ operations \in [OpId -> Operation] /\ operations[q] \in Operation
        BY <2>2, StoreTypes DEF Step, StoreInv
      <4>2. operations[q].status \notin {"absent", "completed"} /\ LedgerRoom(operations[q], 1)
        BY <1>2, <2>4 DEF ReconcileCommit
      <4>3. operations' = [operations EXCEPT ![q] = p]
        BY <1>2, <4>1, <4>2 DEF ReconcileCommit
      <4>4. p.partial = operations[q].partial
        <5> HIDE DEF g, effects, expires
        <5> QED
          BY <4>1 DEF Operation
      <4> HIDE DEF p, q
      <4> QED
        BY <4>1, <4>3, <4>4
    <3>4. operations'[o].status = "completed" => Answered(o)'
      BY <2>1, <2>2, <3>2, <3>3 DEF Step, Answers, Answered
    <3> QED
      BY <2>1, <2>2, <3>1, <3>4, AnswersEnd
  <2> QED
    BY <2>3, <2>4
<1> QED
  BY <1>1, <1>2

\* prepareRecovery ends the call, or binds it to the active operation.
LEMMA PrepareRecoveryAnswers ==
    ASSUME Step, NEW f \in Fiber, PrepareRecovery(f)
    PROVE  Answers'
<1>1. fibers[f].pc \in Holding /\ transcript' = transcript
  BY DEF PrepareRecovery, Holding, PC
<1>2. CASE Stop(f) /\ active' = active
  BY <1>1, <1>2, AnswersStop
<1>3. CASE ~(Stop(f) /\ active' = active)
  <2>1. /\ Open(recovery)
        /\ Exhaust(f, recovery.operation) \/ Attempt(f, recovery.operation)
    BY <1>3 DEF PrepareRecovery, NoRecovery, DisarmMismatch
  <2>2. PICK o \in OpId : o = recovery.operation /\ o = active
    BY <2>1, StoreTypes DEF Step, StoreInv, Agrees, IncidentIsActive, Open
  <2>3. CASE Exhaust(f, o)
    <3>1. Stop(f) /\ active' = None
      BY <1>3, <2>3 DEF Exhaust
    <3>2. operations'[o].status = "failed"
      <4> DEFINE g == generation + 1
                 effects == operations[o].effects + 1
                 expires == now + CompletedStreamRetention
                 p == [operations[o] EXCEPT
                          !.status = "failed", !.checkpoint = "terminal", !.generation = g,
                          !.owner = None, !.lease = Never, !.effects = effects,
                          !.stream = "failed", !.expires = expires]
      <4>1. o \in DOMAIN operations /\ operations[o] \in Operation
        BY StoreTypes DEF Step, StoreInv
      <4>2. LedgerRoom(operations[o], 1)
        BY <1>3, <2>3 DEF Exhaust
      <4>3. operations' = [operations EXCEPT ![o] = p]
        BY <2>3, <4>1, <4>2, ZenonT(150) DEF Exhaust
      <4>4. p.status = "failed"
        <5> HIDE DEF g, effects, expires
        <5> QED
          BY <4>1 DEF Operation
      <4> HIDE DEF p
      <4> QED
        BY <4>1, <4>3, <4>4
    <3> QED
      BY <1>1, <2>2, <3>1, <3>2, AnswersEnd
  <2>4. CASE Attempt(f, o)
    <3> DEFINE continues == recovery.kind = "partial-continuation"
               mode == IF continues THEN "continue" ELSE "fresh"
               parts == IF continues THEN operations[o].text ELSE << >>
               r == [fibers[f] EXCEPT !.pc = "snapshot", !.op = o, !.generation = generation + 1,
                        !.attempt = operations[o].attempt + 1, !.since = now,
                        !.mode = mode, !.parts = parts]
    <3>1. active' = active
      BY <2>2, <2>4 DEF Attempt
    <3>2. fibers' = [fibers EXCEPT ![f] = r]
      BY <1>3, <2>4, <3>1 DEF Attempt
    <3>3. r.op = o /\ r.pc = "snapshot"
      <4> HIDE DEF mode, parts
      <4> QED
        BY WorkingType DEF Step, StoreInv, FiberRecord
    <3> HIDE DEF r
    <3> QED
      BY <1>1, <2>2, <3>1, <3>2, <3>3, AnswersMove
  <2> QED
    BY <2>1, <2>2, <2>3, <2>4
<1> QED
  BY <1>2, <1>3

\* The ledger says that a partial answer is written before it is.
LEMMA PartialAnswers ==
    ASSUME Step, NEW f \in Fiber, BeginPartial(f) \/ CompletePartial(f)
    PROVE  Answers'
<1>1. /\ fibers[f].pc \in Bound /\ fibers[f] \in FiberRecord /\ fibers[f].op = active
      /\ UNCHANGED <<transcript, active>>
  BY BoundToActive, WorkingType DEF Step, StoreInv, Bound, Claimed, BeginPartial, CompletePartial
<1>2. CASE Stop(f) \/ Goto(f, "mark")
  BY <1>1, <1>2, AnswersStop, AnswersGoto
<1>3. CASE ~(Stop(f) \/ Goto(f, "mark"))
  <2> DEFINE r == [fibers[f] EXCEPT !.pc = "partial-write", !.since = now]
  <2>1. BeginPartial(f) /\ fibers' = [fibers EXCEPT ![f] = r]
    BY <1>3 DEF BeginPartial, CompletePartial, Goto
  <2>2. r.op = fibers[f].op /\ r.pc = "partial-write"
    BY <1>1 DEF FiberRecord
  <2>3. operations'[active].partial # "none"
    <3> DEFINE effects == IF operations[active].partial # "none"
                          THEN operations[active].effects
                          ELSE operations[active].effects + 1
               p == [operations[active] EXCEPT !.partial = "pending", !.effects = effects]
    <3>1. active \in OpId /\ operations[active] \in Operation
      BY <1>1, BoundToActive, StoreTypes DEF Step, StoreInv
    <3>2. operations' = [operations EXCEPT ![active] = p]
      BY <1>1, <1>3, <2>1, <3>1, StoreTypes DEF BeginPartial, Step, StoreInv
    <3>3. p.partial = "pending"
      <4> HIDE DEF effects
      <4> QED
        BY <3>1 DEF Operation
    <3> HIDE DEF p
    <3> QED
      BY <3>1, <3>2, <3>3, StoreTypes DEF Step, StoreInv
  <2> HIDE DEF r
  <2>4. \A g \in Fiber : fibers'[g] = IF g = f THEN r ELSE fibers[g]
    BY <2>1 DEF Step, StoreInv, TypeInv, TypeOK
  <2>5. CallSaved(f)'
    BY <1>1, <2>2, <2>3, <2>4 DEF CallSaved
  <2> QED
    BY <1>1, <2>4, <2>5, AnswersGoOn
<1> QED
  BY <1>2, <1>3

\* wake, retention, the clock and the loss of the isolate.
LEMMA EnvironmentAnswers ==
    ASSUME Step,
           \/ \E b \in LiveBoots : WakeInterrupts(b)
           \/ Cleanup \/ Tick \/ Restart \/ UNCHANGED vars
    PROVE  Answers'
<1>1. CASE \E b \in LiveBoots : WakeInterrupts(b)
  <2>1. UNCHANGED <<transcript, fibers>> /\ active' \in {active, None}
    BY <1>1 DEF WakeInterrupts
  <2>2. active' = active
    <3> SUFFICES ASSUME active' = None, active # None PROVE FALSE
      BY <2>1
    <3>1. PICK o \in OpId : o = active
      BY StoreTypes DEF Step, StoreInv
    <3>2. operations[o].status \in Busy
      BY <3>1 DEF Step, StoreInv, Agrees, Sound
    <3>3. operations[o].status \notin Terminal /\ operations[o].stream \notin Terminal
      BY <3>2 DEF Step, StoreInv, Agrees, Sound, Busy, Executing, Terminal
    <3>4. classifyRecovery(operations[o]) # "terminal-noop"
      BY <3>3 DEF classifyRecovery
    <3> QED
      BY <1>1, <3>1, <3>4 DEF WakeInterrupts
  <2> QED
    BY <2>1, <2>2, AnswersKept
<1>2. CASE Cleanup \/ Tick \/ UNCHANGED vars
  <2>1. UNCHANGED <<transcript, active, fibers>>
    BY <1>2 DEF Cleanup, Tick, stored, vars
  <2> QED
    BY <2>1, AnswersKept
<1>3. CASE Restart
  <2>1. UNCHANGED <<transcript, active>>
    BY <1>3 DEF Restart, stored
  <2>2. \A f \in Fiber : fibers'[f] \in {fibers[f], Idle}
    BY <1>3 DEF Restart, Step, StoreInv, TypeInv, TypeOK
  <2>3. Idle.pc \notin Bound
    BY DEF Idle, Bound, Claimed
  <2> QED
    BY <2>1, <2>2, <2>3, AnswersKept
<1> QED
  BY <1>1, <1>2, <1>3

-----------------------------------------------------------------------------
(* The invariant, and what follows from it *)

\* Every step keeps Answers.
LEMMA StepAnswers ==
    ASSUME Step, [Next]_vars
    PROVE  Answers'
<1>1. ASSUME NEW s \in Submission, NEW spawn \in AtMostOne, Admit(s, spawn) PROVE Answers'
  BY <1>1, AdmitAnswers
<1>2. ASSUME NEW f \in Fiber, Claim(f) \/ PersistRequestSnapshot(f) \/ MarkStreaming(f)
      PROVE  Answers'
  BY <1>2, ClaimAnswers, SnapshotAnswers, MarkAnswers
<1>3. ASSUME NEW f \in Fiber, EmitStarted(f) \/ EmitText(f) \/ EmitTool(f) \/ EmitDone(f)
      PROVE  Answers'
  BY <1>3, EmitAnswers
<1>4. ASSUME NEW f \in Fiber, SaveToolRound(f) \/ SaveAnswer(f) \/ WritePartial(f)
      PROVE  Answers'
  BY <1>4, SaveAnswers
<1>5. ASSUME NEW f \in Fiber,
             \/ PermitTimeout(f) \/ Stall(f) \/ Die(f) \/ StorageFails(f)
             \/ \E error \in {"retryable", "oom", "fatal"} : ExecutorFails(f, error)
             \/ WakeIdle(f) \/ StartRecover(f)
      PROVE  Answers'
  BY <1>5, CallsOnlyAnswers
<1>6. ASSUME NEW f \in Fiber, SettleCompleted(f) \/ Catch(f) PROVE Answers'
  BY <1>6, SettleCompletedAnswers, CatchAnswers
<1>7. ASSUME NEW f \in Fiber, ReconcileRead(f) \/ ReconcileCommit(f) \/ PrepareRecovery(f)
      PROVE  Answers'
  BY <1>7, ReconcileAnswers, PrepareRecoveryAnswers
<1>8. ASSUME NEW f \in Fiber, BeginPartial(f) \/ CompletePartial(f) PROVE Answers'
  BY <1>8, PartialAnswers
<1>9. ASSUME \/ \E b \in LiveBoots : WakeInterrupts(b)
             \/ Cleanup \/ Tick \/ Restart \/ UNCHANGED vars
      PROVE  Answers'
  BY <1>9, EnvironmentAnswers
<1> QED
  BY <1>1, <1>2, <1>3, <1>4, <1>5, <1>6, <1>7, <1>8, <1>9 DEF Next

\* A completed turn has its assistant message in the transcript, even when the
\* completion is inferred from the transcript after a crash; and unless the turn was
\* continued or may stop at a tool round, that message is its whole answer.
THEOREM CompletedIsAnswered ==
    ASSUME ~OverlappingIsolates PROVE Spec => []AnsweredUnlessContinued
<1>1. Init => Answers
  BY InitAnswers
<1>2. StoreInv /\ Answers /\ [Next]_vars => Answers'
  BY NextStore, StepAnswers DEF Step
<1>3. StoreInv /\ Answers => AnsweredUnlessContinued
  BY TurnOfRecord DEF StoreInv, Answers, Answered, AnsweredUnlessContinued
<1> QED
  BY <1>1, <1>2, <1>3, StoreAgrees, PTL DEF Spec
===============================================================================
