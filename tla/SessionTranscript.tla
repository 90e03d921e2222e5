--------------------------- MODULE SessionTranscript ---------------------------
(***************************************************************************)
(* The session record: context, transcript and compaction overlays         *)
(* (packages/agent-runtime/src/agent-service-live.ts, conversation.ts,     *)
(* chat-compaction.ts, session-store.ts).                                  *)
(*                                                                         *)
(* Turns, context updates and compactions all replace the whole record,    *)
(* each from a copy it loaded earlier.  A lock orders them; the request    *)
(* snapshot of a turn, the runtime's own record, the check that no turn is *)
(* active and the calls to the model are outside of it.  DurableExecution  *)
(* has the runtime in detail; here an attempt at a turn keeps what decides *)
(* which session the next attempt finds.                                   *)
(***************************************************************************)
EXTENDS Integers, Sequences, FiniteSets, SequencesExt, FiniteSetsExt

CONSTANTS
    RetainRecentMessages, CompactionThreshold, MaxToolSteps,
    MaxTurns, MaxRequests, MaxLosses        \* exploration bounds

ASSUME TranscriptAssumption ==
    /\ RetainRecentMessages \in Nat \ {0}
    /\ {CompactionThreshold, MaxToolSteps, MaxTurns, MaxRequests, MaxLosses} \subseteq Nat

VARIABLES
    session,      \* the stored record
    lock,         \* who holds the agent service's semaphore
    turns,        \* the runtime's record of each turn
    active,       \* the turn that holds the session
    call,         \* the attempt at it
    request,      \* a context update or a compaction
    ids,          \* message ids drawn so far
    requests,     \* updates and compactions so far
    losses        \* attempts that failed or were lost so far

vars == <<session, lock, turns, active, call, request, ids, requests, losses>>

Turn == 1..MaxTurns
None == 0

-----------------------------------------------------------------------------
(* Records *)

UserId(t) == <<"user", t>>
AssistantId(t) == <<"assistant", t>>
FreshId(n) == <<"fresh", n>>

\* `call`: its content has a tool call; `turn`: the turn it was written for.  `blank` is
\* history, for the properties: it was added for a response without content.
Message == [
    id : {UserId(t) : t \in Turn} \cup {AssistantId(t) : t \in Turn} \cup {FreshId(n) : n \in 1..ids},
    role : {"user", "assistant", "tool"}, call : BOOLEAN, blank : BOOLEAN, turn : Turn]

Says(id, role, t) == [id |-> id, role |-> role, call |-> FALSE, blank |-> FALSE, turn |-> t]

\* Every message under the id, replaced.
Rewritten(messages, message) ==
    [i \in DOMAIN messages |->
        IF messages[i].id = message.id THEN [message EXCEPT !.blank = messages[i].blank]
        ELSE messages[i]]

\* An overlay is the id of the last message it covers; it covers from the first.
NewSession == [context |-> 0, messages |-> << >>, compactions |-> << >>]

MessageIds(s) == {s.messages[i].id : i \in DOMAIN s.messages}

NoSnapshot == [context |-> 0, history |-> {}, compactions |-> {}]

\* What getSession shows, and a turn keeps as its request snapshot.
Captured == [context |-> session.context, history |-> MessageIds(session),
             compactions |-> ToSet(session.compactions)]

\* checkpoint, and what the stream and the ledger say of the turn.
AbsentTurn == [
    status |-> "absent", checkpoint |-> "admitted", snapshot |-> NoSnapshot,
    kind |-> "none", opened |-> FALSE, tool |-> FALSE, partial |-> FALSE]

\* offered and kept: the response of this round as the stream and as the transcript
\* have it.  preferred: its first message still gets the turn's own id.
NoCall == [pc |-> "none", mode |-> "fresh", round |-> 1, preferred |-> TRUE,
           offered |-> "none", kept |-> "none", copy |-> NewSession]

NoRequest == [pc |-> "none", op |-> "none", copy |-> NewSession]

Ended == {"completed", "failed"}

Init ==
    /\ session = NewSession
    /\ lock = "free"
    /\ turns = [t \in Turn |-> AbsentTurn]
    /\ active = None
    /\ call = NoCall
    /\ request = NoRequest
    /\ ids = 0
    /\ requests = 0
    /\ losses = 0

-----------------------------------------------------------------------------
(* Compaction *)

Position(s, id) ==
    LET at == {i \in DOMAIN s.messages : s.messages[i].id = id} IN
    IF at = {} THEN 0 ELSE Min(at)

\* Where the latest overlay ends; 0 when there is none or its message is gone.
OverlayEnd(s) == IF s.compactions = << >> THEN 0 ELSE Position(s, Last(s.compactions))

Visible(s) == SubSeq(s.messages, OverlayEnd(s) + 1, Len(s.messages))

\* A cut after message e that does not part a tool call from its result.
SafeCut(messages, e) ==
    /\ messages[e].role # "tool"
    /\ ~messages[e].call
    /\ messages[e + 1].role # "tool"

\* Mutant of PlanEnd: the cut may fall between a tool call and its result.
PlanEndAnywhere(s) ==
    LET e == Len(s.messages) - RetainRecentMessages IN
    IF e >= 2 /\ e > OverlayEnd(s) THEN e ELSE 0

\* buildCompactionPlan: the last message of the next overlay, 0 without one.
PlanEnd(s) ==
    LET cuts == {e \in 1..(Len(s.messages) - RetainRecentMessages) : SafeCut(s.messages, e)}
        e == IF cuts = {} THEN 0 ELSE Max(cuts)
    IN  IF e >= 2 /\ e > OverlayEnd(s) THEN e ELSE 0

Compacted(s) == [s EXCEPT !.compactions = Append(@, s.messages[PlanEnd(s)].id)]

-----------------------------------------------------------------------------
(* Context updates and manual compactions *)

\* Mutant of Check: while a turn is active, too.
CheckNothing(op) ==
    /\ request.pc = "none"
    /\ requests < MaxRequests
    /\ requests' = requests + 1
    /\ request' = [NoRequest EXCEPT !.pc = "checked", !.op = op]
    /\ UNCHANGED <<session, lock, turns, active, call, ids, losses>>

\* mutableSession: no turn is active.  Then the request waits for the lock.
Check(op) ==
    /\ request.pc = "none"
    /\ requests < MaxRequests
    /\ active = None
    /\ requests' = requests + 1
    /\ request' = [NoRequest EXCEPT !.pc = "checked", !.op = op]
    /\ UNCHANGED <<session, lock, turns, active, call, ids, losses>>

\* The lock, and load; a compaction without a plan answers at once.
LoadForRequest ==
    /\ request.pc = "checked"
    /\ lock = "free"
    /\ IF request.op = "compact" /\ PlanEnd(session) = 0
       THEN request' = NoRequest /\ UNCHANGED lock
       ELSE /\ lock' = "request"
            /\ request' = [request EXCEPT !.pc = "loaded", !.copy = session]
    /\ UNCHANGED <<session, turns, active, call, ids, requests, losses>>

\* updateContext, or the overlay once the model has answered.
SaveRequest ==
    /\ request.pc = "loaded"
    /\ session' = IF request.op = "compact" THEN Compacted(request.copy)
                  ELSE [request.copy EXCEPT !.context = requests]
    /\ lock' = "free"
    /\ request' = NoRequest
    /\ UNCHANGED <<turns, active, call, ids, requests, losses>>

\* The model or the store fails.
RequestFails ==
    /\ request.pc = "loaded"
    /\ lock' = "free"
    /\ request' = NoRequest
    /\ UNCHANGED <<session, turns, active, call, ids, requests, losses>>

-----------------------------------------------------------------------------
(* A turn, up to its inference *)

Goto(pc) == call' = [call EXCEPT !.pc = pc]

Record(t, changes) == turns' = [turns EXCEPT ![t] = changes]

\* admit captures a first snapshot of the session.
Admit(t) ==
    /\ turns[t].status = "absent"
    /\ t > 1 => turns[t - 1].status # "absent"
    /\ lock = "free"
    /\ Record(t, [AbsentTurn EXCEPT !.status = "queued", !.snapshot = Captured])
    /\ UNCHANGED <<session, lock, active, call, request, ids, requests, losses>>

\* Mutant of First: any queued turn.
FirstAnywhere(t) == turns[t].status = "queued"

First(t) == turns[t].status = "queued" /\ \A u \in 1..(t - 1) : turns[u].status \in Ended

\* claim in mode fresh: the head of the queue, or the active turn again.
Claim(t) ==
    /\ call.pc = "none"
    /\ active = t \/ (active = None /\ First(t))
    /\ active' = t
    /\ Record(t, [turns[t] EXCEPT !.status = "started", !.checkpoint = "preparing"])
    /\ call' = [NoCall EXCEPT !.pc = "capture"]
    /\ UNCHANGED <<session, lock, request, ids, requests, losses>>

\* Mutant of Capture: a turn keeps the snapshot of its admission.
CaptureAtAdmission ==
    /\ call.pc = "capture"
    /\ lock = "free"
    /\ Record(active, [turns[active] EXCEPT !.checkpoint = "preparing"])
    /\ Goto(IF call.mode = "continue" THEN "partial" ELSE "mark")
    /\ UNCHANGED <<session, lock, active, request, ids, requests, losses>>

\* persistRequestSnapshot, at every attempt.  The lock is served in order of
\* arrival, and a request that found no turn active arrived first.
Capture ==
    /\ call.pc = "capture"
    /\ lock = "free"
    /\ request.pc # "checked"
    /\ Record(active, [turns[active] EXCEPT !.checkpoint = "preparing", !.snapshot = Captured])
    /\ Goto(IF call.mode = "continue" THEN "partial" ELSE "mark")
    /\ UNCHANGED <<session, lock, active, request, ids, requests, losses>>

\* The assistant message of the turn, or whatever has its id, is replaced by the
\* streamed text, or added; skipped once the ledger has the write as completed.
WritePartial ==
    LET partial == Says(AssistantId(active), "assistant", active)
        at == Position(session, AssistantId(active))
    IN
    /\ call.pc = "partial"
    /\ IF turns[active].partial THEN UNCHANGED session
       ELSE /\ lock = "free"
            /\ session' = [session EXCEPT !.messages =
                   IF at = 0 THEN Append(@, partial) ELSE Rewritten(@, partial)]
    /\ Goto("written")
    /\ UNCHANGED <<lock, turns, active, request, ids, requests, losses>>

\* completePhaseEffect.
CompletePartial ==
    /\ call.pc = "written"
    /\ Record(active, [turns[active] EXCEPT !.checkpoint = "partial-persisted", !.partial = TRUE])
    /\ Goto("mark")
    /\ UNCHANGED <<session, lock, active, request, ids, requests, losses>>

MarkStreaming ==
    /\ call.pc = "mark"
    /\ Record(active, [turns[active] EXCEPT !.checkpoint = "streaming"])
    /\ Goto("load")
    /\ UNCHANGED <<session, lock, active, request, ids, requests, losses>>

\* The entries of a sequence at these positions, in their order: `filter`, in a form that
\* the proofs can expand.
EntriesAt(seq, positions) ==
    LET rank(i) == Cardinality({j \in positions : j <= i})
    IN  [k \in 1..Cardinality(positions) |-> seq[CHOOSE i \in positions : rank(i) = k]]

\* The session as the request snapshot shows it.
View(snapshot) ==
    LET m == session.messages
        c == session.compactions
    IN  [context |-> snapshot.context,
         messages |-> EntriesAt(m, {i \in DOMAIN m : m[i].id \in snapshot.history}),
         compactions |-> EntriesAt(c, {i \in DOMAIN c : c[i] \in snapshot.compactions})]

HasQuestion(s) == UserId(active) \in MessageIds(s)

\* runTurn takes the lock and keeps it to the end of the stream.  A continuation
\* takes the session as it is, with the snapshot's context; a fresh attempt
\* takes the snapshot's view, compacts it if it has grown too large, and adds
\* the user's message unless an earlier attempt did.
LoadForTurn ==
    LET view == View(turns[active].snapshot)
        next == CASE call.mode = "continue" -> "respond"
                  [] call.mode = "fresh" /\ HasQuestion(view) -> "start"
                  [] call.mode = "fresh" /\ ~HasQuestion(view)
                        /\ Len(Visible(view)) > CompactionThreshold /\ PlanEnd(view) > 0 -> "compact"
                  [] OTHER -> "question"
    IN
    /\ call.pc = "load"
    /\ lock = "free"
    /\ lock' = "turn"
    /\ call' = [call EXCEPT !.pc = next,
           !.copy = IF call.mode = "fresh" THEN view
                    ELSE [session EXCEPT !.context = turns[active].snapshot.context]]
    /\ UNCHANGED <<session, turns, active, request, ids, requests, losses>>

Saved(s, pc) ==
    /\ session' = s
    /\ call' = [call EXCEPT !.pc = pc, !.copy = s]

SaveOverlay ==
    /\ call.pc = "compact"
    /\ Saved(Compacted(call.copy), "question")
    /\ UNCHANGED <<lock, turns, active, request, ids, requests, losses>>

SaveQuestion ==
    /\ call.pc = "question"
    /\ Saved([call.copy EXCEPT !.messages = Append(@, Says(UserId(active), "user", active))], "start")
    /\ UNCHANGED <<lock, turns, active, request, ids, requests, losses>>

\* CompactionCompleted and TurnStarted open the stream.
OfferStart ==
    /\ call.pc = "start"
    /\ Record(active, [turns[active] EXCEPT !.opened = TRUE])
    /\ Goto("respond")
    /\ UNCHANGED <<session, lock, active, request, ids, requests, losses>>

-----------------------------------------------------------------------------
(* Responses *)

\* Tools are for fresh attempts.
Response == IF call.mode = "fresh" THEN {"tool", "text"} ELSE {"text"}

\* The events of a response, while it streams or, when the first response is
\* made to call the fact tool, after it was saved.
OfferResponse(kind) ==
    /\ call.pc = "respond"
    /\ call.offered = "none"
    /\ call.kept \in {"none", kind}
    /\ Record(active, [turns[active] EXCEPT !.opened = TRUE, !.tool = @ \/ kind = "tool"])
    /\ call' = [call EXCEPT !.offered = kind]
    /\ UNCHANGED <<session, lock, active, request, ids, requests, losses>>

\* Mutant of WithAssistant: the message of an earlier attempt is not looked for.
WithAssistantAgain(messages, kind) ==
    LET id == IF call.preferred THEN AssistantId(active) ELSE FreshId(ids + 1) IN
    Append(messages, [Says(id, "assistant", active) EXCEPT !.call = kind = "tool"])

\* The first assistant message of the turn has its deterministic id, and joins the
\* first message an earlier attempt left under it; whatever has the id becomes both.
WithAssistant(messages, kind) ==
    LET t == active
        id == IF call.preferred THEN AssistantId(t) ELSE FreshId(ids + 1)
        at == Position([messages |-> messages], id)
        said == [Says(id, "assistant", t) EXCEPT !.call = kind = "tool"]
    IN  IF at = 0 THEN Append(messages, said)
        ELSE Rewritten(messages, [said EXCEPT !.call = @ \/ messages[at].call])

WithResponse(messages, kind) ==
    WithAssistant(messages, kind)
        \o (IF kind = "tool" THEN <<Says(FreshId(ids + 2), "tool", active)>> ELSE << >>)

\* persistResponse, after the response was streamed or ahead of its events.
KeepResponse(kind) ==
    LET s == [call.copy EXCEPT !.messages = WithResponse(@, kind)] IN
    /\ call.pc = "respond"
    /\ call.kept = "none"
    /\ \/ call.offered = kind
       \/ call.offered = "none" /\ call.mode = "fresh" /\ call.round = 1
    /\ session' = s
    /\ ids' = ids + 2
    /\ call' = [call EXCEPT !.kept = kind, !.copy = s, !.preferred = FALSE]
    /\ UNCHANGED <<lock, turns, active, request, requests, losses>>

\* A response without content ends the turn with an empty message, added without a
\* look for another under its id; it passes only where the fact tool was required.
KeepNothing ==
    LET nothing == [Says(AssistantId(active), "assistant", active) EXCEPT !.blank = TRUE]
        s == [call.copy EXCEPT !.messages = Append(@, nothing)]
    IN
    /\ call.pc = "respond"
    /\ call.mode = "fresh" /\ call.round = 1
    /\ call.offered = "none" /\ call.kept = "none"
    /\ session' = s
    /\ call' = [call EXCEPT !.offered = "text", !.kept = "text", !.copy = s]
    /\ UNCHANGED <<lock, turns, active, request, ids, requests, losses>>

\* After a tool round the model is asked again.
NextRound ==
    /\ call.pc = "respond"
    /\ call.offered = "tool" /\ call.kept = "tool"
    /\ call.round < MaxToolSteps
    /\ call' = [call EXCEPT !.round = @ + 1, !.offered = "none", !.kept = "none"]
    /\ UNCHANGED <<session, lock, turns, active, request, ids, requests, losses>>

-----------------------------------------------------------------------------
(* The end of a turn or of an attempt *)

\* Mutant of Leave: an attempt that ends keeps the lock.
LeaveLocked == UNCHANGED lock

Leave == lock' = IF lock = "turn" THEN "free" ELSE lock

End(outcome) ==
    /\ Record(active, [turns[active] EXCEPT !.status = outcome, !.kind = "none"])
    /\ active' = None
    /\ call' = NoCall
    /\ Leave
    /\ UNCHANGED <<session, request, ids, requests, losses>>

Answered ==
    /\ call.pc = "respond"
    /\ call.offered = "text" /\ call.kept = "text"
    /\ End("completed")

ToolLoopLimit ==
    /\ call.pc = "respond"
    /\ call.offered = "tool" /\ call.kept = "tool"
    /\ call.round >= MaxToolSteps
    /\ End("failed")

classifyRecovery(turn) ==
    CASE ~turn.opened -> "pre-stream-retry"
      [] turn.opened /\ turn.checkpoint \in {"streaming", "partial-persisted"} -> "partial-continuation"
      [] OTHER -> "unrecoverable"

\* The model, a tool or the store failed in a way that is not retried.
AttemptGivesUp ==
    /\ call.pc \in {"load", "compact", "question", "start", "respond"}
    /\ End("failed")

Loss == losses < MaxLosses /\ losses' = losses + 1

\* scheduleRecoveryAfterFailure: the model, a tool or the store failed.
AttemptFails ==
    LET turn == [turns[active] EXCEPT !.checkpoint =
                     IF call.mode = "continue" THEN "partial-persisted" ELSE @]
    IN
    /\ call.pc \in {"load", "compact", "question", "start", "respond"}
    /\ Loss
    /\ Record(active, [turn EXCEPT !.kind = classifyRecovery(turns[active])])
    /\ call' = NoCall
    /\ Leave
    /\ UNCHANGED <<session, active, request, ids, requests>>

\* The isolate is lost, with the lock and whoever waited for it; wake keeps the
\* incident it finds, or classifies the turn.
IsolateLost ==
    /\ Loss
    /\ lock' = "free"
    /\ call' = NoCall
    /\ request' = NoRequest
    /\ turns' = [t \in Turn |->
           IF t = active /\ turns[t].kind = "none"
           THEN [turns[t] EXCEPT !.kind = classifyRecovery(turns[t])]
           ELSE turns[t]]
    /\ UNCHANGED <<session, active, ids, requests>>

\* recover: the transcript proves the end of the turn ...
Reconcile ==
    /\ call.pc = "none"
    /\ active # None
    /\ turns[active].kind # "none"
    /\ turns[active].checkpoint = "streaming"
    /\ ~turns[active].tool
    /\ lock = "free"
    /\ AssistantId(active) \in MessageIds(session)
    /\ End("completed")

\* ... or it is attempted again, as its incident says ...
Attempt ==
    /\ call.pc = "none"
    /\ active # None
    /\ turns[active].kind \in {"pre-stream-retry", "partial-continuation"}
    /\ ~(/\ turns[active].checkpoint = "streaming"
         /\ ~turns[active].tool
         /\ AssistantId(active) \in MessageIds(session))
    /\ call' = [NoCall EXCEPT !.pc = "capture",
           !.mode = IF turns[active].kind = "partial-continuation" THEN "continue" ELSE "fresh"]
    /\ UNCHANGED <<session, lock, turns, active, request, ids, requests, losses>>

\* ... or, unrecoverable or out of budget, fails.
Exhaust ==
    /\ call.pc = "none"
    /\ active # None
    /\ turns[active].kind # "none"
    /\ End("failed")

-----------------------------------------------------------------------------
Next ==
    \/ \E op \in {"update", "compact"} : Check(op)
    \/ LoadForRequest \/ SaveRequest \/ RequestFails
    \/ \E t \in Turn : Admit(t) \/ Claim(t)
    \/ Capture \/ WritePartial \/ CompletePartial \/ MarkStreaming \/ LoadForTurn
    \/ SaveOverlay \/ SaveQuestion \/ OfferStart
    \/ \E kind \in Response : OfferResponse(kind) \/ KeepResponse(kind)
    \/ KeepNothing \/ NextRound \/ Answered \/ ToolLoopLimit
    \/ AttemptFails \/ AttemptGivesUp \/ IsolateLost \/ Reconcile \/ Attempt \/ Exhaust

Spec == Init /\ [][Next]_vars

-----------------------------------------------------------------------------
(* Properties *)

Stored == [context : 0..requests, messages : Seq(Message), compactions : Seq(MessageIds(session))]

TypeOK ==
    /\ session \in Stored
    /\ lock \in {"free", "turn", "request"}
    /\ \A t \in Turn :
          /\ turns[t].status \in {"absent", "queued", "started"} \cup Ended
          /\ turns[t].snapshot.history \subseteq MessageIds(session)
    /\ active \in {None} \cup Turn
    /\ lock = "turn" <=> call.pc \in {"compact", "question", "start", "respond"}
    /\ lock = "request" <=> request.pc = "loaded"

\* However a turn is retried, continued or repeated, its question and the first
\* message of its answer are in the transcript once: a second message under an id
\* is always one that was added for a response without content.
OneMessageEach ==
    \A i, j \in DOMAIN session.messages :
        i < j /\ session.messages[i].id = session.messages[j].id => session.messages[j].blank

\* No save brings back a transcript without a message that was stored, though
\* every save replaces the record by a copy, some of them filtered.
MessagesKept == [][MessageIds(session) \subseteq MessageIds(session')]_session

\* The transcript keeps the order of the turns: none writes behind the next.
TurnsInOrder ==
    \A i, j \in DOMAIN session.messages :
        i < j => session.messages[i].turn <= session.messages[j].turn

\* Overlays end one behind the other, at messages the transcript has, and still
\* where no tool call is parted from its result.  A summary names the message it
\* ends at by its id, so this asks that no id has two messages.
OverlaysAdvance ==
    LET m == session.messages
        end(k) == Position(session, session.compactions[k])
    IN
    (\A i, j \in DOMAIN m : m[i].id = m[j].id => i = j) =>
    \A k \in DOMAIN session.compactions :
        /\ end(k) \in 2..(Len(m) - 1)
        /\ SafeCut(m, end(k))
        /\ k > 1 => end(k - 1) < end(k)

\* Whatever was compacted, the model is asked with the turn's question in sight.
QuestionInSight ==
    call.pc = "respond" =>
        \E i \in DOMAIN Visible(call.copy) : Visible(call.copy)[i].id = UserId(active)

\* An update or an overlay that was saved stays: no turn puts back the context of
\* an older snapshot or a record from before the compaction.
UpdatesKept ==
    [][/\ session.context <= session'.context
       /\ IsPrefix(session.compactions, session'.compactions)]_session
===============================================================================
