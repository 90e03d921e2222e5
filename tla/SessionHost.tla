------------------------------- MODULE SessionHost -------------------------------
(***************************************************************************)
(* The host of a session's turn runtime: the Durable Object                *)
(* (apps/backend/src/agent-durable-object.ts) and its WebSocket adapter    *)
(* (apps/backend/src/runtime-websocket-adapter.ts).                        *)
(*                                                                         *)
(* The engine never acts by itself.  The host decides which call wakes it, *)
(* runs a turn, sets the platform's only alarm, or refuses a message, and  *)
(* so whether a turn ends.  DurableExecution has the engine in detail;     *)
(* here a transition keeps what the host's decisions depend on.  Time is   *)
(* two events: a lease lapses, a scheduled recovery falls due.             *)
(***************************************************************************)
EXTENDS Naturals, Sequences, FiniteSets

CONSTANTS
    MaxQueuedTurns, MaxRecoveryAttempts,
    MaxTurns, MaxMishaps                    \* exploration bounds

ASSUME HostAssumption ==
    /\ MaxQueuedTurns \in Nat
    /\ MaxRecoveryAttempts \in Nat
    /\ MaxTurns \in Nat
    /\ MaxMishaps \in Nat

VARIABLES
    turns,        \* status of each turn, in order of admission
    queue,        \* turns waiting for the session
    active,       \* the turn that holds it
    lease,        \* of the active turn's owner: "valid" only for this isolate
    incident,     \* recovery incident
    intent,       \* the persisted Recover alarm is the one the incident asks for
    platform,     \* the Durable Object's alarm is set
    waiting,      \* calls of run waiting for the permit
    holder,       \* the call that holds the permit
    ring,         \* the alarm handler and the stream it probed
    finishing,    \* calls past their run or recover
    visit,        \* a request being handled
    mishaps       \* failures, lost isolates and departed callers so far

engine == <<turns, queue, active, lease, incident, intent>>
calls == <<waiting, holder, ring, finishing, visit>>
vars == <<engine, platform, calls, mishaps>>

Turn == 1..MaxTurns
None == 0

Terminal == {"completed", "failed"}

\* A call of run (runAccepted and the stream of sendMessage), or the alarm handler's
\* call of recover.
Kind == {"run", "alarm"}

Call(kind, t) == [kind |-> kind, turn |-> t]

NoCall == Call("run", None)

NoVisit == [pc |-> "none", recoverable |-> None]

NoRing == [pc |-> "idle", stream |-> None]

NoIncident == [turn |-> None, status |-> "none", attempt |-> 0]

Admitted == Cardinality({t \in Turn : turns[t] # "absent"})

\* probe.streamId: the active turn, otherwise the latest.
Probed == IF active # None THEN active ELSE Admitted

Init ==
    /\ turns = [t \in Turn |-> "absent"]
    /\ queue = << >>
    /\ active = None
    /\ lease = "none"
    /\ incident = NoIncident
    /\ intent = FALSE
    /\ platform = FALSE
    /\ waiting = {}
    /\ holder = NoCall
    /\ ring = NoRing
    /\ finishing = {}
    /\ visit = NoVisit
    /\ mishaps = 0

Mishap == mishaps < MaxMishaps /\ mishaps' = mishaps + 1

-----------------------------------------------------------------------------
(* wake *)

Scheduled == {"waiting", "due"}

\* An incident the engine will still act on.
Open == incident.turn # None /\ incident.status # "exhausted"

\* Mutant of Recoverable: an idle session names the incident it has kept.
RecoverableIdle == IF active # None /\ lease # "valid" THEN active ELSE incident.turn

\* What wake answers: recoverableOperationId, runnableOperationId and whether there
\* is a recoveryAlarmAt.  An owner at work is reported with whatever incident is
\* stored.
Recoverable ==
    CASE active = None -> None
      [] active # None /\ lease = "valid" -> incident.turn
      [] OTHER -> active

Runnable == IF active = None /\ queue # << >> THEN Head(queue) ELSE None

RecoveryAlarm == active # None /\ (lease = "valid" => incident.status \in Scheduled)

\* Mutant of Wakened: the incident of an attempt that was lost stays as it is.
WakenedAttempting ==
    IF active = None \/ lease = "valid" \/ (Open /\ incident.turn = active)
    THEN UNCHANGED <<lease, incident, intent>>
    ELSE /\ lease' = "none"
         /\ intent' = TRUE
         /\ incident' = [turn |-> active, status |-> "waiting", attempt |-> 0]

\* What it changes: an active turn without a valid lease is interrupted and its
\* recovery scheduled.
Wakened ==
    IF active = None \/ lease = "valid" THEN UNCHANGED <<lease, incident, intent>>
    ELSE /\ lease' = "none"
         /\ intent' = TRUE
         /\ incident' =
              IF Open /\ incident.turn = active
              THEN [incident EXCEPT !.status = IF @ \in Scheduled THEN @ ELSE "waiting"]
              ELSE [turn |-> active, status |-> "waiting", attempt |-> 0]

-----------------------------------------------------------------------------
(* Requests: an upgrade, a frame, an RPC *)

\* Every request wakes the runtime, sets the alarm and starts the run that wake
\* asks for; a mishap ends it right after wake.
Visit ==
    /\ visit.pc = "none"
    /\ Wakened
    /\ \/ /\ platform' = (platform \/ RecoveryAlarm)
          /\ waiting' = waiting \cup {Call("run", t) : t \in {Runnable} \ {None}}
          /\ visit' = [pc |-> "ready", recoverable |-> Recoverable]
          /\ UNCHANGED mishaps
       \/ /\ Mishap
          /\ UNCHANGED <<platform, waiting, visit>>
    /\ UNCHANGED <<turns, queue, active, holder, ring, finishing>>

\* SubmitTurn or sendMessage: admitted and run, unless a turn has to recover
\* first or the queue is full.  A mishap ends the call between the two.
Submit ==
    LET t == Admitted + 1 IN
    /\ visit.pc = "ready"
    /\ visit.recoverable = None
    /\ t \in Turn
    /\ Len(queue) < MaxQueuedTurns
    /\ turns' = [turns EXCEPT ![t] = "queued"]
    /\ queue' = Append(queue, t)
    /\ \/ /\ waiting' = waiting \cup {Call("run", t)}
          /\ UNCHANGED mishaps
       \/ Mishap /\ UNCHANGED waiting
    /\ visit' = NoVisit
    /\ UNCHANGED <<active, lease, incident, intent, platform, holder, ring, finishing>>

\* Any other request, or a submission refused.
Leave ==
    /\ visit.pc = "ready"
    /\ visit' = NoVisit
    /\ UNCHANGED <<engine, platform, waiting, holder, ring, finishing, mishaps>>

-----------------------------------------------------------------------------
(* run *)

Finishing(call) == finishing \cup {[kind |-> call.kind, turn |-> call.turn, pc |-> "terminal"]}

\* Mutant of Claimable: without the FIFO check.
ClaimableAnywhere(t) == turns[t] \notin Terminal /\ active \in {None, t}

Claimable(t) ==
    /\ turns[t] \notin Terminal
    /\ active \in {None, t}
    /\ active = None => queue # << >> /\ Head(queue) = t

\* A turn is in the queue once, and only its head or the active turn is claimed.
Dequeue(t) == IF queue # << >> /\ Head(queue) = t THEN Tail(queue) ELSE queue

\* The permit, and claim: the turn is owned by this isolate, or the run is over.
Claim(call) ==
    /\ call \in waiting
    /\ holder = NoCall
    /\ waiting' = waiting \ {call}
    /\ IF Claimable(call.turn)
       THEN /\ turns' = [turns EXCEPT ![call.turn] = "started"]
            /\ queue' = Dequeue(call.turn)
            /\ active' = call.turn
            /\ lease' = "valid"
            /\ intent' = FALSE
            /\ holder' = call
            /\ UNCHANGED finishing
       ELSE /\ finishing' = Finishing(call)
            /\ UNCHANGED <<turns, queue, active, lease, intent, holder>>
    /\ UNCHANGED <<incident, platform, ring, visit, mishaps>>

PermitTimeout(call) ==
    /\ call \in waiting
    /\ holder # NoCall
    /\ waiting' = waiting \ {call}
    /\ finishing' = Finishing(call)
    /\ UNCHANGED <<engine, platform, holder, ring, visit, mishaps>>

\* The call ends and goes on to its last steps.
Released ==
    /\ holder' = NoCall
    /\ finishing' = Finishing(IF holder.kind = "alarm" THEN Call("alarm", ring.stream) ELSE holder)

\* settle.  A failure settles the turn only if it is not worth a retry, which
\* is not told apart here.
Settle(outcome) ==
    /\ holder # NoCall
    /\ lease = "valid"
    /\ turns' = [turns EXCEPT ![active] = outcome]
    /\ active' = None
    /\ lease' = "none"
    /\ incident' = NoIncident
    /\ intent' = FALSE
    /\ Released
    /\ UNCHANGED <<queue, platform, waiting, ring, visit, mishaps>>

\* scheduleRecoveryAfterFailure
ScheduleRecovery ==
    /\ holder # NoCall
    /\ lease = "valid"
    /\ lease' = "none"
    /\ incident' = [incident EXCEPT !.turn = active, !.status = "waiting"]
    /\ intent' = TRUE
    /\ Released
    /\ UNCHANGED <<turns, queue, active, platform, waiting, ring, visit, mishaps>>

\* The lease lapsed, as it does before a stall is noticed: the fence refuses
\* whatever the call does next.
Fenced ==
    /\ holder # NoCall
    /\ lease # "valid"
    /\ Released
    /\ UNCHANGED <<engine, platform, waiting, ring, visit, mishaps>>

\* Storage fails, an event cannot be sent, or the caller of sendMessage goes
\* away: the call ends and leaves the turn with a valid lease.
Abandon ==
    /\ holder # NoCall
    /\ Mishap
    /\ Released
    /\ UNCHANGED <<engine, platform, waiting, ring, visit>>

LeaseLapses ==
    /\ lease = "valid"
    /\ lease' = "lapsed"
    /\ UNCHANGED <<turns, queue, active, incident, intent, platform, calls, mishaps>>

-----------------------------------------------------------------------------
(* The alarm handler: recoverSession *)

\* The platform's only alarm: whatever it was set for last, recovery, the next
\* turn or a cleanup, the handler does the same.
Fire ==
    /\ platform
    /\ ring = NoRing
    /\ platform' = FALSE
    /\ ring' = [pc |-> "permit", stream |-> Probed]
    /\ UNCHANGED <<engine, waiting, holder, finishing, visit, mishaps>>

RecoveryDue ==
    /\ incident.status = "waiting"
    /\ incident' = [incident EXCEPT !.status = "due"]
    /\ UNCHANGED <<turns, queue, active, lease, intent, platform, calls, mishaps>>

RingDone ==
    /\ ring' = [ring EXCEPT !.pc = "finishing"]
    /\ finishing' = Finishing(Call("alarm", ring.stream))

\* reconcileTranscriptTerminal: the transcript proves the turn complete.
\* prepareRecovery: a budget is spent.
EndByRecovery(outcome) ==
    /\ ring.pc = "permit"
    /\ holder = NoCall
    /\ Open
    /\ turns' = [turns EXCEPT ![incident.turn] = outcome]
    /\ active' = None
    /\ lease' = "none"
    /\ incident' = IF outcome = "completed" THEN NoIncident
                   ELSE [incident EXCEPT !.status = "exhausted"]
    /\ intent' = FALSE
    /\ RingDone
    /\ UNCHANGED <<queue, platform, waiting, holder, visit, mishaps>>

\* Mutant of AttemptsLeft: one attempt too many.
AttemptsLeftLate == incident.attempt <= MaxRecoveryAttempts

AttemptsLeft == incident.attempt < MaxRecoveryAttempts

\* prepareRecovery: the incident is due and its alarm is the persisted one.
Attempt ==
    /\ ring.pc = "permit"
    /\ holder = NoCall
    /\ incident.status = "due"
    /\ intent
    /\ AttemptsLeft
    /\ lease' = "valid"
    /\ incident' = [incident EXCEPT !.status = "attempting", !.attempt = @ + 1]
    /\ intent' = FALSE
    /\ holder' = Call("alarm", incident.turn)
    /\ ring' = [ring EXCEPT !.pc = "finishing"]
    /\ UNCHANGED <<turns, queue, active, platform, waiting, finishing, visit, mishaps>>

\* prepareRecovery has nothing to do; an incident whose alarm was superseded is
\* left for the next wake to schedule again.
NoRecovery ==
    /\ ring.pc = "permit"
    /\ holder = NoCall
    /\ Open => AttemptsLeft
    /\ ~(incident.status = "due" /\ intent)
    /\ incident' = IF incident.status \in Scheduled /\ ~intent
                   THEN [incident EXCEPT !.status = "disarmed"] ELSE incident
    /\ RingDone
    /\ UNCHANGED <<turns, queue, active, lease, intent, platform, waiting, holder, visit, mishaps>>

AlarmPermitTimeout ==
    /\ ring.pc = "permit"
    /\ holder # NoCall
    /\ RingDone
    /\ UNCHANGED <<engine, platform, waiting, holder, visit, mishaps>>

-----------------------------------------------------------------------------
(* What follows a run *)

Ended(c) ==
    /\ finishing' = finishing \ {c}
    /\ ring' = IF c.kind = "alarm" THEN NoRing ELSE ring

\* On to its wake, where the turn no longer matters.
ToWake(c) ==
    /\ finishing' = (finishing \ {c}) \cup {[kind |-> c.kind, turn |-> None, pc |-> "wake"]}
    /\ UNCHANGED ring

\* broadcastTerminal of a turn that is over sets the alarm for its cleanup.
BroadcastTerminal(c) ==
    /\ c.pc = "terminal"
    /\ platform' = (platform \/ (c.turn # None /\ turns[c.turn] \in Terminal))
    /\ ToWake(c)
    /\ UNCHANGED <<engine, waiting, holder, visit, mishaps>>

\* Mutant of NextTurn: it is left to the next request.
NextTurnLeft(c) == platform' = (platform \/ RecoveryAlarm) /\ UNCHANGED waiting

\* A run leaves the next turn to the alarm, the alarm handler runs it.
NextTurn(c) ==
    IF c.kind = "alarm"
    THEN /\ platform' = (platform \/ RecoveryAlarm)
         /\ waiting' = waiting \cup {Call("run", t) : t \in {Runnable} \ {None}}
    ELSE /\ platform' = (platform \/ RecoveryAlarm \/ Runnable # None)
         /\ UNCHANGED waiting

\* The last wake of every call; a mishap ends the call right after it.
Wake(c) ==
    /\ c.pc = "wake"
    /\ Wakened
    /\ \/ NextTurn(c) /\ UNCHANGED mishaps
       \/ Mishap /\ UNCHANGED <<platform, waiting>>
    /\ Ended(c)
    /\ UNCHANGED <<turns, queue, active, holder, visit>>

-----------------------------------------------------------------------------
(* Mishaps *)

\* Storage or a socket fails in a call's last steps: the adapter's call ends, the
\* alarm handler swallows the failure; sendMessage goes on to its wake.
Break(c) ==
    /\ Mishap
    /\ \/ Ended(c)
       \/ c.kind = "run" /\ c.pc = "terminal" /\ ToWake(c)
    /\ UNCHANGED <<engine, platform, waiting, holder, visit>>

\* The isolate is lost with its calls; the platform repeats an alarm whose
\* handler did not return.
Restart ==
    /\ Mishap
    /\ lease' = IF lease = "valid" THEN "lapsed" ELSE lease
    /\ platform' = (platform \/ ring # NoRing)
    /\ waiting' = {}
    /\ holder' = NoCall
    /\ ring' = NoRing
    /\ finishing' = {}
    /\ visit' = NoVisit
    /\ UNCHANGED <<turns, queue, active, incident, intent>>

-----------------------------------------------------------------------------
EndRun == (\E outcome \in Terminal : Settle(outcome)) \/ ScheduleRecovery \/ Fenced

Permit ==
    \/ \E call \in waiting : Claim(call)
    \/ (\E outcome \in Terminal : EndByRecovery(outcome)) \/ Attempt \/ NoRecovery

Finish(c) == BroadcastTerminal(c) \/ Wake(c)

Handle == Submit \/ Leave

Next ==
    \/ Visit \/ Handle
    \/ Permit \/ EndRun \/ LeaseLapses
    \/ \E call \in waiting : PermitTimeout(call)
    \/ Fire \/ RecoveryDue \/ AlarmPermitTimeout
    \/ \E c \in finishing : Finish(c) \/ Break(c)
    \/ Abandon \/ Restart

\* The isolate goes on with its calls; the platform delivers its alarm; time
\* passes, so that a debounce ends and the lease of an owner that no longer
\* renews it lapses.  Nobody has to make a request.
Fairness ==
    /\ WF_vars(Handle) /\ WF_vars(Permit) /\ WF_vars(EndRun)
    /\ WF_vars(\E c \in finishing : Finish(c))
    /\ WF_vars(Fire) /\ WF_vars(RecoveryDue)
    /\ WF_vars(LeaseLapses /\ holder = NoCall)

Safe == Init /\ [][Next]_vars

Spec == Safe /\ Fairness

-----------------------------------------------------------------------------
(* Properties *)

\* The shape of the engine's state, of the alarm and of the calls in flight.
TypeOK ==
    /\ turns \in [Turn -> {"absent", "queued", "started"} \cup Terminal]
    /\ queue \in Seq(Turn)
    /\ active \in Turn \cup {None}
    /\ lease \in {"none", "valid", "lapsed"}
    /\ incident \in [turn : Turn \cup {None},
                     status : {"none", "waiting", "due", "disarmed", "attempting", "exhausted"},
                     attempt : 0..MaxRecoveryAttempts]
    /\ intent \in BOOLEAN /\ platform \in BOOLEAN
    /\ waiting \subseteq [kind : {"run"}, turn : Turn]
    /\ holder \in [kind : Kind, turn : Turn \cup {None}]
    /\ ring \in [pc : {"idle", "permit", "finishing"}, stream : Turn \cup {None}]
    /\ finishing \subseteq [kind : Kind, turn : Turn \cup {None}, pc : {"terminal", "wake"}]
    /\ visit \in [pc : {"none", "ready"}, recoverable : Turn \cup {None}]
    /\ mishaps \in 0..MaxMishaps

AtRest == waiting = {} /\ holder = NoCall /\ ring = NoRing /\ finishing = {} /\ visit = NoVisit

\* Unless a call was cut short, a session at rest with a turn unfinished has its
\* alarm set: every path that ends with the turn interrupted or another one queued
\* arms it, whichever of the host's five places called wake.
ArmedAtRest == mishaps = 0 /\ AtRest /\ (active # None \/ queue # << >>) => platform

Turns == INSTANCE TurnSpec WITH
    state <- turns, line <- queue, events <- [t \in Turn |-> 0]

\* Whatever the host does, turns start in order, one at a time, and end once.
ImplementsTurnSpec == Turns!TurnSafety

\* Until a mishap every submitted turn ends, although nobody comes back.
EndsUnattended ==
    \A t \in Turn : turns[t] = "queued" ~> turns[t] \in Terminal \/ mishaps > 0

\* A message is refused while a turn has to recover first, never for good: also
\* when a recovery was given up and its incident stays.
AcceptsAgain == []<>(visit # NoVisit) => []<>(Recoverable = None)

\* After failures, lost isolates and departed callers every submitted turn still
\* ends, provided somebody makes a request now and then.
EndsIfVisited == []<>(visit # NoVisit) => Turns!TurnsEnd
===============================================================================
