---------------------------- MODULE StreamDelivery ----------------------------
(***************************************************************************)
(* How the events of a session's turns reach one browser: the handoff gate *)
(* (packages/agent-runtime/src/replay-handoff.ts), the WebSocket adapter   *)
(* (apps/backend/src/runtime-websocket-adapter.ts), and the client's       *)
(* socket and frame reducer (packages/client-runtime/src).                 *)
(*                                                                         *)
(* An event is its stream and its sequence.  Of the engine only what the   *)
(* adapter reads is kept: the streams in order of admission, how many      *)
(* events each has, its outcome, which turn is active and whether a call   *)
(* of this isolate drives it.  Appending an event and broadcasting it are  *)
(* two steps; so are reading a backlog and sending it.                     *)
(***************************************************************************)
EXTENDS Integers, Sequences, FiniteSets

CONSTANTS
    MaxPendingHandoffEvents,    \* MAX_PENDING_HANDOFF_EVENTS
    MaxReconnectAttempts,       \* MAX_RECONNECT_ATTEMPTS
    MaxTurns, MaxEvents, MaxSubmits, MaxAlarms, MaxFaults   \* exploration bounds

ASSUME DeliveryAssumption ==
    /\ MaxPendingHandoffEvents \in Nat
    /\ MaxReconnectAttempts \in Nat
    /\ \A bound \in {MaxTurns, MaxEvents, MaxSubmits, MaxAlarms, MaxFaults} : bound \in Nat

VARIABLES
    log,          \* number of events of each stream
    outcome,      \* status of each stream
    active,       \* stream of the turn that holds the session
    driven,       \* a call of this isolate is executing the active turn
    outbox,       \* sequence appended to the active stream and not yet broadcast
    notices,      \* broadcastTerminal calls in flight
    ringing,      \* the stream an alarm handler probed, until its recover looked
    conn,         \* the server's side of the latest connection
    toClient, toServer,         \* frames in flight
    client,       \* socket and snapshot of the browser
    online,       \* navigator.onLine
    used          \* what the environment did so far

engine == <<log, outcome, active, driven, outbox>>
vars == <<engine, notices, ringing, conn, toClient, toServer, client, online, used>>

Stream == 1..MaxTurns
None == 0                       \* no stream
NoEvent == -1

Outcome == {"absent", "open", "interrupted", "completed", "failed"}
Terminal == {"completed", "failed"}

NoGate == [stream |-> None, highWater |-> NoEvent, pending |-> << >>]

NoResume == [pc |-> "none", stream |-> None, after |-> NoEvent, through |-> NoEvent]

\* state of the socket on the server, its handoff gate, the handler of its ResumeAck;
\* `missed` is history: storage failed ahead of an outcome it was to be told.
NewConnection == [state |-> "dialing", probed |-> None, gate |-> NoGate, resume |-> NoResume,
                  missed |-> FALSE]

\* The handler of the ResumeAck gave up: a storage call of it failed.
FailedResume == [NoResume EXCEPT !.pc = "failed"]

\* Frames; a client applies a frame only while the socket it came by is its own.
Frame(tag, s, n, info) == [tag |-> tag, stream |-> s, sequence |-> n, info |-> info, stale |-> FALSE]
Event(s, n) == Frame("StreamEvent", s, n, "")

-----------------------------------------------------------------------------
(* The engine as the adapter sees it *)

Admitted == Cardinality({s \in Stream : outcome[s] # "absent"})

\* Exploration bound: streams there are or that a frame in flight asks for.
Room == Admitted + Cardinality({i \in DOMAIN toServer : toServer[i].tag = "SubmitTurn"}) < MaxTurns

\* probe: the active stream, otherwise the latest.
ProbedStream == IF active # None THEN active ELSE Admitted

\* Mutant of Told: any state of the stream is told as its outcome.
ToldAny == Outcome

\* The outcomes that `terminal` tells, as broadcastTerminal and handleResume ask for.
Told == Terminal \cup {"interrupted"}

StreamTerminal(s) == Frame("StreamTerminal", s, log[s] - 1, outcome[s])

\* wake, ahead of every request: a turn no call of this isolate drives is interrupted.
Woken ==
    IF active # None /\ ~driven THEN [outcome EXCEPT ![active] = "interrupted"] ELSE outcome

AdmitStream(statuses) == [statuses EXCEPT ![Admitted + 1] = "open"]

\* Another client or an RPC submits a turn.
AdmitElsewhere ==
    /\ Room
    /\ outcome' = AdmitStream(Woken)
    /\ UNCHANGED <<log, active, driven, outbox, notices, ringing, conn, toClient, toServer, client, online, used>>

\* run of the FIFO head: streams are served in the order of admission.
StartTurn ==
    /\ active = None
    /\ \E s \in Stream :
           /\ outcome[s] = "open"
           /\ \A t \in Stream : t < s => outcome[t] \in Terminal
           /\ active' = s
    /\ driven' = TRUE
    /\ UNCHANGED <<log, outcome, outbox, notices, ringing, conn, toClient, toServer, client, online, used>>

\* append: the next event is produced when the one before was broadcast.  Of an
\* earlier turn, or an earlier attempt, broadcastTerminal is over by then, and so is
\* an alarm's look at it: each is one read of the storage, an attempt's first event
\* takes four transactions.
AppendToLog ==
    /\ driven
    /\ notices = {} /\ ringing \in {None, active}
    /\ outbox = NoEvent
    /\ log[active] < MaxEvents
    /\ log' = [log EXCEPT ![active] = @ + 1]
    /\ outbox' = log[active]
    /\ UNCHANGED <<outcome, active, driven, notices, ringing, conn, toClient, toServer, client, online, used>>

\* The turn ends or is interrupted by a failure; its runner reports either.  A
\* completed turn has told so in an event.
EndTurn(status) ==
    /\ driven
    /\ status = "completed" => log[active] > 0
    /\ outbox = NoEvent
    /\ driven' = FALSE
    /\ outcome' = [outcome EXCEPT ![active] = status]
    /\ active' = IF status = "interrupted" THEN active ELSE None
    /\ notices' = notices \cup {active}
    /\ UNCHANGED <<log, outbox, ringing, conn, toClient, toServer, client, online, used>>

-----------------------------------------------------------------------------
(* broadcast *)

Send(frames) == toClient' = IF conn.state = "open" THEN toClient \o frames ELSE toClient

\* Mutant of parkLiveEvent: the buffer is full, the event is dropped.
parkOrDrop(gate, n, capacity) ==
    IF n <= gate.highWater \/ Len(gate.pending) >= capacity THEN "duplicate" ELSE "buffered"

\* parkLiveEvent of an event of the gate's stream.
parkLiveEvent(gate, n, capacity) ==
    IF n <= gate.highWater THEN "duplicate"
    ELSE IF Len(gate.pending) >= capacity THEN "overflow"
    ELSE "buffered"

Gated(s) == conn.gate.stream = s

\* A live event is parked behind a gate of its stream; without room for it the
\* socket is closed, so that the client comes back for a replay.
BroadcastEvent(s, n) ==
    LET parked == parkLiveEvent(conn.gate, n, MaxPendingHandoffEvents) IN
    IF ~Gated(s) THEN Send(<<Event(s, n)>>) /\ UNCHANGED conn
    ELSE /\ conn' = CASE parked = "buffered" -> [conn EXCEPT !.gate.pending = Append(@, n)]
                      [] parked = "overflow" -> [conn EXCEPT !.gate = NoGate, !.state = "closed"]
                      [] OTHER -> conn
         /\ UNCHANGED toClient

Publish ==
    /\ outbox # NoEvent
    /\ BroadcastEvent(active, outbox)
    /\ outbox' = NoEvent
    /\ UNCHANGED <<log, outcome, active, driven, notices, ringing, toServer, client, online, used>>

\* broadcastTerminal reads the stream and tells an outcome to every connection
\* that is not being handed off.
BroadcastTerminal ==
    \E s \in notices :
        /\ notices' = notices \ {s}
        /\ IF outcome[s] \in Told /\ ~Gated(s)
           THEN Send(<<StreamTerminal(s)>>) ELSE UNCHANGED toClient
        /\ UNCHANGED <<engine, ringing, conn, toServer, client, online, used>>

Fault == used.faults < MaxFaults /\ used' = [used EXCEPT !.faults = @ + 1]

\* The read of broadcastTerminal fails: nobody is told.
BroadcastFails ==
    /\ Fault
    /\ \E s \in notices :
           /\ notices' = notices \ {s}
           /\ conn' = [conn EXCEPT !.missed = @ \/ (conn.state = "open" /\ ~Gated(s))]
    /\ UNCHANGED <<engine, ringing, toClient, toServer, client, online>>

\* recoverSession: whatever the alarm was set for, an active turn is announced
\* as recovering before recover looks whether there is anything to recover.
Alarm ==
    /\ used.alarms < MaxAlarms
    /\ ringing = None /\ ProbedStream # None
    /\ ringing' = ProbedStream
    /\ Send(IF active # None THEN <<Frame("Recovering", active, NoEvent, "")>> ELSE << >>)
    /\ used' = [used EXCEPT !.alarms = @ + 1]
    /\ UNCHANGED <<engine, notices, conn, toServer, client, online>>

\* recover drives the turn again, and EndTurn has its end told; when it has nothing to
\* do or fails, the outcome of the stream probed is told, whatever is active by now.
\* Bound: no other turn starts and is interrupted between the probe and this look.
Recover ==
    /\ ringing # None
    /\ ringing' = None
    /\ \/ /\ active = ringing
          /\ outcome[active] = "interrupted"
          /\ outcome' = [outcome EXCEPT ![active] = "open"]
          /\ driven' = TRUE
          /\ UNCHANGED notices
       \/ /\ outcome' = Woken
          /\ notices' = notices \cup {ringing}
          /\ UNCHANGED driven
    /\ UNCHANGED <<log, active, outbox, conn, toClient, toServer, client, online, used>>

-----------------------------------------------------------------------------
(* upgrade and onMessage *)

\* The connection is gated from the start on the stream its probe names.
Upgrade ==
    LET s == ProbedStream IN
    /\ conn.state = "dialing"
    /\ outcome' = Woken
    /\ conn' = [conn EXCEPT !.state = "open", !.probed = s,
           !.gate = IF s = None THEN NoGate ELSE [NoGate EXCEPT !.stream = s]]
    /\ client' = [client EXCEPT !.socket = "open"]
    /\ toClient' = Append(toClient, Frame("ResumeProbe", s,
           IF s = None THEN NoEvent ELSE log[s] - 1,
           IF active # None THEN "active" ELSE ""))
    /\ UNCHANGED <<log, active, driven, outbox, notices, ringing, toServer, online, used>>

Take == toServer # << >> /\ conn.state = "open" /\ toServer' = Tail(toServer)

\* SubmitTurn is refused while a turn is interrupted; otherwise it is admitted
\* and accepted.
ReceiveSubmit ==
    /\ Take
    /\ Head(toServer).tag = "SubmitTurn"
    /\ outcome' =
         IF active # None /\ Woken[active] = "interrupted" THEN Woken ELSE AdmitStream(Woken)
    /\ Send(IF active # None /\ Woken[active] = "interrupted"
            THEN <<Frame("ProtocolError", None, NoEvent, "recoverable")>>
            ELSE <<Frame("TurnAccepted", Admitted + 1, NoEvent, "")>>)
    /\ UNCHANGED <<log, active, driven, outbox, notices, ringing, conn, client, online, used>>

\* handleResume up to the replay: no stream and a completed stream are answered
\* at once; for any other the gate is set, at the client's cursor, before the
\* backlog is read.
ReceiveResume ==
    LET ack == Head(toServer)
        s == IF ack.stream # None THEN ack.stream ELSE conn.probed
    IN
    /\ Take
    /\ ack.tag = "ResumeAck"
    /\ outcome' = Woken
    /\ CASE s = None ->
              /\ conn' = [conn EXCEPT !.gate = NoGate]
              /\ Send(<<Frame("ResumeComplete", None, NoEvent, "")>>)
         [] s # None /\ outcome[s] = "completed" /\ ack.sequence > log[s] - 1 ->
              /\ conn' = [conn EXCEPT !.gate = NoGate, !.state = "closed"]
              /\ Send(<<Frame("ProtocolError", s, NoEvent, "close")>>)
         [] s # None /\ outcome[s] = "completed" /\ ack.sequence <= log[s] - 1 ->
              /\ conn' = [conn EXCEPT !.gate = NoGate]
              /\ Send(<<Frame("ResumeComplete", s, log[s] - 1, ""),
                        StreamTerminal(s)>>)
         [] OTHER ->
              /\ conn' = [conn EXCEPT
                     !.gate = [stream |-> s, highWater |-> ack.sequence,
                               pending |-> IF Gated(s) THEN @.pending ELSE << >>],
                     !.resume = [NoResume EXCEPT !.pc = "replay", !.stream = s, !.after = ack.sequence]]
              /\ UNCHANGED toClient
    /\ UNCHANGED <<log, active, driven, outbox, notices, ringing, client, online, used>>

\* A storage call ahead of the answer fails: in wake, or the alarm it sets, and nobody
\* is told; or the first one of the frame's own handler (terminal, admit), which a
\* ProtocolError tells.  A ResumeAck is used up either way and leaves the gate.
ReceiveFails ==
    LET frame == Head(toServer)
        asks == frame.tag = "SubmitTurn" \/ frame.stream # None \/ conn.probed # None
    IN
    /\ Fault
    /\ Take
    /\ \/ outcome' \in {outcome, Woken} /\ UNCHANGED toClient
       \/ asks /\ outcome' = Woken /\ Send(<<Frame("ProtocolError", None, NoEvent, "recoverable")>>)
    /\ conn' = IF frame.tag = "ResumeAck" THEN [conn EXCEPT !.resume = FailedResume] ELSE conn
    /\ UNCHANGED <<log, active, driven, outbox, notices, ringing, client, online>>

Resuming(pc) == conn.state = "open" /\ conn.resume.pc = pc

\* replay fails, and removes the gate; or the question for an outcome after the handoff.
ResumeFails ==
    /\ Fault
    /\ Resuming("replay") \/ Resuming("terminal")
    /\ conn' = [conn EXCEPT !.gate = NoGate, !.resume = FailedResume]
    /\ Send(<<Frame("ProtocolError", None, NoEvent, "recoverable")>>)
    /\ UNCHANGED <<engine, notices, ringing, toServer, client, online>>

\* replay reads the log; a cursor beyond it closes the connection.
ReadBacklog ==
    LET r == conn.resume IN
    /\ Resuming("replay")
    /\ IF r.after > log[r.stream] - 1
       THEN /\ conn' = [conn EXCEPT !.gate = NoGate, !.resume = NoResume, !.state = "closed"]
            /\ Send(<<Frame("ProtocolError", r.stream, NoEvent, "close")>>)
       ELSE /\ conn' = [conn EXCEPT !.resume.pc = "drain", !.resume.through = log[r.stream] - 1]
            /\ UNCHANGED toClient
    /\ UNCHANGED <<engine, notices, ringing, toServer, client, online, used>>

\* A finite set of numbers in order.
Ascending(S) ==
    LET rank(n) == Cardinality({m \in S : m <= n})
    IN  [i \in 1..Cardinality(S) |-> CHOOSE n \in S : rank(n) = i]

\* acceptReplayBacklog and drainReplayPending filter through one high-water
\* mark: the sequences sent, in order.
HandedOff(gate, through) ==
    LET parked == {gate.pending[i] : i \in DOMAIN gate.pending}
        backlog == 0..through
    IN  Ascending({n \in backlog \cup parked : n > gate.highWater})

\* Backlog, parked events and ResumeComplete leave in one go; the gate is gone.
DrainHandoff ==
    LET r == conn.resume
        sent == HandedOff(conn.gate, r.through)
        high == IF sent = << >> THEN conn.gate.highWater ELSE sent[Len(sent)]
    IN
    /\ Resuming("drain")
    /\ Send([i \in DOMAIN sent |-> Frame("StreamEvent", r.stream, sent[i], "replay")]
            \o <<Frame("ResumeComplete", r.stream, high, "")>>)
    /\ conn' = [conn EXCEPT !.gate = NoGate, !.resume.pc = "terminal", !.resume.through = high]
    /\ UNCHANGED <<engine, notices, ringing, toServer, client, online, used>>

\* Mutant of AnswerTerminal: a terminal is only broadcast.
AnswerTerminalNever ==
    /\ Resuming("terminal")
    /\ conn' = [conn EXCEPT !.resume = NoResume]
    /\ UNCHANGED <<engine, notices, ringing, toClient, toServer, client, online, used>>

\* Then the stream is asked for an outcome.
AnswerTerminal ==
    LET s == conn.resume.stream IN
    /\ Resuming("terminal")
    /\ IF outcome[s] \in Told THEN Send(<<StreamTerminal(s)>>) ELSE UNCHANGED toClient
    /\ conn' = [conn EXCEPT !.resume = NoResume]
    /\ UNCHANGED <<engine, notices, ringing, toServer, client, online, used>>

-----------------------------------------------------------------------------
(* The client's reducer, applyRuntimeServerFrame: the snapshot after a frame *)

Extended(c, frame) == [c EXCEPT
    !.status = IF frame.info = "replay" THEN "replaying" ELSE "live",
    !.stream = frame.stream, !.lastSequence = frame.sequence,
    !.inFlight = TRUE, !.recent = Append(@, <<frame.stream, frame.sequence>>)]

HighWater(c, s) == IF c.stream = s THEN c.lastSequence ELSE NoEvent

Gap(c, frame) == frame.tag = "StreamEvent" /\ frame.sequence > HighWater(c, frame.stream) + 1

Clamped(c, frame) ==
    IF frame.stream # None /\ c.stream = frame.stream
    THEN IF c.lastSequence < frame.sequence THEN c.lastSequence ELSE frame.sequence
    ELSE NoEvent

\* Of the events shown, the replayed stream's up to the cursor are kept.
Remembered(c, frame) ==
    LET kept == Ascending({i \in DOMAIN c.recent :
                    /\ c.recent[i][1] = c.stream /\ c.stream = frame.stream
                    /\ c.recent[i][2] <= Clamped(c, frame)})
    IN  [i \in DOMAIN kept |-> c.recent[kept[i]]]

OnProbe(c, frame) == [c EXCEPT
    !.status = "replaying",
    !.stream = frame.stream,
    !.lastSequence = Clamped(c, frame),
    !.inFlight = frame.info = "active",
    !.recent = Remembered(c, frame)]

OnAccepted(c, frame) == [c EXCEPT
    !.status = "live", !.stream = frame.stream, !.lastSequence = NoEvent,
    !.inFlight = TRUE, !.recent = << >>]

\* Mutant of OnEvent: duplicates are shown again.
OnEventAgain(c, frame) ==
    IF frame.sequence <= HighWater(c, frame.stream) + 1 THEN Extended(c, frame) ELSE c

OnEvent(c, frame) ==
    IF frame.sequence = HighWater(c, frame.stream) + 1 THEN Extended(c, frame) ELSE c

OnComplete(c, frame) == [c EXCEPT
    !.status = IF @ \in Terminal \cup {"interrupted"} THEN @ ELSE "live",
    !.stream = frame.stream, !.lastSequence = frame.sequence]

OnRecovering(c, frame) == [c EXCEPT
    !.status = "recovering", !.stream = frame.stream, !.inFlight = TRUE]

OnTerminal(c, frame) == [c EXCEPT
    !.status = frame.info, !.stream = frame.stream, !.lastSequence = frame.sequence,
    !.inFlight = FALSE]

Applied(c, frame) ==
    CASE frame.tag = "ResumeProbe" -> OnProbe(c, frame)
      [] frame.tag = "TurnAccepted" -> OnAccepted(c, frame)
      [] frame.tag = "StreamEvent" -> OnEvent(c, frame)
      [] frame.tag = "ResumeComplete" -> OnComplete(c, frame)
      [] frame.tag = "Recovering" -> OnRecovering(c, frame)
      [] frame.tag = "StreamTerminal" -> OnTerminal(c, frame)
      [] OTHER -> c

-----------------------------------------------------------------------------
(* The client's socket *)

\* Mutant of Disconnected: onClose forgets the gate.
DisconnectedGated == [conn EXCEPT !.state = "closed", !.resume = NoResume]

\* A closed or lost connection takes the server's side and what is on the way
\* to it along; frames that arrived are still in the client's apply queue.
Disconnected == [conn EXCEPT !.state = "closed", !.gate = NoGate, !.resume = NoResume]

\* #applyQueue: the frames of the current socket are applied one after another.
\* A gap or an unrecoverable error closes the socket, whose close event is to come.
Apply ==
    LET frame == Head(toClient)
        closes == Gap(client, frame) \/ frame.info = "close"
    IN
    /\ toClient # << >>
    /\ toClient' = Tail(toClient)
    /\ IF frame.stale THEN UNCHANGED <<client, conn, toServer>>
       ELSE /\ client' = [Applied(client, frame) EXCEPT
                   !.attempts = IF frame.tag = "ResumeComplete" THEN 0 ELSE @,
                   !.socket = IF closes THEN "closing" ELSE @]
            /\ conn' = IF closes THEN Disconnected ELSE conn
            /\ toServer' =
                 IF closes THEN << >>
                 ELSE IF frame.tag = "ResumeProbe" /\ client.socket = "open"
                 THEN Append(toServer, Frame("ResumeAck", frame.stream, Clamped(client, frame), ""))
                 ELSE toServer
    /\ UNCHANGED <<engine, notices, ringing, online, used>>

\* submit, from a composer that shows no turn in flight and a usable connection.
Submit ==
    /\ used.submits < MaxSubmits
    /\ Room
    /\ client.socket = "open"
    /\ client.status \in {"live", "completed", "failed"}
    /\ ~client.inFlight
    /\ toServer' = IF conn.state = "open"
                   THEN Append(toServer, Frame("SubmitTurn", None, NoEvent, "")) ELSE toServer
    /\ used' = [used EXCEPT !.submits = @ + 1]
    /\ UNCHANGED <<engine, notices, ringing, conn, toClient, client, online>>

\* connect, as a change of the client: nothing if it has a socket or is about to.
Connected(c) ==
    IF c.socket # "none" \/ c.connectTimer THEN c
    ELSE [c EXCEPT !.closed = FALSE, !.status = "connecting", !.connectTimer = TRUE]

ConnectTimer ==
    /\ client.connectTimer
    /\ client' = [client EXCEPT !.connectTimer = FALSE,
                                !.socket = IF @ = "none" THEN "connecting" ELSE @]
    /\ conn' = IF client.socket = "none" THEN NewConnection ELSE conn
    /\ toServer' = IF client.socket = "none" THEN << >> ELSE toServer
    /\ UNCHANGED <<engine, notices, ringing, toClient, online, used>>

\* scheduleReconnect
Rescheduled(c) ==
    IF ~online THEN [c EXCEPT !.status = "interrupted"]
    ELSE IF c.attempts >= MaxReconnectAttempts THEN [c EXCEPT !.status = "disconnected"]
    ELSE [c EXCEPT !.attempts = @ + 1, !.status = "connecting", !.reconnectTimer = TRUE]

Staled == [i \in DOMAIN toClient |-> [toClient[i] EXCEPT !.stale = TRUE]]

\* The close event of the current socket; its frames still queued are stale.
CloseEvent ==
    /\ client.socket \in {"connecting", "open", "closing"}
    /\ conn.state = "closed"
    /\ client' = Rescheduled([client EXCEPT !.socket = "none"])
    /\ toClient' = Staled
    /\ UNCHANGED <<engine, notices, ringing, conn, toServer, online, used>>

ReconnectTimer ==
    /\ client.reconnectTimer
    /\ client' = Connected([client EXCEPT !.reconnectTimer = FALSE])
    /\ UNCHANGED <<engine, notices, ringing, conn, toClient, toServer, online, used>>

\* The browser is online again: the budget is refilled, a waiting retry is
\* replaced by a connection at once.
Online ==
    /\ ~online
    /\ online' = TRUE
    /\ client' = IF client.closed THEN client
                 ELSE Connected([client EXCEPT !.attempts = 0, !.reconnectTimer = FALSE])
    /\ UNCHANGED <<engine, notices, ringing, conn, toClient, toServer, used>>

\* The user leaves the session, and comes back.
Close ==
    /\ used.faults < MaxFaults
    /\ ~client.closed
    /\ client' = [client EXCEPT !.closed = TRUE, !.socket = "none", !.status = "disconnected",
                      !.connectTimer = FALSE, !.reconnectTimer = FALSE, !.attempts = 0]
    /\ conn' = Disconnected
    /\ toClient' = Staled
    /\ toServer' = << >>
    /\ used' = [used EXCEPT !.faults = @ + 1]
    /\ UNCHANGED <<engine, notices, ringing, online>>

Connect ==
    /\ Connected(client) # client
    /\ client' = Connected(client)
    /\ UNCHANGED <<engine, notices, ringing, conn, toClient, toServer, online, used>>

-----------------------------------------------------------------------------
(* Losses *)

\* The network drops the connection, with or without the browser noticing that
\* it is offline; or an upgrade fails.
Drop ==
    /\ used.faults < MaxFaults
    /\ conn.state \in {"dialing", "open"}
    /\ conn' = Disconnected
    /\ toServer' = << >>
    /\ online' \in {TRUE, FALSE}
    /\ used' = [used EXCEPT !.faults = @ + 1]
    /\ UNCHANGED <<engine, notices, ringing, toClient, client>>

\* The isolate is lost, with all its calls and connections.
Restart ==
    /\ used.faults < MaxFaults
    /\ driven' = FALSE
    /\ outbox' = NoEvent
    /\ notices' = {}
    /\ ringing' = None
    /\ conn' = IF conn.state = "open" THEN Disconnected ELSE conn
    /\ toServer' = IF conn.state = "open" THEN << >> ELSE toServer
    /\ used' = [used EXCEPT !.faults = @ + 1]
    /\ UNCHANGED <<log, outcome, active, toClient, client, online>>

\* An idle object is hibernated: its sockets stay, its memory does not.
Hibernate ==
    /\ used.faults < MaxFaults
    /\ ~driven /\ notices = {} /\ ringing = None
    /\ conn.state = "open" /\ conn.resume.pc \in {"none", "failed"}
    /\ conn' = [conn EXCEPT !.gate = NoGate]
    /\ used' = [used EXCEPT !.faults = @ + 1]
    /\ UNCHANGED <<engine, notices, ringing, toClient, toServer, client, online>>

-----------------------------------------------------------------------------
Init ==
    /\ log = [s \in Stream |-> 0]
    /\ outcome = [s \in Stream |-> "absent"]
    /\ active = None
    /\ driven = FALSE
    /\ outbox = NoEvent
    /\ notices = {}
    /\ ringing = None
    /\ conn = [NewConnection EXCEPT !.state = "closed"]
    /\ toClient = << >>
    /\ toServer = << >>
    /\ client = [
         status |-> "connecting", stream |-> None, lastSequence |-> NoEvent,
         inFlight |-> FALSE, recent |-> << >>,
         socket |-> "none", connectTimer |-> TRUE, reconnectTimer |-> FALSE,
         attempts |-> 0, closed |-> FALSE ]
    /\ online = TRUE
    /\ used = [submits |-> 0, alarms |-> 0, faults |-> 0]

Server ==
    \/ Publish \/ BroadcastTerminal \/ Recover
    \/ Upgrade \/ ReceiveSubmit \/ ReceiveResume
    \/ ReadBacklog \/ DrainHandoff \/ AnswerTerminal

Browser == Apply \/ ConnectTimer \/ CloseEvent \/ ReconnectTimer \/ Online

Next ==
    \/ AdmitElsewhere \/ StartTurn \/ AppendToLog
    \/ \E status \in Terminal \cup {"interrupted"} : EndTurn(status)
    \/ Alarm
    \/ Server
    \/ Browser
    \/ Submit \/ Close \/ Connect
    \/ BroadcastFails \/ ReceiveFails \/ ResumeFails
    \/ Drop \/ Restart \/ Hibernate

Fairness ==
    /\ WF_vars(Server)
    /\ WF_vars(Apply) /\ WF_vars(ConnectTimer) /\ WF_vars(CloseEvent)
    /\ WF_vars(ReconnectTimer) /\ WF_vars(Online)

Safe == Init /\ [][Next]_vars

Spec == Safe /\ Fairness

-----------------------------------------------------------------------------
(* Properties *)

ServerFrame == [
    tag : {"ResumeProbe", "TurnAccepted", "StreamEvent", "ResumeComplete", "Recovering",
           "StreamTerminal", "ProtocolError"},
    stream : Stream \cup {None}, sequence : NoEvent..MaxEvents,
    info : {"", "active", "replay", "close", "recoverable", "completed", "failed", "interrupted"},
    stale : BOOLEAN ]

Gate == [stream : Stream \cup {None}, highWater : NoEvent..MaxEvents, pending : Seq(0..MaxEvents)]

\* The shape of the streams, of the connection and of the client.
TypeOK ==
    /\ log \in [Stream -> 0..MaxEvents]
    /\ outcome \in [Stream -> Outcome]
    /\ active \in Stream \cup {None}
    /\ ringing \in Stream \cup {None}
    /\ driven \in BOOLEAN /\ online \in BOOLEAN
    /\ outbox \in NoEvent..MaxEvents
    /\ conn.state \in {"dialing", "open", "closed"}
    /\ conn.gate \in Gate
    /\ conn.resume.pc \in {"none", "replay", "drain", "terminal", "failed"}
    /\ toClient \in Seq(ServerFrame)
    /\ \A i \in DOMAIN toServer : toServer[i].tag \in {"ResumeAck", "SubmitTurn"}
    /\ client.socket \in {"none", "connecting", "open", "closing"}
    /\ client.status \in {"connecting", "replaying", "live", "recovering", "completed",
                          "interrupted", "failed", "disconnected"}
    /\ client.lastSequence \in NoEvent..MaxEvents
    /\ client.attempts \in 0..MaxReconnectAttempts

\* applyRuntimeServerFrame's dedupe: the client never shows an event twice, nor an
\* earlier one after a later one, whatever replays, live broadcasts and frames of
\* old sockets reach it.
ShownOnce ==
    \A i, j \in DOMAIN client.recent :
        i < j /\ client.recent[i][1] = client.recent[j][1]
            => client.recent[i][2] < client.recent[j][2]

\* A gate holds back live events until its handoff ends, so no gate may outlive
\* what ends it: a resume being served, its ResumeAck, or the probe to be
\* acknowledged is still on the way.  The one exception: storage failed ahead of the
\* handoff, so that the ResumeAck is used up and the gate stays with its connection.
GateHasResume ==
    conn.gate.stream # None =>
        \/ conn.resume.pc \in {"replay", "drain", "failed"}
        \/ \E i \in DOMAIN toServer : toServer[i].tag = "ResumeAck"
        \/ \E i \in DOMAIN toClient : toClient[i].tag = "ResumeProbe" /\ ~toClient[i].stale

\* The last event of a stream whose broadcast is over.
Published(s) == IF active = s /\ outbox # NoEvent THEN outbox - 1 ELSE log[s] - 1

\* Register before drain: when a handoff opens its gate it has sent every event
\* broadcast until then, also those appended after its backlog was read.
HandoffCatchesUp ==
    [][Resuming("drain") /\ conn'.resume.pc = "terminal"
         => conn'.resume.through >= Published(conn.resume.stream)]_vars

\* Every turn is over and its end was announced.
AtRest ==
    /\ active = None /\ notices = {} /\ ringing = None
    /\ \A s \in Stream : outcome[s] \in Terminal \cup {"absent"}

CaughtUp == Admitted # None => client.status = outcome[Admitted]

\* Storage failed where the client on this connection was to be told of an outcome;
\* it will not be told before it connects again.
Untold == conn.state = "open" /\ (conn.missed \/ conn.resume.pc = "failed")

\* Once the turns are over, a client that has not left ends up showing the last
\* one's outcome, unless a failure of storage left its last connection untold: no
\* overflow, gap, lost connection, isolate or hibernation leaves it "replaying", "live"
\* or "recovering" for ever, or out of attempts.
Converges ==
    <>[](AtRest /\ toServer = << >> /\ ~client.closed /\ ~Untold) => <>[]CaughtUp
===============================================================================
