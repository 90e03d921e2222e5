---------------------- MODULE StreamDeliveryOrderProofs ----------------------
(***************************************************************************)
(* What the client of StreamDelivery shows, in what order: as long as no   *)
(* hibernation takes a gate away, no event is shown twice or out of order, *)
(* for every value of the constants.  The order is a fact about the        *)
(* client, the frames on the way to it and the event yet to be broadcast.  *)
(***************************************************************************)
EXTENDS StreamDeliveryProofs

\* The frames the client will apply, those of them that are events of a stream, and
\* those that make it forget what it showed.
Fresh == {i \in DOMAIN toClient : ~toClient[i].stale}
Events(s) == {i \in Fresh : toClient[i].tag = "StreamEvent" /\ toClient[i].stream = s}
Forgetting == {i \in Fresh : toClient[i].tag \in {"ResumeProbe", "TurnAccepted"}}

Shown(s) == {x \in DOMAIN client.recent : client.recent[x][1] = s}

\* A frame that leaves the cursor of stream s alone.
Passes(frame, s) ==
    \/ frame.tag = "ProtocolError"
    \/ frame.tag = "Recovering" /\ frame.stream = s

AllPass(i, j, s) == \A k \in Fresh : i < k /\ k < j => Passes(toClient[k], s)

\* When frame j is applied, the client's cursor has reached event n of stream s.
Seen(j, s, n) ==
    \/ client.stream = s /\ client.lastSequence >= n /\ AllPass(0, j, s)
    \/ \E i \in Fresh :
          /\ i < j /\ toClient[i].tag = "ResumeComplete"
          /\ toClient[i].stream = s /\ toClient[i].sequence >= n
          /\ AllPass(i, j, s)

\* No frame between i and j makes the client forget.
Together(i, j) == \A k \in Forgetting : ~(i < k /\ k < j)

\* Two events on the way are in order, or the second will be refused.
OrderOnWire ==
    \A s \in Stream : \A i, j \in Events(s) :
        i < j /\ Together(i, j)
            => toClient[i].sequence < toClient[j].sequence \/ Seen(j, s, toClient[j].sequence)

\* An event on the way is behind what is shown, or will be refused.
OrderAhead ==
    \A s \in Stream : \A x \in Shown(s), j \in Events(s) :
        Together(0, j)
            => client.recent[x][2] < toClient[j].sequence \/ Seen(j, s, toClient[j].sequence)

\* While a probe is on the way, no event of its stream is.
ProbeFirst == \A i \in Probes : Events(toClient[i].stream) = {}

WireOrder == OrderOnWire /\ OrderAhead /\ ProbeFirst

Open == conn.state = "open"
End == Len(toClient) + 1

\* The resume of the connection has yet to send its backlog.
Awaiting == Probes # {} \/ Acks # {} \/ conn.resume.pc \in {"replay", "drain"}

\* The backlog, which is sent, had event n of the active stream.
Replayed(n) == conn.probed = active /\ ~Awaiting /\ Seen(End, active, n)

\* So is the event to be broadcast, if no gate is there to park it.
OrderToCome ==
    Open /\ outbox # NoEvent /\ ~Gated(active) =>
        /\ \A x \in Shown(active) :
              Together(0, End) => client.recent[x][2] < outbox \/ Replayed(outbox)
        /\ \A i \in Events(active) :
              Together(i, End) => toClient[i].sequence < outbox \/ Replayed(outbox)

\* A connection has one stream to hand off, gated until it is replayed.
OneStream ==
    Open =>
        /\ Awaiting => conn.gate.stream = conn.probed
        /\ conn.gate.stream # None => conn.gate.stream = conn.probed
        /\ \A i \in Probes : toClient[i].stream = conn.probed
        /\ \A i \in Acks : toServer[i].stream = conn.probed
        /\ Serving => conn.resume.stream = conn.probed

\* No event of a gated stream is on the way.
GateHolds == Open /\ conn.gate.stream # None => Events(conn.gate.stream) = {}

\* The replay starts behind what is shown.
CursorBehind ==
    Open =>
        /\ \A i \in Acks : \A x \in Shown(toServer[i].stream) :
              client.recent[x][2] <= toServer[i].sequence
        /\ conn.resume.pc \in {"replay", "drain"} =>
              \A x \in Shown(conn.resume.stream) : client.recent[x][2] <= conn.gate.highWater

HandoffOrder == OrderToCome /\ OneStream /\ GateHolds /\ CursorBehind

\* Every event is one of the log, wherever it is.
LoggedShown ==
    /\ client.recent \in Seq(Stream \X Nat)
    /\ \A x \in DOMAIN client.recent : client.recent[x][2] < log[client.recent[x][1]]

LoggedWire ==
    \A i \in Fresh : toClient[i].tag = "StreamEvent" =>
        toClient[i].stream # None /\ toClient[i].sequence \in Nat
            /\ toClient[i].sequence < log[toClient[i].stream]

LoggedParked ==
    Open =>
        /\ conn.gate.stream # None =>
              \A i \in DOMAIN conn.gate.pending : conn.gate.pending[i] < log[conn.gate.stream]
        /\ conn.resume.pc = "drain" => conn.resume.through < log[conn.resume.stream]

Logged == LoggedShown /\ LoggedWire /\ LoggedParked

\* An event is yet to be broadcast only of a turn that goes on.
TurnGoesOn ==
    /\ driven => outcome[active] = "open"
    /\ active # None => outcome[active] \notin Terminal
    /\ outbox # NoEvent => notices \subseteq {active} /\ ringing \in {None, active}

\* While the resume of the active stream is awaited, what is shown of it is before the
\* event to be broadcast, or about to be forgotten, or the cursor has reached that event:
\* so it may be sent, should the replay fail and take the gate away.
ReplaySeen ==
    Open /\ outbox # NoEvent /\ Awaiting /\ conn.probed = active =>
        \A x \in Shown(active) :
            \/ client.recent[x][2] < outbox
            \/ \E f \in Forgetting : AllPass(f, End, active)
            \/ client.stream = active /\ client.lastSequence >= outbox /\ AllPass(0, End, active)

OrderInv == ShownOnce /\ WireOrder /\ HandoffOrder /\ Logged /\ TurnGoesOn

-----------------------------------------------------------------------------
(* The turn *)

\* A wake neither ends a driven turn nor completes another.
LEMMA WokenGoesOn ==
    ASSUME TypeInv, TurnGoesOn
    PROVE  /\ driven => Woken[active] = "open"
           /\ active # None => Woken[active] \notin Terminal
<1>1. outcome \in [Stream -> Outcome] /\ active \in Stream \cup {None} /\ driven \in BOOLEAN
  BY DEF TypeInv, EngineType
<1>2. driven => active \in Stream
  BY <1>1 DEF TypeInv, EngineAgrees
<1>3. CASE active # None /\ ~driven
  <2>1. Woken[active] = "interrupted"
    BY <1>1, <1>3 DEF Woken
  <2> QED
    BY <1>3, <2>1 DEF Terminal
<1>4. CASE ~(active # None /\ ~driven)
  <2>1. Woken = outcome
    BY <1>4 DEF Woken
  <2> QED
    BY <2>1 DEF TurnGoesOn
<1> QED
  BY <1>3, <1>4

\* Nor does the admission of another turn.
LEMMA AdmitGoesOn ==
    ASSUME TypeInv, TurnGoesOn, outcome' \in {Woken, AdmitStream(Woken)},
           UNCHANGED <<active, driven, outbox>>,
           outbox # NoEvent => notices' \subseteq {active} /\ ringing' \in {None, active}
    PROVE  TurnGoesOn'
<1>1. Woken \in [Stream -> Outcome] /\ active \in Stream \cup {None}
  BY WokenType DEF TypeInv, EngineType
<1>2. driven => active \in Stream
  BY <1>1 DEF TypeInv, EngineAgrees
<1>3. active \in Stream => outcome'[active] \in {Woken[active], "open"}
  BY <1>1 DEF AdmitStream
<1>4. driven => outcome'[active] = "open"
  BY <1>2, <1>3, WokenGoesOn
<1>5. active # None => outcome'[active] \notin Terminal
  BY <1>1, <1>3, WokenGoesOn DEF Terminal
<1> QED
  BY <1>4, <1>5 DEF TurnGoesOn

\* Every step keeps it: an event is appended when no notice is in flight, and the
\* turn ends when no event is.
LEMMA TurnGoesOnStep ==
    ASSUME TypeInv, TurnGoesOn, Next
    PROVE  TurnGoesOn'
<1>1. outcome \in [Stream -> Outcome] /\ active \in Stream \cup {None}
  BY DEF TypeInv, EngineType
<1>2. CASE AdmitElsewhere \/ Upgrade \/ ReceiveSubmit \/ ReceiveResume
  <2>1. /\ outcome' \in {Woken, AdmitStream(Woken)}
        /\ UNCHANGED <<active, driven, outbox, notices, ringing>>
    BY <1>2 DEF AdmitElsewhere, Upgrade, ReceiveSubmit, ReceiveResume
  <2> QED
    BY <2>1, AdmitGoesOn DEF TurnGoesOn
<1>3. CASE StartTurn
  <2>1. /\ active = None /\ driven' = TRUE /\ UNCHANGED <<outcome, outbox, notices>>
        /\ outcome[active'] = "open"
    BY <1>3 DEF StartTurn
  <2>2. outbox = NoEvent
    BY <2>1 DEF TypeInv, EngineAgrees
  <2> QED
    BY <2>1, <2>2 DEF TurnGoesOn, Terminal
<1>4. CASE AppendToLog
  <2>1. notices = {} /\ ringing \in {None, active}
        /\ UNCHANGED <<outcome, active, driven, notices, ringing>>
    BY <1>4 DEF AppendToLog
  <2> QED
    BY <2>1 DEF TurnGoesOn
<1>5. CASE \E status \in Terminal \cup {"interrupted"} : EndTurn(status)
  <2>1. PICK status \in Terminal \cup {"interrupted"} : EndTurn(status)
    BY <1>5
  <2>2. /\ driven /\ outbox = NoEvent /\ outbox' = outbox /\ driven' = FALSE
        /\ outcome' = [outcome EXCEPT ![active] = status]
        /\ active' = IF status = "interrupted" THEN active ELSE None
    BY <2>1 DEF EndTurn
  <2>3. active \in Stream
    BY <1>1, <2>2 DEF TypeInv, EngineAgrees
  <2>4. outcome'[active] = status
    BY <1>1, <2>2, <2>3
  <2> QED
    BY <2>2, <2>4 DEF TurnGoesOn, Terminal
<1>6. CASE Recover
  <2>1. UNCHANGED <<active, outbox>> /\ ringing # None /\ ringing' = None
    BY <1>6 DEF Recover
  <2>2. CASE /\ active = ringing /\ outcome' = [outcome EXCEPT ![active] = "open"]
             /\ driven' = TRUE /\ notices' = notices
    <3>1. outcome'[active] = "open"
      BY <1>1, <2>1, <2>2
    <3> QED
      BY <2>1, <2>2, <3>1 DEF TurnGoesOn, Terminal
  <2>3. CASE outcome' = Woken /\ driven' = driven /\ notices' = notices \cup {ringing}
    <3>1. outbox # NoEvent => notices' \subseteq {active}
      BY <2>1, <2>3 DEF TurnGoesOn
    <3> QED
      BY <2>1, <2>3, <3>1, AdmitGoesOn
  <2> QED
    BY <1>6, <2>2, <2>3 DEF Recover
<1>7. CASE Publish
  BY <1>7 DEF Publish, TurnGoesOn
<1>8. CASE BroadcastTerminal \/ BroadcastFails
  <2>1. notices' \subseteq notices /\ UNCHANGED <<outcome, active, driven, outbox, ringing>>
    BY <1>8 DEF BroadcastTerminal, BroadcastFails, engine
  <2> QED
    BY <2>1 DEF TurnGoesOn
<1>9. CASE Restart
  <2>1. driven' = FALSE /\ outbox' = NoEvent /\ UNCHANGED <<outcome, active>>
    BY <1>9 DEF Restart
  <2> QED
    BY <2>1 DEF TurnGoesOn
<1>10. CASE Alarm
  <2>1. ringing' = ProbedStream /\ UNCHANGED <<outcome, active, driven, outbox, notices>>
    BY <1>10 DEF Alarm, engine
  <2>2. outbox # NoEvent => ringing' = active
    BY <2>1 DEF ProbedStream, TypeInv, EngineAgrees
  <2> QED
    BY <2>1, <2>2 DEF TurnGoesOn
<1>11. CASE ReceiveFails
  <2>1. outcome' \in {outcome, Woken} /\ UNCHANGED <<active, driven, outbox, notices, ringing>>
    BY <1>11 DEF ReceiveFails
  <2>2. CASE outcome' = outcome
    BY <2>1, <2>2 DEF TurnGoesOn
  <2>3. CASE outcome' = Woken
    BY <2>1, <2>3, AdmitGoesOn DEF TurnGoesOn
  <2> QED
    BY <2>1, <2>2, <2>3
<1>12. CASE \/ ReadBacklog \/ DrainHandoff \/ AnswerTerminal \/ ResumeFails \/ Browser
            \/ Submit \/ Close \/ Connect \/ Drop \/ Hibernate
  <2>1. UNCHANGED <<outcome, active, driven, outbox, notices, ringing>>
    BY <1>12 DEF ReadBacklog, DrainHandoff, AnswerTerminal, ResumeFails, Browser, Apply,
                 ConnectTimer, CloseEvent, ReconnectTimer, Online, Submit, Close, Connect, Drop,
                 Hibernate, engine
  <2> QED
    BY <2>1 DEF TurnGoesOn
<1> QED
  BY <1>2, <1>3, <1>4, <1>5, <1>6, <1>7, <1>8, <1>9, <1>10, <1>11, <1>12 DEF Next, Server

-----------------------------------------------------------------------------
(* Where nothing is sent or applied *)

\* The client shows the same events with the same cursor.
SameShown ==
    /\ client'.recent = client.recent /\ client'.stream = client.stream
    /\ client'.lastSequence = client.lastSequence

\* The order of what is shown and on the way does not depend on anything else.
LEMMA OrderStays ==
    ASSUME ShownOnce, WireOrder, SameShown, toClient' = toClient
    PROVE  /\ ShownOnce' /\ WireOrder' /\ Probes' = Probes
           /\ \A s : Shown(s)' = Shown(s) /\ Events(s)' = Events(s)
<1>1. Fresh' = Fresh /\ Forgetting' = Forgetting /\ Probes' = Probes
  BY DEF Fresh, Forgetting, Probes
<1>2. \A s : Shown(s)' = Shown(s) /\ Events(s)' = Events(s)
  BY <1>1 DEF Shown, Events, SameShown
<1>3. \A i, j : Together(i, j)' = Together(i, j)
  BY <1>1 DEF Together
<1>4. \A j, s, n : Seen(j, s, n)' = Seen(j, s, n)
  BY <1>1 DEF Seen, AllPass, SameShown
<1>5. ShownOnce'
  BY DEF ShownOnce, SameShown
<1>6. OrderOnWire'
  BY <1>2, <1>3, <1>4 DEF WireOrder, OrderOnWire
<1>7. OrderAhead'
  BY <1>2, <1>3, <1>4 DEF WireOrder, OrderAhead, SameShown
<1>8. ProbeFirst'
  BY <1>1, <1>2 DEF WireOrder, ProbeFirst
<1> QED
  BY <1>1, <1>2, <1>5, <1>6, <1>7, <1>8 DEF WireOrder

\* What is to come is judged by the same, and by the place of the resume.
LEMMA ToComeStays ==
    ASSUME OrderToCome, SameShown, toClient' = toClient, outbox' = outbox, active' = active,
           Open' /\ outbox # NoEvent /\ ~Gated(active)' => Open /\ ~Gated(active),
           conn'.probed = conn.probed, Awaiting' => Awaiting
    PROVE  OrderToCome'
<1>1. Fresh' = Fresh /\ Forgetting' = Forgetting /\ End' = End
  BY DEF Fresh, Forgetting, End
<1>2. \A s : Shown(s)' = Shown(s) /\ Events(s)' = Events(s)
  BY <1>1 DEF Shown, Events, SameShown
<1>3. \A i : Together(i, End)' = Together(i, End)
  BY <1>1 DEF Together
<1>4. Seen(End, active, outbox)' = Seen(End, active, outbox)
  BY <1>1 DEF Seen, AllPass, SameShown
<1>5. Replayed(outbox) => Replayed(outbox)'
  BY <1>4 DEF Replayed
<1> SUFFICES ASSUME Open', outbox # NoEvent, ~Gated(active)'
             PROVE  /\ \A x \in Shown(active) :
                          Together(0, End) => client.recent[x][2] < outbox \/ Replayed(outbox)'
                    /\ \A i \in Events(active) :
                          Together(i, End) => toClient[i].sequence < outbox \/ Replayed(outbox)'
  BY <1>2, <1>3 DEF OrderToCome, SameShown
<1> QED
  BY <1>5 DEF OrderToCome

\* Events of the log stay there, since the log only grows.
LEMMA LoggedStays ==
    ASSUME LoggedShown, LoggedWire, EngineType, EngineType', WireType, SameShown,
           toClient' = toClient, \A s \in Stream : log[s] <= log'[s]
    PROVE  LoggedShown' /\ LoggedWire'
<1>1. \A s \in Stream : log[s] \in Int /\ log'[s] \in Int
  BY DEF EngineType
<1>2. LoggedShown'
  <2>1. client'.recent \in Seq(Stream \X Nat)
    BY DEF LoggedShown, SameShown
  <2>2. \A x \in DOMAIN client.recent : client.recent[x] \in Stream \X Nat
    BY LenProperties DEF LoggedShown
  <2>3. ASSUME NEW x \in DOMAIN client.recent
        PROVE  client.recent[x][2] < log'[client.recent[x][1]]
    <3>1. PICK s \in Stream, n \in Nat : client.recent[x] = <<s, n>>
      BY <2>2
    <3>2. n < log[s]
      BY <3>1 DEF LoggedShown
    <3>3. n < log'[s]
      BY <1>1, <3>2
    <3> QED
      BY <3>1, <3>3
  <2> QED
    BY <2>1, <2>3 DEF LoggedShown, SameShown
<1>3. LoggedWire'
  <2>1. Fresh' = Fresh
    BY DEF Fresh
  <2>2. ASSUME NEW i \in Fresh, toClient[i].tag = "StreamEvent"
        PROVE  toClient[i].sequence < log'[toClient[i].stream]
    <3>1. toClient[i] \in WireFrame
      BY LenProperties DEF WireType, Fresh
    <3>2. /\ toClient[i].stream \in Stream /\ toClient[i].sequence \in Nat
          /\ toClient[i].sequence < log[toClient[i].stream]
      BY <2>2, <3>1 DEF LoggedWire, WireFrame, ServerFrame
    <3> QED
      BY <1>1, <3>2
  <2> QED
    BY <2>1, <2>2 DEF LoggedWire
<1> QED
  BY <1>2, <1>3

\* A connection that is not open has nothing to hand off and nothing to come.
LEMMA NotOpen ==
    ASSUME conn'.state # "open"
    PROVE  HandoffOrder' /\ LoggedParked'
  BY DEF HandoffOrder, OrderToCome, OneStream, GateHolds, CursorBehind, LoggedParked, Open

\* The handoff of a connection whose resume does not move, nor what it sends.
LEMMA HandoffStays ==
    ASSUME HandoffOrder, LoggedParked, EngineType, EngineType', TypeInv, Handoff, SameShown,
           conn'.state = conn.state, conn'.probed = conn.probed,
           conn'.gate = conn.gate, conn'.resume = conn.resume,
           \A i \in Probes' : i \in Probes /\ toClient'[i] = toClient[i],
           \A s : Events(s)' \subseteq Events(s),
           \A i \in Acks' : \E j \in Acks : toServer'[i] = toServer[j],
           \A s \in Stream : log[s] <= log'[s]
    PROVE  /\ OneStream' /\ GateHolds' /\ CursorBehind' /\ LoggedParked'
           /\ Awaiting' => Awaiting
<1>1. /\ Open' = Open /\ Serving' = Serving
      /\ \A s : Shown(s)' = Shown(s)
  BY DEF Open, Serving, Shown, SameShown
<1>2. (Probes' # {} => Probes # {}) /\ (Acks' # {} => Acks # {})
  OBVIOUS
<1>3. Awaiting' => Awaiting
  BY <1>2 DEF Awaiting
<1>4. OneStream'
  BY <1>1, <1>3 DEF HandoffOrder, OneStream
<1>5. GateHolds'
  BY <1>1 DEF HandoffOrder, GateHolds
<1>6. CursorBehind'
  BY <1>1 DEF HandoffOrder, CursorBehind, SameShown
<1>7. LoggedParked'
  <2>1. conn.gate \in Gate /\ conn.resume \in Resume
    BY DEF TypeInv, EndsType, Connection
  <2>2. ASSUME conn.gate.stream # None, NEW i \in DOMAIN conn.gate.pending,
               conn.gate.pending[i] < log[conn.gate.stream]
        PROVE  conn.gate.pending[i] < log'[conn.gate.stream]
    <3>1. conn.gate.stream \in Stream /\ conn.gate.pending \in Seq(0..MaxEvents)
      BY <2>1, <2>2 DEF Gate
    <3>2. conn.gate.pending[i] \in 0..MaxEvents
      BY <3>1, LenProperties
    <3>3. /\ log[conn.gate.stream] \in Int /\ log'[conn.gate.stream] \in Int
          /\ log[conn.gate.stream] <= log'[conn.gate.stream]
      BY <3>1 DEF EngineType
    <3> QED
      BY <2>2, <3>2, <3>3, Bounds
  <2>3. ASSUME Open, conn.resume.pc = "drain", conn.resume.through < log[conn.resume.stream]
        PROVE  conn.resume.through < log'[conn.resume.stream]
    <3>1. conn.resume.stream \in Stream /\ conn.resume.through \in Int
      BY <2>1, <2>3, ResumeStream, Bounds DEF Resume, Cursor, Serving
    <3>2. /\ log[conn.resume.stream] \in Int /\ log'[conn.resume.stream] \in Int
          /\ log[conn.resume.stream] <= log'[conn.resume.stream]
      BY <3>1 DEF EngineType
    <3> QED
      BY <2>3, <3>1, <3>2
  <2> QED
    BY <1>1, <2>2, <2>3 DEF LoggedParked
<1> QED
  BY <1>3, <1>4, <1>5, <1>6, <1>7

-----------------------------------------------------------------------------
(* The engine, the idle browser, and losses *)

\* An appended event is behind every event there is.
LEMMA AppendToCome ==
    ASSUME DeliveryInv, OrderInv, AppendToLog
    PROVE  OrderToCome'
<1>1. /\ UNCHANGED <<active, conn, toClient, client>>
      /\ outbox' = log[active] /\ driven
  BY DEF AppendToLog
<1>2. active \in Stream /\ active # None /\ log[active] \in Nat
  BY <1>1 DEF DeliveryInv, TypeInv, EngineType, EngineAgrees
<1>3. \A x \in Shown(active) : client.recent[x][2] < log[active]
  BY DEF OrderInv, Logged, LoggedShown, Shown
<1>4. \A i \in Events(active) : toClient[i].sequence < log[active]
  BY DEF OrderInv, Logged, LoggedWire, Events
<1>5. Shown(active)' = Shown(active) /\ Events(active)' = Events(active)
  BY <1>1 DEF Shown, Events, Fresh
<1> QED
  BY <1>1, <1>3, <1>4, <1>5 DEF OrderToCome

\* The engine's own steps touch neither the connection nor any frame.
LEMMA EngineOrder ==
    ASSUME DeliveryInv, DeliveryInv', OrderInv, TurnGoesOn',
           \/ AdmitElsewhere \/ StartTurn \/ AppendToLog \/ Recover
           \/ \E status \in Terminal \cup {"interrupted"} : EndTurn(status)
    PROVE  OrderInv'
<1>1. /\ ShownOnce /\ WireOrder /\ HandoffOrder /\ OrderToCome
      /\ LoggedShown /\ LoggedWire /\ LoggedParked
      /\ EngineType /\ EngineType' /\ TypeInv /\ Handoff /\ WireType
  BY DEF DeliveryInv, TypeInv, OrderInv, HandoffOrder, Logged
<1>2. UNCHANGED <<conn, toClient, toServer, client>>
  BY DEF AdmitElsewhere, StartTurn, AppendToLog, Recover, EndTurn
<1>3. SameShown /\ Acks' = Acks /\ Probes' = Probes
  BY <1>2 DEF SameShown, Acks, Probes
<1>4. \A s \in Stream : log[s] <= log'[s]
  <2>1. CASE log' = log
    BY <1>1, <2>1 DEF EngineType
  <2>2. CASE AppendToLog
    <3>1. log' = [log EXCEPT ![active] = log[active] + 1]
      BY <2>2 DEF AppendToLog
    <3> QED
      BY <1>1, <3>1, Bounds DEF EngineType
  <2> QED
    BY <2>1, <2>2 DEF AdmitElsewhere, StartTurn, Recover, EndTurn
<1>5. ShownOnce' /\ WireOrder'
  BY <1>1, <1>2, <1>3, OrderStays
<1>6. LoggedShown' /\ LoggedWire'
  BY <1>1, <1>2, <1>3, <1>4, LoggedStays
<1>7. OneStream' /\ GateHolds' /\ CursorBehind' /\ LoggedParked' /\ (Awaiting' => Awaiting)
  <2>1. \A s : Events(s)' \subseteq Events(s)
    BY <1>1, <1>2, <1>3, OrderStays
  <2>2. \A i \in Acks' : \E j \in Acks : toServer'[i] = toServer[j]
    BY <1>2, <1>3
  <2> QED
    BY <1>1, <1>2, <1>3, <1>4, <2>1, <2>2, HandoffStays
<1>8. OrderToCome'
  <2>1. CASE AdmitElsewhere \/ Recover
    <3>1. UNCHANGED <<active, outbox>> /\ Open' = Open /\ Gated(active)' = Gated(active)
      BY <1>2, <2>1 DEF AdmitElsewhere, Recover, Open, Gated
    <3> QED
      BY <1>1, <1>2, <1>3, <1>7, <3>1, ToComeStays
  <2>2. CASE StartTurn \/ \E status \in Terminal \cup {"interrupted"} : EndTurn(status)
    <3>1. outbox' = NoEvent
      BY <1>1, <2>2 DEF StartTurn, EndTurn, TypeInv, EngineAgrees
    <3> QED
      BY <3>1 DEF OrderToCome
  <2>3. CASE AppendToLog
    BY <2>3, AppendToCome
  <2> QED
    BY <2>1, <2>2, <2>3
<1> QED
  BY <1>5, <1>6, <1>7, <1>8 DEF OrderInv, HandoffOrder, Logged

\* Timers, the network's state and a submission on its way change nothing of it.
LEMMA IdleOrder ==
    ASSUME DeliveryInv, DeliveryInv', OrderInv, TurnGoesOn', SameShown,
           UNCHANGED <<log, toClient>>,
           \/ /\ UNCHANGED <<active, outbox, conn>>
              /\ \A i \in Acks' : \E j \in Acks : toServer'[i] = toServer[j]
           \/ conn'.state # "open"
    PROVE  OrderInv'
<1>1. /\ ShownOnce /\ WireOrder /\ HandoffOrder /\ OrderToCome
      /\ LoggedShown /\ LoggedWire /\ LoggedParked
      /\ EngineType /\ EngineType' /\ TypeInv /\ Handoff /\ WireType
  BY DEF DeliveryInv, TypeInv, OrderInv, HandoffOrder, Logged
<1>2. \A s \in Stream : log[s] <= log'[s]
  BY <1>1 DEF EngineType
<1>3. /\ ShownOnce' /\ WireOrder' /\ LoggedShown' /\ LoggedWire'
      /\ Probes' = Probes /\ \A s : Events(s)' \subseteq Events(s)
  BY <1>1, <1>2, OrderStays, LoggedStays
<1>4. CASE /\ UNCHANGED <<active, outbox, conn>>
           /\ \A i \in Acks' : \E j \in Acks : toServer'[i] = toServer[j]
  <2>1. OneStream' /\ GateHolds' /\ CursorBehind' /\ LoggedParked' /\ (Awaiting' => Awaiting)
    BY <1>1, <1>2, <1>3, <1>4, HandoffStays
  <2>2. Open' = Open /\ Gated(active)' = Gated(active)
    BY <1>4 DEF Open, Gated
  <2>3. OrderToCome'
    BY <1>1, <1>4, <2>1, <2>2, ToComeStays
  <2> QED
    BY <1>3, <2>1, <2>3 DEF OrderInv, HandoffOrder, Logged
<1>5. CASE conn'.state # "open"
  BY <1>3, <1>5, NotOpen DEF OrderInv, Logged
<1> QED
  BY <1>4, <1>5

\* Frames of an old socket will not be applied.
LEMMA StaledOrder ==
    ASSUME DeliveryInv, DeliveryInv', OrderInv, TurnGoesOn', SameShown,
           UNCHANGED log, toClient' = Staled, conn'.state # "open"
    PROVE  OrderInv'
<1>1. Fresh' = {} /\ Probes' = {}
  <2>1. \A i \in DOMAIN toClient' : toClient'[i].stale
    BY Staling DEF DeliveryInv, TypeInv, WireType
  <2> QED
    BY <2>1 DEF Fresh, Probes, IsProbe
<1>2. \A s : Events(s)' = {}
  BY <1>1 DEF Events
<1>3. ShownOnce'
  BY DEF OrderInv, ShownOnce, SameShown
<1>4. WireOrder'
  BY <1>1, <1>2 DEF WireOrder, OrderOnWire, OrderAhead, ProbeFirst
<1>5. LoggedShown' /\ LoggedWire'
  BY <1>1 DEF OrderInv, Logged, LoggedShown, LoggedWire, SameShown
<1> QED
  BY <1>3, <1>4, <1>5, NotOpen DEF OrderInv, Logged

\* Connecting, the client keeps what it shows.
LEMMA ConnectedShows ==
    ASSUME NEW c, c \in Showing(c.recent)
    PROVE  /\ Connected(c).recent = c.recent /\ Connected(c).stream = c.stream
           /\ Connected(c).lastSequence = c.lastSequence
  BY DEF Connected, Showing

\* The browser's timers and events.
LEMMA BrowserOrder ==
    ASSUME DeliveryInv, DeliveryInv', OrderInv, TurnGoesOn',
           ConnectTimer \/ CloseEvent \/ ReconnectTimer \/ Online \/ Connect \/ Close \/ Submit
    PROVE  OrderInv'
<1>1. client \in Showing(client.recent) /\ EndsType
  BY DEF DeliveryInv, TypeInv, EndsType
<1>2. CASE ConnectTimer
  <2>1. /\ client' = [client EXCEPT !.connectTimer = FALSE,
                         !.socket = IF client.socket = "none" THEN "connecting" ELSE client.socket]
        /\ UNCHANGED <<engine, toClient>>
        /\ conn' = IF client.socket = "none" THEN NewConnection ELSE conn
        /\ toServer' = IF client.socket = "none" THEN << >> ELSE toServer
    BY <1>2 DEF ConnectTimer
  <2>2. SameShown
    BY <1>1, <2>1 DEF SameShown, Showing
  <2>3. \/ conn' = conn /\ \A i \in Acks' : \E j \in Acks : toServer'[i] = toServer[j]
        \/ conn'.state # "open"
    BY <1>1, <2>1, ConnectionType DEF Acks
  <2> QED
    BY <2>1, <2>2, <2>3, IdleOrder DEF engine
<1>3. CASE ReconnectTimer \/ Online \/ Connect
  <2>1. /\ UNCHANGED <<engine, conn, toClient, toServer>>
        /\ \/ client' = client
           \/ client' = Connected(client)
           \/ client' = Connected([client EXCEPT !.reconnectTimer = FALSE])
           \/ client' = Connected([client EXCEPT !.attempts = 0, !.reconnectTimer = FALSE])
    BY <1>3 DEF ReconnectTimer, Online, Connect
  <2> DEFINE one == [client EXCEPT !.reconnectTimer = FALSE]
             two == [client EXCEPT !.attempts = 0, !.reconnectTimer = FALSE]
             Same(c) == /\ c.recent = client.recent /\ c.stream = client.stream
                        /\ c.lastSequence = client.lastSequence
  <2>2. one \in Showing(one.recent) /\ two \in Showing(two.recent) /\ Same(one) /\ Same(two)
    BY <1>1, NoAttempts DEF Showing
  <2> HIDE DEF one, two
  <2>3. Same(Connected(client)) /\ Same(Connected(one)) /\ Same(Connected(two))
    BY <1>1, <2>2, ConnectedShows
  <2>4. SameShown
    BY <2>1, <2>3 DEF SameShown, one, two
  <2>5. \A i \in Acks' : \E j \in Acks : toServer'[i] = toServer[j]
    BY <2>1 DEF Acks
  <2> QED
    BY <2>1, <2>4, <2>5, IdleOrder DEF engine
<1>4. CASE Submit
  <2>1. UNCHANGED <<engine, conn, toClient, client>> /\ SameShown
    BY <1>4 DEF Submit, SameShown
  <2>2. \A i \in Acks' : \E j \in Acks : toServer'[i] = toServer[j]
    <3> DEFINE frame == Frame("SubmitTurn", None, NoEvent, "")
    <3>1. toServer' = toServer \/ toServer' = Append(toServer, frame)
      BY <1>4 DEF Submit
    <3>2. frame \in ClientFrame /\ frame.tag # "ResumeAck"
      BY Bounds DEF Frame, ClientFrame
    <3> HIDE DEF frame
    <3>3. toServer \in Seq(ClientFrame)
      BY DEF DeliveryInv, TypeInv, WireType
    <3>4. toServer' = Append(toServer, frame) =>
            Acks' = Acks /\ \A i \in DOMAIN toServer : toServer'[i] = toServer[i]
      BY <3>2, <3>3, AppendAcks, AppendProperties, LenProperties
    <3> QED
      BY <3>1, <3>4 DEF Acks
  <2> QED
    BY <2>1, <2>2, IdleOrder DEF engine
<1>5. CASE CloseEvent
  <2> DEFINE c == [client EXCEPT !.socket = "none"]
  <2>1. /\ conn.state = "closed" /\ conn' = conn /\ log' = log
        /\ client' = Rescheduled(c) /\ toClient' = Staled
    BY <1>5 DEF CloseEvent, engine
  <2>2. SameShown
    <3>1. c \in Showing(c.recent) /\ c.recent = client.recent /\ c.stream = client.stream
          /\ c.lastSequence = client.lastSequence
      BY <1>1 DEF Showing
    <3> HIDE DEF c
    <3>2. /\ Rescheduled(c).recent = c.recent /\ Rescheduled(c).stream = c.stream
          /\ Rescheduled(c).lastSequence = c.lastSequence
      BY <3>1 DEF Rescheduled, Showing
    <3> QED
      BY <2>1, <3>1, <3>2 DEF SameShown
  <2> QED
    BY <2>1, <2>2, StaledOrder
<1>6. CASE Close
  <2>1. /\ log' = log /\ toClient' = Staled /\ conn' = Disconnected /\ SameShown
    BY <1>1, <1>6 DEF Close, engine, SameShown, Showing
  <2> QED
    BY <1>1, <2>1, StaledOrder, ConnectionType
<1> QED
  BY <1>2, <1>3, <1>4, <1>5, <1>6

\* A lost connection or isolate sends nothing any more; a hibernation that finds no gate
\* takes nothing away.
LEMMA LossOrder ==
    ASSUME DeliveryInv, DeliveryInv', OrderInv, TurnGoesOn',
           Drop \/ Restart \/ (Hibernate /\ conn.gate = NoGate)
    PROVE  OrderInv'
<1>1. EndsType /\ Disconnected.state = "closed"
  BY ConnectionType DEF DeliveryInv, TypeInv
<1>2. SameShown /\ UNCHANGED <<log, active, toClient>>
  BY DEF Drop, Restart, Hibernate, engine, SameShown
<1>3. CASE Drop
  <2>1. conn' = Disconnected /\ outbox' = outbox
    BY <1>3 DEF Drop, engine
  <2> QED
    BY <1>1, <1>2, <2>1, IdleOrder
<1>4. CASE Hibernate /\ conn.gate = NoGate
  <2>1. conn' = conn /\ UNCHANGED <<outbox, toServer>>
    BY <1>1, <1>4 DEF Hibernate, engine, EndsType, Connection
  <2>2. \A i \in Acks' : \E j \in Acks : toServer'[i] = toServer[j]
    BY <2>1 DEF Acks
  <2> QED
    BY <1>2, <2>1, <2>2, IdleOrder
<1>5. CASE Restart
  <2>1. conn'.state # "open"
    BY <1>1, <1>5 DEF Restart
  <2> QED
    BY <1>2, <2>1, IdleOrder
<1> QED
  BY <1>3, <1>4, <1>5

-----------------------------------------------------------------------------
(* Frames that are sent *)

\* Frames behind those on the way: they are applied after them.
LEMMA SentFrames ==
    ASSUME toClient \in Seq(WireFrame), NEW frames \in Seq(WireFrame),
           toClient' = toClient \o frames,
           \A k \in 1..Len(frames) : ~frames[k].stale
    PROVE  /\ Len(toClient) \in Nat /\ Len(frames) \in Nat
           /\ End \in Nat /\ End = Len(toClient) + 1 /\ End' = End + Len(frames)
           /\ \A i \in Fresh : /\ i \in Nat /\ 0 < i /\ i < End
                               /\ i \in Fresh' /\ toClient'[i] = toClient[i]
           /\ \A i \in Fresh' :
                 \/ i \in Fresh
                 \/ /\ i \in Nat /\ i > Len(toClient) /\ i - Len(toClient) \in 1..Len(frames)
                    /\ toClient'[i] = frames[i - Len(toClient)]
           /\ \A i \in Fresh' : i \in Fresh \/ \E k \in 1..Len(frames) : toClient'[i] = frames[k]
           /\ \A k \in 1..Len(frames) :
                 Len(toClient) + k \in Fresh' /\ toClient'[Len(toClient) + k] = frames[k]
<1> DEFINE N == Len(toClient)
           M == Len(frames)
<1>1. /\ N \in Nat /\ M \in Nat /\ DOMAIN toClient = 1..N /\ DOMAIN toClient' = 1..(N + M)
      /\ Len(toClient') = N + M
      /\ \A i \in 1..(N + M) : toClient'[i] = IF i <= N THEN toClient[i] ELSE frames[i - N]
  BY ConcatProperties, LenProperties
<1> HIDE DEF N, M
<1>2. \A i \in 1..N : i \in 1..(N + M) /\ toClient'[i] = toClient[i]
  BY <1>1
<1>3. \A k \in 1..M : N + k \in 1..(N + M) /\ toClient'[N + k] = frames[k]
  BY <1>1
<1>4. \A i \in 1..(N + M) : i \in 1..N \/ (i > N /\ i - N \in 1..M /\ toClient'[i] = frames[i - N])
  BY <1>1
<1>5. \A i \in Fresh : i \in 1..N /\ i \in Fresh' /\ toClient'[i] = toClient[i]
  BY <1>1, <1>2 DEF Fresh
<1>6. \A k \in 1..M : N + k \in Fresh'
  BY <1>1, <1>3 DEF Fresh, M
<1>7. ASSUME NEW i \in Fresh', i \notin Fresh
      PROVE  i \in Nat /\ i > N /\ i - N \in 1..M /\ toClient'[i] = frames[i - N]
  <2>1. i \in 1..(N + M) /\ ~toClient'[i].stale
    BY <1>1 DEF Fresh
  <2>2. i \notin 1..N
    BY <1>1, <1>2, <1>7, <2>1 DEF Fresh
  <2> QED
    BY <1>1, <1>4, <2>1, <2>2
<1>8. End \in Nat /\ End = N + 1 /\ End' = End + M
  BY <1>1 DEF End, N, M
<1>9. \A i \in Fresh : i \in Nat /\ 0 < i /\ i < End
  BY <1>1, <1>5, <1>8
<1>10. \A i \in Fresh' : i \in Fresh \/ \E k \in 1..M : toClient'[i] = frames[k]
  BY <1>7
<1> QED
  BY <1>1, <1>3, <1>5, <1>6, <1>7, <1>8, <1>9, <1>10 DEF N, M

\* What they leave as it was for the frames before them.
LEMMA SentBehind ==
    ASSUME toClient \in Seq(WireFrame), NEW frames \in Seq(WireFrame),
           toClient' = toClient \o frames, SameShown,
           \A k \in 1..Len(frames) : ~frames[k].stale
    PROVE  /\ Forgetting \subseteq Forgetting'
           /\ \A i \in Nat, j \in Nat : Together(i, j)' => Together(i, j)
           /\ \A i \in Nat, j \in Nat : j >= End /\ Together(i, j)' => Together(i, End)
           /\ \A j \in Nat : \A s, n : j <= End /\ Seen(j, s, n) => Seen(j, s, n)'
           /\ \A s : Events(s) \subseteq Events(s)' /\ Shown(s)' = Shown(s)
<1>1. /\ Len(toClient) \in Nat /\ End \in Nat /\ End = Len(toClient) + 1
      /\ \A i \in Fresh : i \in Nat /\ i < End /\ i \in Fresh' /\ toClient'[i] = toClient[i]
      /\ \A i \in Fresh' : i \in Fresh \/ (i \in Nat /\ i > Len(toClient))
  BY SentFrames
<1>2. Forgetting \subseteq Forgetting' /\ \A i \in Forgetting : i \in Nat /\ i < End
  BY <1>1 DEF Forgetting
<1>3. \A i \in Nat, j \in Nat : Together(i, j)' => Together(i, j)
  BY <1>2 DEF Together
<1>4. ASSUME NEW i \in Nat, NEW j \in Nat, j >= End, Together(i, j)' PROVE Together(i, End)
  BY <1>1, <1>2, <1>4 DEF Together
<1>5. ASSUME NEW i \in Nat, NEW j \in Nat, NEW s, j <= End, AllPass(i, j, s) PROVE AllPass(i, j, s)'
  <2> SUFFICES ASSUME NEW k \in Fresh', i < k, k < j PROVE Passes(toClient'[k], s)
    BY DEF AllPass
  <2>1. k \in Fresh
    BY <1>1, <1>5
  <2> QED
    BY <1>1, <1>5, <2>1 DEF AllPass
<1>6. ASSUME NEW j \in Nat, NEW s, NEW n, j <= End, Seen(j, s, n) PROVE Seen(j, s, n)'
  <2>1. CASE client.stream = s /\ client.lastSequence >= n /\ AllPass(0, j, s)
    BY <1>5, <1>6, <2>1 DEF Seen, SameShown
  <2>2. CASE \E i \in Fresh :
                /\ i < j /\ toClient[i].tag = "ResumeComplete"
                /\ toClient[i].stream = s /\ toClient[i].sequence >= n
                /\ AllPass(i, j, s)
    <3>1. PICK i \in Fresh :
                /\ i < j /\ toClient[i].tag = "ResumeComplete"
                /\ toClient[i].stream = s /\ toClient[i].sequence >= n
                /\ AllPass(i, j, s)
      BY <2>2
    <3>2. i \in Nat /\ i \in Fresh' /\ toClient'[i] = toClient[i]
      BY <1>1
    <3>3. AllPass(i, j, s)'
      BY <1>5, <1>6, <3>1, <3>2
    <3> QED
      BY <3>1, <3>2, <3>3 DEF Seen
  <2> QED
    BY <1>6, <2>1, <2>2 DEF Seen
<1>7. \A s : Events(s) \subseteq Events(s)' /\ Shown(s)' = Shown(s)
  BY <1>1 DEF Events, Shown, SameShown
<1> QED
  BY <1>2, <1>3, <1>4, <1>6, <1>7

\* Frames that are no events, nor a probe, do not disturb the order.
LEMMA SentOrder ==
    ASSUME toClient \in Seq(WireFrame), NEW frames \in Seq(WireFrame),
           toClient' = toClient \o frames, SameShown, log' = log,
           ShownOnce, WireOrder, LoggedShown, LoggedWire,
           \A k \in 1..Len(frames) :
               ~frames[k].stale /\ frames[k].tag \notin {"ResumeProbe", "StreamEvent"}
    PROVE  /\ ShownOnce' /\ WireOrder' /\ LoggedShown' /\ LoggedWire'
           /\ \A i \in Probes' : i \in Probes /\ toClient'[i] = toClient[i]
           /\ \A s : Events(s)' = Events(s) /\ Shown(s)' = Shown(s)
<1>0. \A k \in 1..Len(frames) : ~frames[k].stale
  OBVIOUS
<1>1. /\ \A i \in Fresh : i \in Nat /\ i < End /\ i \in Fresh' /\ toClient'[i] = toClient[i]
      /\ \A i \in Fresh' : i \in Fresh \/ \E k \in 1..Len(frames) : toClient'[i] = frames[k]
      /\ End \in Nat
  BY <1>0, SentFrames
<1>2. \A s : Events(s)' = Events(s) /\ Shown(s)' = Shown(s)
  <2>1. \A i \in Fresh' : i \in Fresh \/ toClient'[i].tag # "StreamEvent"
    BY <1>1
  <2> QED
    BY <1>1, <2>1 DEF Events, Shown, SameShown
<1>3. \A i \in Probes' : i \in Probes /\ toClient'[i] = toClient[i]
  <2>1. \A i \in Probes' : i \in Fresh' /\ toClient'[i].tag = "ResumeProbe"
    BY DEF Probes, IsProbe, Fresh
  <2>2. \A i \in Probes' : i \in Fresh
    <3>1. \A i \in Fresh' : i \in Fresh \/ toClient'[i].tag # "ResumeProbe"
      BY <1>1
    <3> QED
      BY <2>1, <3>1
  <2> QED
    BY <1>1, <2>1, <2>2 DEF Probes, IsProbe, Fresh
<1>4. \A s : \A j \in Events(s) : j \in Nat /\ j <= End /\ toClient'[j] = toClient[j]
  <2>1. ASSUME NEW j \in Fresh PROVE j \in Nat /\ j <= End /\ toClient'[j] = toClient[j]
    <3>1. End \in Nat /\ j \in Nat /\ j < End /\ toClient'[j] = toClient[j]
      BY <1>1, Zenon
    <3>2. j <= End
      BY <3>1
    <3> QED
      BY <3>1, <3>2
  <2> QED
    BY <2>1 DEF Events
<1>5. OrderOnWire'
  BY <1>2, <1>4, SentBehind DEF WireOrder, OrderOnWire
<1>6. OrderAhead'
  <2>1. 0 \in Nat
    OBVIOUS
  <2> QED
    BY <1>2, <1>4, <2>1, SentBehind DEF WireOrder, OrderAhead, SameShown
<1>7. ProbeFirst'
  BY <1>2, <1>3 DEF WireOrder, ProbeFirst
<1>8. ShownOnce' /\ LoggedShown'
  BY DEF ShownOnce, LoggedShown, SameShown
<1>9. LoggedWire'
  BY <1>1 DEF LoggedWire
<1> QED
  BY <1>2, <1>3, <1>5, <1>6, <1>7, <1>8, <1>9 DEF WireOrder

\* Nor do they make what is to come be shown twice, if they leave a cursor alone that
\* has reached it, or make the client forget.
LEMMA SentToCome ==
    ASSUME toClient \in Seq(WireFrame), NEW frames \in Seq(WireFrame),
           toClient' = toClient \o frames, SameShown, UNCHANGED <<active, outbox>>,
           \A k \in 1..Len(frames) :
               ~frames[k].stale /\ frames[k].tag \notin {"ResumeProbe", "StreamEvent"},
           OrderToCome, \A s : Events(s)' = Events(s),
           Open' /\ ~Gated(active)' => Open /\ ~Gated(active),
           \/ \E k \in 1..Len(frames) : frames[k].tag = "TurnAccepted"
           \/ ~Replayed(outbox)
           \/ /\ conn'.probed = conn.probed /\ (Awaiting' => Awaiting)
              /\ \A k \in 1..Len(frames) : Passes(frames[k], active)
    PROVE  OrderToCome'
<1>0. \A k \in 1..Len(frames) : ~frames[k].stale
  OBVIOUS
<1>1. /\ End \in Nat /\ 0 < End /\ End' \in Nat /\ End' >= End
      /\ \A i \in Fresh : i \in Nat /\ i < End /\ i \in Fresh' /\ toClient'[i] = toClient[i]
      /\ \A i \in Fresh' :
            i \in Fresh \/ \E k \in 1..Len(frames) : toClient'[i] = frames[k]
  <2>1. /\ End \in Nat /\ End = Len(toClient) + 1 /\ End' = End + Len(frames)
        /\ Len(toClient) \in Nat /\ Len(frames) \in Nat
    BY <1>0, SentFrames
  <2>2. 0 < End /\ End' \in Nat /\ End' >= End
    BY <2>1
  <2>3. /\ \A i \in Fresh : i \in Nat /\ i < End /\ i \in Fresh' /\ toClient'[i] = toClient[i]
        /\ \A i \in Fresh' :
              i \in Fresh \/ \E k \in 1..Len(frames) : toClient'[i] = frames[k]
    BY <1>0, SentFrames, Zenon
  <2> QED
    BY <2>1, <2>2, <2>3
<1>2. \A s : Shown(s)' = Shown(s)
  BY <1>0, SentBehind
<1>3. ASSUME Open', outbox # NoEvent, ~Gated(active)', NEW i \in Nat, Together(i, End)'
      PROVE  Together(i, End)
  BY <1>0, <1>1, <1>3, SentBehind
<1>4. CASE \E k \in 1..Len(frames) : frames[k].tag = "TurnAccepted"
  <2>1. PICK k \in 1..Len(frames) : frames[k].tag = "TurnAccepted"
    BY <1>4
  <2> DEFINE f == Len(toClient) + k
  <2>2. f \in Forgetting' /\ f \in Nat /\ End <= f /\ f < End'
    <3>1. f \in Fresh' /\ toClient'[f] = frames[k]
      BY <1>0, SentFrames
    <3>2. /\ End = Len(toClient) + 1 /\ End' = End + Len(frames)
          /\ Len(toClient) \in Nat /\ Len(frames) \in Nat
      BY <1>0, SentFrames
    <3>3. f \in Nat /\ End <= f /\ f < End'
      BY <3>2
    <3> QED
      BY <2>1, <3>1, <3>3 DEF Forgetting
  <2> HIDE DEF f
  <2>3. \A i \in Nat : i < End => ~Together(i, End)'
    BY <1>1, <2>2 DEF Together
  <2>4. \A i \in Events(active)' : i \in Nat /\ i < End
    <3>1. \A i \in Events(active) : i \in Nat /\ i < End
      BY <1>1 DEF Events
    <3>2. Events(active)' = Events(active)
      OBVIOUS
    <3> QED
      BY <3>1, <3>2
  <2> QED
    BY <1>1, <2>3, <2>4 DEF OrderToCome
<1>5. CASE ~Replayed(outbox)
  <2> SUFFICES ASSUME Open', outbox # NoEvent, ~Gated(active)'
               PROVE  /\ \A x \in Shown(active) : Together(0, End)' => client.recent[x][2] < outbox
                      /\ \A i \in Events(active) :
                            Together(i, End)' => toClient[i].sequence < outbox
    BY <1>1, <1>2 DEF OrderToCome, SameShown, Events
  <2>1. \A i \in Events(active) : i \in Nat
    BY <1>1 DEF Events
  <2> QED
    BY <1>3, <1>5, <2>1 DEF OrderToCome
<1>6. CASE /\ conn'.probed = conn.probed /\ (Awaiting' => Awaiting)
           /\ \A k \in 1..Len(frames) : Passes(frames[k], active)
  <2>1. ASSUME NEW i \in Nat, AllPass(i, End, active) PROVE AllPass(i, End, active)'
    <3> SUFFICES ASSUME NEW k \in Fresh', i < k PROVE Passes(toClient'[k], active)
      BY DEF AllPass
    <3> QED
      BY <1>1, <1>6, <2>1 DEF AllPass
  <2>2. Seen(End, active, outbox) => Seen(End, active, outbox)'
    <3>1. CASE client.stream = active /\ client.lastSequence >= outbox /\ AllPass(0, End, active)
      BY <2>1, <3>1 DEF Seen, SameShown
    <3>2. CASE \E i \in Fresh :
                  /\ i < End /\ toClient[i].tag = "ResumeComplete"
                  /\ toClient[i].stream = active /\ toClient[i].sequence >= outbox
                  /\ AllPass(i, End, active)
      <4>1. PICK i \in Fresh :
                  /\ i < End /\ toClient[i].tag = "ResumeComplete"
                  /\ toClient[i].stream = active /\ toClient[i].sequence >= outbox
                  /\ AllPass(i, End, active)
        BY <3>2
      <4>2. i \in Nat /\ i < End' /\ i \in Fresh' /\ toClient'[i] = toClient[i]
        <5>1. i \in Nat /\ i < End /\ i \in Fresh' /\ toClient'[i] = toClient[i]
          BY <1>1
        <5> QED
          BY <1>1, <5>1
      <4>3. AllPass(i, End, active)'
        BY <2>1, <4>1, <4>2
      <4> QED
        BY <4>1, <4>2, <4>3 DEF Seen
    <3> QED
      BY <3>1, <3>2 DEF Seen
  <2>3. Replayed(outbox) => Replayed(outbox)'
    BY <1>6, <2>2 DEF Replayed
  <2> SUFFICES ASSUME Open', outbox # NoEvent, ~Gated(active)'
               PROVE  /\ \A x \in Shown(active) :
                            Together(0, End)' => client.recent[x][2] < outbox \/ Replayed(outbox)'
                      /\ \A i \in Events(active) :
                            Together(i, End)' => toClient[i].sequence < outbox \/ Replayed(outbox)'
    BY <1>1, <1>2 DEF OrderToCome, SameShown, Events
  <2>4. \A i \in Events(active) : i \in Nat
    BY <1>1 DEF Events
  <2> QED
    BY <1>3, <2>3, <2>4 DEF OrderToCome
<1> QED
  BY <1>4, <1>5, <1>6

\* One frame to send.
LEMMA OneToSend ==
    ASSUME NEW frame \in WireFrame, ~frame.stale,
           frame.tag \notin {"ResumeProbe", "StreamEvent"}
    PROVE  /\ <<frame>> \in Seq(WireFrame) /\ Len(<<frame>>) = 1
           /\ \A k \in 1..Len(<<frame>>) : <<frame>>[k] = frame
           /\ \A k \in 1..Len(<<frame>>) :
                 /\ ~<<frame>>[k].stale
                 /\ <<frame>>[k].tag \notin {"ResumeProbe", "StreamEvent"}
<1>1. <<frame>> \in Seq(WireFrame) /\ Len(<<frame>>) = 1
  BY ShortSequences
<1>2. \A k \in 1..Len(<<frame>>) : <<frame>>[k] = frame
  BY <1>1
<1> QED
  BY <1>1, <1>2

\* A frame other than events and probes, sent by a connection that stays as it is.
LEMMA SendOrder ==
    ASSUME DeliveryInv, DeliveryInv', OrderInv, TurnGoesOn', SameShown,
           UNCHANGED <<log, active, outbox, conn>>,
           NEW frame \in WireFrame, Send(<<frame>>), ~frame.stale,
           frame.tag \notin {"ResumeProbe", "StreamEvent"},
           \A i \in Acks' : \E j \in Acks : toServer'[i] = toServer[j],
           \/ outbox = NoEvent \/ frame.tag = "TurnAccepted" \/ Passes(frame, active)
    PROVE  OrderInv'
<1>1. /\ ShownOnce /\ WireOrder /\ HandoffOrder /\ OrderToCome
      /\ LoggedShown /\ LoggedWire /\ LoggedParked
      /\ EngineType /\ EngineType' /\ TypeInv /\ Handoff /\ toClient \in Seq(WireFrame)
  BY DEF DeliveryInv, TypeInv, OrderInv, HandoffOrder, Logged, WireType
<1>2. \A s \in Stream : log[s] <= log'[s]
  BY <1>1 DEF EngineType
<1>3. CASE ~Open
  <2>1. toClient' = toClient /\ conn'.state # "open"
    BY <1>3 DEF Send, Open
  <2> QED
    BY <2>1, IdleOrder
<1>4. CASE Open
  <2> DEFINE frames == <<frame>>
  <2>1. toClient' = toClient \o frames
    BY <1>4 DEF Send, Open
  <2>2. /\ frames \in Seq(WireFrame) /\ Len(frames) = 1
        /\ \A k \in 1..Len(frames) : frames[k] = frame
        /\ \A k \in 1..Len(frames) :
              ~frames[k].stale /\ frames[k].tag \notin {"ResumeProbe", "StreamEvent"}
    BY OneToSend
  <2> HIDE DEF frames
  <2>3. /\ ShownOnce' /\ WireOrder' /\ LoggedShown' /\ LoggedWire'
        /\ \A i \in Probes' : i \in Probes /\ toClient'[i] = toClient[i]
        /\ \A s : Events(s)' = Events(s) /\ Shown(s)' = Shown(s)
    BY <1>1, <2>1, <2>2, SentOrder
  <2>4. OneStream' /\ GateHolds' /\ CursorBehind' /\ LoggedParked' /\ (Awaiting' => Awaiting)
    <3>1. \A s : Events(s)' \subseteq Events(s)
      BY <2>3
    <3> QED
      BY <1>1, <1>2, <2>3, <3>1, HandoffStays
  <2>5. OrderToCome'
    <3>1. CASE outbox = NoEvent
      BY <3>1 DEF OrderToCome
    <3>2. CASE frame.tag = "TurnAccepted" \/ Passes(frame, active)
      <4>1. \/ \E k \in 1..Len(frames) : frames[k].tag = "TurnAccepted"
            \/ \A k \in 1..Len(frames) : Passes(frames[k], active)
        BY <2>2, <3>2
      <4>2. Open' /\ ~Gated(active)' => Open /\ ~Gated(active)
        BY DEF Open, Gated
      <4> QED
        BY <1>1, <2>1, <2>2, <2>3, <2>4, <4>1, <4>2, SentToCome
    <3> QED
      BY <3>1, <3>2
  <2> QED
    BY <2>3, <2>4, <2>5 DEF OrderInv, HandoffOrder, Logged
<1> QED
  BY <1>3, <1>4

\* The alarm announces the active turn as recovering: the cursor stays.
LEMMA AlarmOrder ==
    ASSUME DeliveryInv, DeliveryInv', OrderInv, TurnGoesOn', Alarm
    PROVE  OrderInv'
<1> DEFINE frame == Frame("Recovering", active, NoEvent, "")
<1>1. /\ Send(IF active # None THEN <<frame>> ELSE << >>)
      /\ UNCHANGED <<log, active, outbox, conn, toServer, client>>
  BY DEF Alarm, engine
<1>2. SameShown /\ \A i \in Acks' : \E j \in Acks : toServer'[i] = toServer[j]
  BY <1>1 DEF SameShown, Acks
<1>3. CASE active # None
  <2>1. active \in Stream
    BY <1>3 DEF DeliveryInv, TypeInv, EngineType
  <2>2. /\ frame \in WireFrame /\ ~frame.stale /\ frame.tag = "Recovering"
        /\ frame.stream = active
    BY <2>1, Bounds DEF Frame, WireFrame, ServerFrame, Cursor
  <2>3. Passes(frame, active)
    BY <2>2 DEF Passes
  <2> HIDE DEF frame
  <2> QED
    BY <1>1, <1>2, <1>3, <2>2, <2>3, SendOrder
<1>4. CASE active = None
  <2>1. Send(<< >>) /\ toClient \in Seq(WireFrame)
    BY <1>1, <1>4 DEF DeliveryInv, TypeInv, WireType
  <2>2. toClient' = toClient
    BY <2>1, ConcatEmptySeq DEF Send
  <2> QED
    BY <1>1, <1>2, <2>2, IdleOrder
<1> QED
  BY <1>3, <1>4

\* No terminal is told while an event is yet to be broadcast: its turn goes on.
LEMMA BroadcastTerminalOrder ==
    ASSUME DeliveryInv, DeliveryInv', OrderInv, TurnGoesOn', BroadcastTerminal
    PROVE  OrderInv'
<1>1. PICK s \in notices :
          /\ IF outcome[s] \in Told /\ ~Gated(s)
             THEN Send(<<StreamTerminal(s)>>) ELSE UNCHANGED toClient
          /\ UNCHANGED <<engine, conn, toServer, client>>
  BY DEF BroadcastTerminal
<1>2. s \in Stream /\ EngineType /\ EngineAgrees
  BY DEF DeliveryInv, TypeInv, EngineType
<1>3. SameShown /\ \A i \in Acks' : \E j \in Acks : toServer'[i] = toServer[j]
  BY <1>1 DEF SameShown, Acks
<1>4. CASE outcome[s] \in Told /\ ~Gated(s)
  <2>1. StreamTerminal(s) \in WireFrame /\ StreamTerminal(s).tag = "StreamTerminal"
    BY <1>2, <1>4, TerminalFrame
  <2>2. ~StreamTerminal(s).stale
    BY DEF StreamTerminal, Frame
  <2>3. outbox = NoEvent
    <3>1. outbox # NoEvent => s = active /\ outcome[s] = "open"
      BY <1>2 DEF OrderInv, TurnGoesOn, EngineAgrees
    <3> QED
      BY <1>4, <3>1 DEF Told, Terminal
  <2> QED
    BY <1>1, <1>3, <1>4, <2>1, <2>2, <2>3, SendOrder DEF engine
<1>5. CASE ~(outcome[s] \in Told /\ ~Gated(s))
  BY <1>1, <1>3, <1>5, IdleOrder DEF engine
<1> QED
  BY <1>4, <1>5

\* What is left to be received was there before.
LEMMA TailTaken ==
    ASSUME toServer \in Seq(ClientFrame), Take
    PROVE  \A i \in Acks' : \E j \in Acks : toServer'[i] = toServer[j]
<1>1. toServer # << >> /\ toServer' = Tail(toServer)
  BY DEF Take
<1>2. /\ Len(toServer) \in Nat /\ DOMAIN toServer = 1..Len(toServer)
      /\ DOMAIN toServer' = 1..(Len(toServer) - 1)
      /\ \A i \in 1..(Len(toServer) - 1) : toServer'[i] = toServer[i + 1]
  BY <1>1, HeadTailProperties, LenProperties, EmptySeq
<1> SUFFICES ASSUME NEW i \in Acks' PROVE \E j \in Acks : toServer'[i] = toServer[j]
  OBVIOUS
<1>3. i \in 1..(Len(toServer) - 1) /\ toServer'[i].tag = "ResumeAck"
  BY <1>2 DEF Acks
<1>4. i + 1 \in 1..Len(toServer) /\ toServer'[i] = toServer[i + 1]
  BY <1>2, <1>3
<1> QED
  BY <1>2, <1>3, <1>4 DEF Acks

\* An accepted submission makes the client forget; a refused one tells it nothing.
LEMMA ReceiveSubmitOrder ==
    ASSUME DeliveryInv, DeliveryInv', OrderInv, TurnGoesOn', ReceiveSubmit
    PROVE  OrderInv'
<1> DEFINE refused == active # None /\ Woken[active] = "interrupted"
           frame == IF refused THEN Frame("ProtocolError", None, NoEvent, "recoverable")
                    ELSE Frame("TurnAccepted", Admitted + 1, NoEvent, "")
<1>1. /\ Take /\ Send(<<frame>>)
      /\ outcome' = IF refused THEN Woken ELSE AdmitStream(Woken)
      /\ UNCHANGED <<log, active, outbox, conn, client>>
  BY DEF ReceiveSubmit
<1>2. /\ TypeInv /\ Handoff /\ toServer \in Seq(ClientFrame)
  BY DEF DeliveryInv, TypeInv, WireType
<1>3. Admitted + 1 \in Stream
  <2>1. /\ Cardinality(SubmitsIn(toServer')) \in Nat
        /\ Cardinality(SubmitsIn(toServer')) + 1 <= Cardinality(SubmitsIn(toServer))
    BY <1>1, <1>2, Taking DEF ReceiveSubmit
  <2>2. Admitted \in Nat /\ Cardinality(SubmitsIn(toServer)) \in Nat
    BY <1>2, AdmittedNumber, SubmitsCount
  <2>3. Admitted + Cardinality(SubmitsIn(toServer)) <= MaxTurns
    BY <1>2 DEF TypeInv, TurnsFit
  <2> QED
    BY <2>1, <2>2, <2>3, Bounds DEF Stream
<1>4. frame \in WireFrame /\ frame.tag \in {"ProtocolError", "TurnAccepted"} /\ ~frame.stale
  <2>1. PICK s \in Stream : s = Admitted + 1
    BY <1>3
  <2> DEFINE Good(f) == f \in WireFrame /\ f.tag \in {"ProtocolError", "TurnAccepted"} /\ ~f.stale
  <2>2. Good(Frame("TurnAccepted", s, NoEvent, ""))
    BY Bounds DEF Frame, WireFrame, ServerFrame, Cursor
  <2>3. Good(Frame("ProtocolError", None, NoEvent, "recoverable"))
    BY Bounds DEF Frame, WireFrame, ServerFrame, Cursor
  <2> HIDE DEF Good
  <2>4. Good(frame)
    BY <2>1, <2>2, <2>3
  <2> QED
    BY <2>4 DEF Good
<1> HIDE DEF frame
<1>5. SameShown
  BY <1>1 DEF SameShown
<1>6. \A i \in Acks' : \E j \in Acks : toServer'[i] = toServer[j]
  BY <1>1, <1>2, TailTaken
<1>7. frame.tag = "TurnAccepted" \/ Passes(frame, active)
  BY <1>4 DEF Passes
<1> QED
  BY <1>1, <1>4, <1>5, <1>6, <1>7, SendOrder

-----------------------------------------------------------------------------
(* Resumes *)

\* Without a gate, a probe, an acknowledgement or a backlog, the handoff is over.
LEMMA HandoffOver ==
    ASSUME conn'.gate.stream = None, Probes' = {}, Acks' = {},
           conn'.resume.pc \notin {"replay", "drain"},
           Serving' => conn'.resume.stream = conn'.probed
    PROVE  OneStream' /\ GateHolds' /\ CursorBehind' /\ LoggedParked' /\ ~Awaiting'
<1>1. ~Awaiting'
  BY DEF Awaiting
<1> QED
  BY <1>1 DEF OneStream, GateHolds, CursorBehind, LoggedParked

\* While an event is yet to be broadcast its turn is open, as no other outcome is.
LEMMA ToComeOpen ==
    ASSUME DeliveryInv, OrderInv, outbox # NoEvent
    PROVE  active \in Stream /\ active # None /\ outcome[active] = "open" /\ outbox = log[active] - 1
<1>1. driven /\ active # None /\ active \in Stream \cup {None} /\ outbox = log[active] - 1
  BY DEF DeliveryInv, TypeInv, EngineType, EngineAgrees
<1>2. outcome[active] = "open"
  BY <1>1 DEF OrderInv, TurnGoesOn
<1> QED
  BY <1>1, <1>2

\* An answer that ends the handoff, or the connection.
LEMMA AnswerOrder ==
    ASSUME DeliveryInv, DeliveryInv', OrderInv, TurnGoesOn', SameShown, Open,
           UNCHANGED <<log, active, outbox>>,
           NEW frames \in Seq(WireFrame), toClient' = toClient \o frames,
           \A k \in 1..Len(frames) :
               ~frames[k].stale /\ frames[k].tag \notin {"ResumeProbe", "StreamEvent"},
           Probes = {}, Acks' = {},
           \/ conn'.state # "open"
           \/ /\ conn'.gate.stream = None /\ conn'.resume.pc \notin {"replay", "drain"}
              /\ Serving' => conn'.resume.stream = conn'.probed
              /\ outbox # NoEvent => ~Replayed(outbox) /\ ~Gated(active)
    PROVE  OrderInv'
<1>1. /\ ShownOnce /\ WireOrder /\ OrderToCome /\ LoggedShown /\ LoggedWire
      /\ toClient \in Seq(WireFrame)
  BY DEF DeliveryInv, TypeInv, OrderInv, HandoffOrder, Logged, WireType
<1>2. /\ ShownOnce' /\ WireOrder' /\ LoggedShown' /\ LoggedWire'
      /\ \A i \in Probes' : i \in Probes /\ toClient'[i] = toClient[i]
      /\ \A s : Events(s)' = Events(s) /\ Shown(s)' = Shown(s)
  BY <1>1, SentOrder
<1>3. CASE conn'.state # "open"
  BY <1>2, <1>3, NotOpen DEF OrderInv, Logged
<1>4. CASE /\ conn'.gate.stream = None /\ conn'.resume.pc \notin {"replay", "drain"}
           /\ Serving' => conn'.resume.stream = conn'.probed
           /\ outbox # NoEvent => ~Replayed(outbox) /\ ~Gated(active)
  <2>1. Probes' = {}
    BY <1>2
  <2>2. OneStream' /\ GateHolds' /\ CursorBehind' /\ LoggedParked'
    BY <1>4, <2>1, HandoffOver
  <2>3. OrderToCome'
    <3>1. CASE outbox = NoEvent
      BY <3>1 DEF OrderToCome
    <3>2. CASE outbox # NoEvent
      <4>1. ~Replayed(outbox) /\ (Open' /\ ~Gated(active)' => Open /\ ~Gated(active))
            /\ \A s : Events(s)' = Events(s)
        BY <1>2, <1>4, <3>2
      <4> QED
        BY <1>1, <4>1, SentToCome
    <3> QED
      BY <3>1, <3>2
  <2> QED
    BY <1>2, <2>2, <2>3 DEF OrderInv, HandoffOrder, Logged
<1> QED
  BY <1>3, <1>4

\* An acknowledgement is answered at once, or the replay starts behind its cursor on
\* the stream that was gated for it.
LEMMA ReceiveResumeOrder ==
    ASSUME DeliveryInv, DeliveryInv', OrderInv, TurnGoesOn', ReceiveResume
    PROVE  OrderInv'
<1> DEFINE ack == Head(toServer)
           s == IF ack.stream # None THEN ack.stream ELSE conn.probed
           pending == IF Gated(s) THEN conn.gate.pending ELSE << >>
           gate == [stream |-> s, highWater |-> ack.sequence, pending |-> pending]
           resume == [NoResume EXCEPT !.pc = "replay", !.stream = s, !.after = ack.sequence]
<1>1. /\ Take /\ ack.tag = "ResumeAck"
      /\ UNCHANGED <<log, active, outbox, client>> /\ SameShown
  BY DEF ReceiveResume, SameShown
<1>2. /\ TypeInv /\ Handoff /\ EngineType /\ EngineType' /\ WireType
      /\ toServer \in Seq(ClientFrame) /\ toClient \in Seq(WireFrame)
      /\ conn \in Connection /\ conn.gate \in Gate /\ conn.resume \in Resume
  BY DEF DeliveryInv, TypeInv, WireType, EndsType, Connection
<1>3. /\ Open /\ ack \in ClientFrame /\ Acks' = {} /\ Probes = {} /\ ~Serving
  BY <1>1, <1>2, Taking DEF Open
<1>4. 1 \in Acks /\ ack = toServer[1] /\ Awaiting
  <2>1. toServer # << >> /\ toServer' = Tail(toServer)
    BY <1>1 DEF Take
  <2>2. 1 \in DOMAIN toServer /\ Head(toServer) = toServer[1]
    BY <1>2, <2>1, TailAcks
  <2> QED
    BY <1>1, <2>2 DEF Acks, Awaiting
<1>5. s = conn.probed /\ ack.stream = s /\ conn.gate.stream = s
  BY <1>3, <1>4 DEF OrderInv, HandoffOrder, OneStream
<1>6. s \in Stream \cup {None} /\ ack.sequence \in Cursor
  BY <1>2, <1>3, <1>5 DEF ClientFrame, Connection
<1>7. ~Replayed(outbox)
  BY <1>4 DEF Replayed
<1>8. s # None => (ack.sequence > log[s] - 1 <=> ~(ack.sequence <= log[s] - 1))
  <2>1. s # None => log[s] - 1 \in Int /\ ack.sequence \in Int
    BY <1>2, <1>6, LastType DEF Cursor, NoEvent
  <2> QED
    BY <2>1
<1>9. outbox # NoEvent /\ (s = None \/ outcome[s] = "completed") => ~Gated(active)
  BY <1>5, ToComeOpen DEF Gated
<1>10. NoGate.stream = None
  BY DEF NoGate
<1> HIDE DEF s
<1>11. CASE s = None
  <2> DEFINE frame == Frame("ResumeComplete", None, NoEvent, "")
  <2>1. conn' = [conn EXCEPT !.gate = NoGate] /\ toClient' = toClient \o <<frame>>
    BY <1>3, <1>11 DEF ReceiveResume, s, Send, Open
  <2>2. frame \in WireFrame /\ ~frame.stale /\ frame.tag \notin {"ResumeProbe", "StreamEvent"}
    BY Bounds DEF Frame, WireFrame, ServerFrame, Cursor, NoEvent, None
  <2> HIDE DEF frame
  <2>3. /\ conn'.gate.stream = None /\ conn'.resume = conn.resume
    BY <1>2, <1>10, <2>1 DEF Connection
  <2>4. conn'.resume.pc \notin {"replay", "drain"} /\ ~Serving'
    BY <1>3, <2>3 DEF Serving
  <2>5. outbox # NoEvent => ~Replayed(outbox) /\ ~Gated(active)
    BY <1>7, <1>9, <1>11
  <2>6. /\ <<frame>> \in Seq(WireFrame)
        /\ \A k \in 1..Len(<<frame>>) :
              ~<<frame>>[k].stale /\ <<frame>>[k].tag \notin {"ResumeProbe", "StreamEvent"}
    BY <2>2, OneToSend
  <2> QED
    BY <1>1, <1>3, <2>1, <2>3, <2>4, <2>5, <2>6, AnswerOrder
<1>12. CASE s # None /\ outcome[s] = "completed" /\ ack.sequence > log[s] - 1
  <2> DEFINE frame == Frame("ProtocolError", s, NoEvent, "close")
  <2>1. conn' = [conn EXCEPT !.gate = NoGate, !.state = "closed"]
        /\ toClient' = toClient \o <<frame>>
    BY <1>3, <1>8, <1>12 DEF ReceiveResume, s, Send, Open
  <2>2. frame \in WireFrame /\ ~frame.stale /\ frame.tag \notin {"ResumeProbe", "StreamEvent"}
    BY <1>6, Bounds DEF Frame, WireFrame, ServerFrame, Cursor, NoEvent, None
  <2> HIDE DEF frame
  <2>3. conn'.state # "open"
    BY <1>2, <2>1 DEF Connection
  <2>4. /\ <<frame>> \in Seq(WireFrame)
        /\ \A k \in 1..Len(<<frame>>) :
              ~<<frame>>[k].stale /\ <<frame>>[k].tag \notin {"ResumeProbe", "StreamEvent"}
    BY <2>2, OneToSend
  <2> QED
    BY <1>1, <1>3, <2>1, <2>3, <2>4, AnswerOrder
<1>13. CASE s # None /\ outcome[s] = "completed" /\ ack.sequence <= log[s] - 1
  <2> DEFINE one == Frame("ResumeComplete", s, log[s] - 1, "")
             two == StreamTerminal(s)
  <2>1. conn' = [conn EXCEPT !.gate = NoGate] /\ toClient' = toClient \o <<one, two>>
    BY <1>3, <1>8, <1>13 DEF ReceiveResume, s, Send, Open
  <2>2. s \in Stream
    BY <1>6, <1>13
  <2>3. one \in WireFrame /\ ~one.stale /\ one.tag \notin {"ResumeProbe", "StreamEvent"}
    <3>1. log[s] - 1 \in Cursor
      BY <1>2, <2>2, LastType
    <3> QED
      BY <2>2, <3>1 DEF Frame, WireFrame, ServerFrame, Cursor, NoEvent
  <2>4. two \in WireFrame /\ ~two.stale /\ two.tag \notin {"ResumeProbe", "StreamEvent"}
    <3>1. two \in WireFrame /\ two.tag = "StreamTerminal"
      BY <1>2, <1>13, <2>2, TerminalFrame DEF Told, Terminal
    <3>2. ~two.stale
      BY DEF StreamTerminal, Frame
    <3> QED
      BY <3>1, <3>2
  <2> HIDE DEF one, two
  <2>5. /\ conn'.gate.stream = None /\ conn'.resume = conn.resume
    BY <1>2, <1>10, <2>1 DEF Connection
  <2>6. conn'.resume.pc \notin {"replay", "drain"} /\ ~Serving'
    BY <1>3, <2>5 DEF Serving
  <2>7. outbox # NoEvent => ~Replayed(outbox) /\ ~Gated(active)
    BY <1>7, <1>9, <1>13
  <2>8. /\ <<one, two>> \in Seq(WireFrame)
        /\ \A k \in 1..Len(<<one, two>>) :
              ~<<one, two>>[k].stale /\ <<one, two>>[k].tag \notin {"ResumeProbe", "StreamEvent"}
    BY <2>3, <2>4, ShortSequences
  <2> QED
    BY <1>1, <1>3, <2>1, <2>5, <2>6, <2>7, <2>8, AnswerOrder
<1>14. CASE s # None /\ outcome[s] # "completed"
  <2>1. conn' = [conn EXCEPT !.gate = gate, !.resume = resume] /\ toClient' = toClient
    BY <1>14 DEF ReceiveResume, s
  <2>2. /\ conn'.gate.stream = s /\ conn'.gate.highWater = ack.sequence
        /\ conn'.gate.pending = conn.gate.pending
        /\ conn'.resume.pc = "replay" /\ conn'.resume.stream = s /\ conn'.probed = s
        /\ conn'.state = conn.state
    <3>1. gate.stream = s /\ gate.highWater = ack.sequence /\ gate.pending = conn.gate.pending
      BY <1>5 DEF Gated
    <3>2. resume.pc = "replay" /\ resume.stream = s
      BY DEF NoResume
    <3> HIDE DEF gate, resume
    <3> QED
      BY <1>2, <1>5, <2>1, <3>1, <3>2 DEF Connection
  <2>3. \A t \in Stream : log[t] <= log'[t]
    BY <1>1, <1>2 DEF EngineType
  <2>4. /\ ShownOnce /\ WireOrder /\ OrderToCome /\ OneStream /\ GateHolds /\ CursorBehind
        /\ LoggedShown /\ LoggedWire /\ LoggedParked
    BY DEF OrderInv, HandoffOrder, Logged
  <2>5. /\ ShownOnce' /\ WireOrder' /\ LoggedShown' /\ LoggedWire' /\ Probes' = {}
        /\ \A t : Shown(t)' = Shown(t) /\ Events(t)' = Events(t)
    BY <1>1, <1>2, <1>3, <2>1, <2>3, <2>4, OrderStays, LoggedStays
  <2>6. OneStream'
    BY <1>3, <2>2, <2>5 DEF OneStream
  <2>7. GateHolds'
    BY <1>3, <1>5, <1>14, <2>2, <2>4, <2>5 DEF GateHolds
  <2>8. CursorBehind'
    <3>1. \A x \in Shown(s) : client.recent[x][2] <= ack.sequence
      BY <1>3, <1>4, <1>5, <2>4 DEF CursorBehind
    <3> QED
      BY <1>1, <1>3, <2>2, <2>5, <3>1 DEF CursorBehind
  <2>9. LoggedParked'
    BY <1>1, <1>3, <1>5, <1>14, <2>2, <2>4 DEF LoggedParked
  <2>10. OrderToCome'
    <3>1. Open' /\ outbox # NoEvent /\ ~Gated(active)' => Open /\ ~Gated(active)
      BY <1>1, <1>3, <1>5, <2>2 DEF Gated
    <3>2. conn'.probed = conn.probed /\ (Awaiting' => Awaiting)
      BY <1>4, <1>5, <2>2
    <3> QED
      BY <1>1, <2>1, <2>4, <3>1, <3>2, ToComeStays
  <2> QED
    BY <2>5, <2>6, <2>7, <2>8, <2>9, <2>10 DEF OrderInv, HandoffOrder, Logged
<1> QED
  BY <1>8, <1>11, <1>12, <1>13, <1>14

\* The backlog is what the log has; a cursor beyond it ends the connection.
LEMMA ReadBacklogOrder ==
    ASSUME DeliveryInv, DeliveryInv', OrderInv, TurnGoesOn', ReadBacklog
    PROVE  OrderInv'
<1> DEFINE r == conn.resume
           s == r.stream
<1>1. /\ Open /\ r.pc = "replay" /\ Serving
      /\ UNCHANGED <<log, active, outbox, toServer, client>> /\ SameShown
  BY DEF ReadBacklog, Resuming, engine, SameShown, Open, Serving
<1>2. /\ TypeInv /\ Handoff /\ EngineType /\ EngineType' /\ WireType /\ toClient \in Seq(WireFrame)
      /\ conn \in Connection /\ conn.gate \in Gate /\ conn.resume \in Resume
  BY DEF DeliveryInv, TypeInv, WireType, EndsType, Connection
<1>3. Probes = {} /\ Acks = {} /\ s \in Stream /\ Acks' = {}
  <2>1. Probes = {} /\ Acks = {} /\ s \in Stream
    BY <1>1, <1>2, ServingAlone, ResumeStream
  <2> QED
    BY <1>1, <2>1 DEF Acks
<1>4. CASE r.after > log[s] - 1
  <2> DEFINE frame == Frame("ProtocolError", s, NoEvent, "close")
  <2>1. /\ conn' = [conn EXCEPT !.gate = NoGate, !.resume = NoResume, !.state = "closed"]
        /\ toClient' = toClient \o <<frame>>
    BY <1>1, <1>4 DEF ReadBacklog, Send, Open
  <2>2. frame \in WireFrame /\ ~frame.stale /\ frame.tag \notin {"ResumeProbe", "StreamEvent"}
    BY <1>3, Bounds DEF Frame, WireFrame, ServerFrame, Cursor, NoEvent
  <2> HIDE DEF frame
  <2>3. conn'.state # "open"
    BY <1>2, <2>1 DEF Connection
  <2>4. /\ <<frame>> \in Seq(WireFrame)
        /\ \A k \in 1..Len(<<frame>>) :
              ~<<frame>>[k].stale /\ <<frame>>[k].tag \notin {"ResumeProbe", "StreamEvent"}
    BY <2>2, OneToSend
  <2> QED
    BY <1>1, <1>3, <2>1, <2>3, <2>4, AnswerOrder
<1>5. CASE ~(r.after > log[s] - 1)
  <2>1. conn' = [conn EXCEPT !.resume.pc = "drain", !.resume.through = log[s] - 1]
        /\ toClient' = toClient
    BY <1>5 DEF ReadBacklog
  <2>2. /\ conn'.resume.pc = "drain" /\ conn'.resume.through = log[s] - 1
        /\ conn'.resume.stream = s /\ conn'.gate = conn.gate /\ conn'.probed = conn.probed
        /\ conn'.state = conn.state
    BY <1>2, <2>1 DEF Connection, Resume
  <2>3. \A t \in Stream : log[t] <= log'[t]
    BY <1>1, <1>2 DEF EngineType
  <2>4. /\ ShownOnce /\ WireOrder /\ OrderToCome /\ OneStream /\ GateHolds /\ CursorBehind
        /\ LoggedShown /\ LoggedWire /\ LoggedParked
    BY DEF OrderInv, HandoffOrder, Logged
  <2>5. /\ ShownOnce' /\ WireOrder' /\ LoggedShown' /\ LoggedWire' /\ Probes' = {}
        /\ \A t : Shown(t)' = Shown(t) /\ Events(t)' = Events(t)
    BY <1>1, <1>2, <1>3, <2>1, <2>3, <2>4, OrderStays, LoggedStays
  <2>6. Awaiting /\ Awaiting' /\ Open'
    BY <1>1, <2>2 DEF Awaiting, Open
  <2>7. OneStream'
    BY <1>1, <1>3, <2>2, <2>4, <2>5, <2>6 DEF OneStream
  <2>8. GateHolds'
    BY <1>1, <2>2, <2>4, <2>5 DEF GateHolds
  <2>9. CursorBehind'
    BY <1>1, <1>3, <2>2, <2>4, <2>5 DEF CursorBehind
  <2>10. LoggedParked'
    <3>1. log[s] - 1 < log[s]
      BY <1>2, <1>3, LastType DEF EngineType
    <3> QED
      BY <1>1, <2>2, <2>4, <3>1 DEF LoggedParked
  <2>11. OrderToCome'
    <3>1. Open' /\ outbox # NoEvent /\ ~Gated(active)' => Open /\ ~Gated(active)
      BY <1>1, <2>2 DEF Gated
    <3> QED
      BY <1>1, <2>1, <2>2, <2>4, <2>6, <3>1, ToComeStays
  <2> QED
    BY <2>5, <2>7, <2>8, <2>9, <2>10, <2>11 DEF OrderInv, HandoffOrder, Logged
<1> QED
  BY <1>4, <1>5

\* The outcome told behind a replay is that of a turn with no event to come.
LEMMA AnswerTerminalOrder ==
    ASSUME DeliveryInv, DeliveryInv', OrderInv, TurnGoesOn', AnswerTerminal
    PROVE  OrderInv'
<1> DEFINE s == conn.resume.stream
           frame == StreamTerminal(s)
<1>1. /\ Open /\ conn.resume.pc = "terminal" /\ Serving
      /\ conn' = [conn EXCEPT !.resume = NoResume]
      /\ UNCHANGED <<log, active, outbox, toServer, client>> /\ SameShown
  BY DEF AnswerTerminal, Resuming, engine, SameShown, Open, Serving
<1>2. /\ TypeInv /\ Handoff /\ EngineType /\ WireType /\ toClient \in Seq(WireFrame)
      /\ conn \in Connection
  BY DEF DeliveryInv, TypeInv, WireType, EndsType
<1>3. Probes = {} /\ Acks' = {} /\ s \in Stream /\ conn.gate.stream = None
  <2>1. Probes = {} /\ Acks = {} /\ s \in Stream
    BY <1>1, <1>2, ServingAlone, ResumeStream
  <2> QED
    BY <1>1, <1>2, <2>1 DEF Acks, Handoff, GateFollows
<1>4. conn'.gate.stream = None /\ conn'.resume = NoResume /\ NoResume.pc = "none"
  BY <1>1, <1>2, <1>3 DEF Connection, NoResume
<1>5. conn'.resume.pc \notin {"replay", "drain"} /\ ~Serving'
  BY <1>4 DEF Serving
<1>6. ~Gated(active) \/ outbox = NoEvent
  BY <1>3, ToComeOpen DEF Gated
<1>7. s = conn.probed
  BY <1>1 DEF OrderInv, HandoffOrder, OneStream
<1>8. CASE outcome[s] \in Told
  <2>1. toClient' = toClient \o <<frame>>
    BY <1>1, <1>8 DEF AnswerTerminal, Send, Open
  <2>2. frame \in WireFrame /\ ~frame.stale /\ frame.tag \notin {"ResumeProbe", "StreamEvent"}
    <3>1. frame \in WireFrame /\ frame.tag = "StreamTerminal"
      BY <1>2, <1>3, <1>8, TerminalFrame
    <3>2. ~frame.stale
      BY DEF StreamTerminal, Frame
    <3> QED
      BY <3>1, <3>2
  <2>3. outbox # NoEvent => s # active
    BY <1>8, ToComeOpen DEF Told, Terminal
  <2>4. outbox # NoEvent => ~Replayed(outbox) /\ ~Gated(active)
    BY <1>6, <1>7, <2>3 DEF Replayed
  <2> HIDE DEF frame
  <2>5. /\ <<frame>> \in Seq(WireFrame)
        /\ \A k \in 1..Len(<<frame>>) :
              ~<<frame>>[k].stale /\ <<frame>>[k].tag \notin {"ResumeProbe", "StreamEvent"}
    BY <2>2, OneToSend
  <2> QED
    BY <1>1, <1>3, <1>4, <1>5, <2>1, <2>4, <2>5, AnswerOrder
<1>9. CASE outcome[s] \notin Told
  <2>1. toClient' = toClient
    BY <1>9 DEF AnswerTerminal
  <2>2. /\ ShownOnce /\ WireOrder /\ OrderToCome /\ LoggedShown /\ LoggedWire
    BY DEF OrderInv, HandoffOrder, Logged
  <2>3. EngineType' /\ \A t \in Stream : log[t] <= log'[t]
    BY <1>1, <1>2 DEF EngineType, DeliveryInv, TypeInv
  <2>4. /\ ShownOnce' /\ WireOrder' /\ LoggedShown' /\ LoggedWire' /\ Probes' = {}
    BY <1>1, <1>2, <1>3, <2>1, <2>2, <2>3, OrderStays, LoggedStays
  <2>5. OneStream' /\ GateHolds' /\ CursorBehind' /\ LoggedParked' /\ ~Awaiting'
    BY <1>3, <1>4, <1>5, <2>4, HandoffOver
  <2>6. OrderToCome'
    <3>1. Open' /\ outbox # NoEvent /\ ~Gated(active)' => Open /\ ~Gated(active)
      BY <1>1, <1>6
    <3>2. conn'.probed = conn.probed
      BY <1>1, <1>2 DEF Connection
    <3> QED
      BY <1>1, <2>1, <2>2, <2>5, <3>1, <3>2, ToComeStays
  <2> QED
    BY <2>4, <2>5, <2>6 DEF OrderInv, HandoffOrder, Logged
<1> QED
  BY <1>8, <1>9

-----------------------------------------------------------------------------
(* Probes and broadcasts *)

\* The upgrade gates the stream of its probe, which is the active one if there is one;
\* nothing of an earlier socket will be applied.
LEMMA UpgradeOrder ==
    ASSUME DeliveryInv, DeliveryInv', OrderInv, TurnGoesOn', Upgrade
    PROVE  OrderInv'
<1> DEFINE s == ProbedStream
           n == IF s = None THEN NoEvent ELSE log[s] - 1
           info == IF active # None THEN "active" ELSE ""
           gate == IF s = None THEN NoGate ELSE [NoGate EXCEPT !.stream = s]
           frame == Frame("ResumeProbe", s, n, info)
<1>1. /\ conn.state = "dialing"
      /\ conn' = [conn EXCEPT !.state = "open", !.probed = s, !.gate = gate]
      /\ client' = [client EXCEPT !.socket = "open"]
      /\ toClient' = Append(toClient, frame)
      /\ UNCHANGED <<log, active, outbox, toServer>>
  BY DEF Upgrade
<1>2. /\ TypeInv /\ Handoff /\ EngineType /\ toClient \in Seq(WireFrame) /\ conn \in Connection
      /\ client \in Showing(client.recent)
  BY DEF DeliveryInv, TypeInv, WireType, EndsType
<1>3. SameShown
  BY <1>1, <1>2 DEF SameShown, Showing
<1>4. /\ frame.tag = "ResumeProbe" /\ frame.stream = s /\ ~frame.stale
      /\ gate.stream = s /\ gate.pending = << >>
  BY DEF Frame, NoGate
<1>5. frame \in WireFrame
  <2>1. s \in Stream \cup {None}
    BY <1>2, ProbedStreamType
  <2>2. n \in Cursor
    BY <1>2, <2>1, LastType, Bounds DEF NoEvent
  <2>3. info \in {"active", ""}
    OBVIOUS
  <2> HIDE DEF s, n, info
  <2> QED
    BY <2>1, <2>2, <2>3 DEF Frame, WireFrame, ServerFrame, Cursor, NoEvent
<1>6. ASSUME outbox # NoEvent PROVE s = active
  BY <1>6, ToComeOpen DEF ProbedStream
<1> HIDE DEF s, frame, gate
<1>7. /\ conn'.gate = gate /\ conn'.probed = s /\ conn'.resume = conn.resume
      /\ conn'.state = "open"
  BY <1>1, <1>2 DEF Connection
<1>8. Acks = {} /\ ~Serving /\ Fresh = {}
  <2>1. Acks = {} /\ ~Serving
    BY <1>1, <1>2, Dialing
  <2>2. Fresh = {}
    BY <1>1, <1>2 DEF Handoff, SocketAgrees, Fresh
  <2> QED
    BY <2>1, <2>2
<1>9. Acks' = {} /\ conn'.resume.pc \notin {"replay", "drain"} /\ ~Serving'
  BY <1>1, <1>7, <1>8 DEF Acks, Serving
<1>10. \A i \in Fresh' : toClient'[i] = frame
  <2> DEFINE frames == <<frame>>
  <2>1. frames \in Seq(WireFrame) /\ toClient' = toClient \o frames
        /\ \A k \in 1..Len(frames) : frames[k] = frame
    BY <1>1, <1>2, <1>5, ShortSequences, AppendIsConcat
  <2>2. \A k \in 1..Len(frames) : ~frames[k].stale
    BY <1>4, <2>1
  <2> HIDE DEF frames
  <2>3. \A i \in Fresh' : i \in Fresh \/ \E k \in 1..Len(frames) : toClient'[i] = frames[k]
    BY <1>2, <2>1, <2>2, SentFrames
  <2> QED
    BY <1>8, <2>1, <2>3
<1>11. /\ \A t : Events(t)' = {}
       /\ \A i \in Probes' : toClient'[i].stream = s
  <2>1. \A t : Events(t)' = {}
    BY <1>4, <1>10 DEF Events
  <2>2. Probes' \subseteq Fresh'
    BY DEF Probes, IsProbe, Fresh
  <2> QED
    BY <1>4, <1>10, <2>1, <2>2
<1>12. ShownOnce' /\ LoggedShown'
  BY <1>1, <1>3 DEF OrderInv, ShownOnce, Logged, LoggedShown, SameShown
<1>13. WireOrder'
  BY <1>11 DEF WireOrder, OrderOnWire, OrderAhead, ProbeFirst
<1>14. LoggedWire'
  BY <1>4, <1>10 DEF LoggedWire
<1>15. OneStream' /\ GateHolds' /\ CursorBehind'
  BY <1>4, <1>7, <1>9, <1>11 DEF OneStream, GateHolds, CursorBehind
<1>16. LoggedParked'
  <2>1. DOMAIN conn'.gate.pending = {}
    BY <1>4, <1>7
  <2> QED
    BY <1>9, <2>1 DEF LoggedParked
<1>17. OrderToCome'
  BY <1>1, <1>4, <1>6, <1>7 DEF OrderToCome, Gated
<1> QED
  BY <1>12, <1>13, <1>14, <1>15, <1>16, <1>17 DEF OrderInv, HandoffOrder, Logged

\* An event that is broadcast is the last on the way, as it was when it was to come.
LEMMA BroadcastOrder ==
    ASSUME DeliveryInv, DeliveryInv', OrderInv, TurnGoesOn', SameShown, Open,
           UNCHANGED <<log, active, conn, toServer>>, outbox # NoEvent, outbox' = NoEvent,
           ~Gated(active), toClient' = toClient \o <<Event(active, outbox)>>
    PROVE  OrderInv'
<1> DEFINE n == outbox
           frame == Event(active, n)
           frames == <<frame>>
<1>1. active \in Stream /\ active # None /\ n = log[active] - 1
  BY ToComeOpen
<1>2. /\ TypeInv /\ toClient \in Seq(WireFrame) /\ EngineType /\ n \in Cursor
  BY DEF DeliveryInv, TypeInv, WireType, EngineType
<1>3. n \in Nat /\ n < log[active]
  BY <1>1, <1>2, LastType, Bounds DEF Cursor, NoEvent
<1>4. /\ frame \in WireFrame /\ frame.tag = "StreamEvent" /\ frame.stream = active
      /\ frame.sequence = n /\ ~frame.stale
  BY <1>1, <1>2 DEF Event, Frame, WireFrame, ServerFrame, Cursor, NoEvent
<1>5. toClient' = toClient \o frames
  OBVIOUS
<1> HIDE DEF frame, n
<1>6. /\ frames \in Seq(WireFrame) /\ Len(frames) = 1
      /\ \A k \in 1..Len(frames) : frames[k] = frame /\ ~frames[k].stale
  <2>1. frames \in Seq(WireFrame) /\ Len(frames) = 1
    BY <1>4, ShortSequences
  <2> QED
    BY <1>4, <2>1
<1> HIDE DEF frames
<1>7. \A k \in 1..Len(frames) : ~frames[k].stale
  BY <1>6
<1>8. /\ End \in Nat /\ 0 < End
      /\ \A i \in Fresh : i \in Nat /\ i < End /\ i \in Fresh' /\ toClient'[i] = toClient[i]
      /\ \A i \in Fresh' : i \in Fresh \/ i = End
      /\ End \in Fresh' /\ toClient'[End] = frame
  <2>1. /\ Len(toClient) \in Nat /\ End \in Nat /\ End = Len(toClient) + 1
    BY <1>2, <1>5, <1>6, <1>7, SentFrames
  <2>2. \A i \in Fresh : i \in Nat /\ i < End /\ i \in Fresh' /\ toClient'[i] = toClient[i]
    BY <1>2, <1>5, <1>6, <1>7, SentFrames, Zenon
  <2>3. ASSUME NEW i \in Fresh', i \notin Fresh PROVE i = End
    <3>1. i \in Nat /\ i - Len(toClient) \in 1..Len(frames)
      BY <1>2, <1>5, <1>6, <1>7, <2>3, SentFrames, Zenon
    <3> QED
      BY <1>6, <2>1, <3>1
  <2>4. End \in Fresh' /\ toClient'[End] = frame
    <3>1. 1 \in 1..Len(frames) /\ frames[1] = frame
      BY <1>6
    <3>2. Len(toClient) + 1 \in Fresh' /\ toClient'[Len(toClient) + 1] = frames[1]
      BY <1>2, <1>5, <1>6, <1>7, <3>1, SentFrames, Zenon
    <3> QED
      BY <2>1, <3>1, <3>2
  <2>5. 0 < End
    BY <2>1
  <2> QED
    BY <2>1, <2>2, <2>3, <2>4, <2>5
<1>9. /\ \A t : t # active => Events(t)' = Events(t)
      /\ \A t : \A i \in Events(t)' : i \in Events(t) \/ i = End
      /\ \A t : Shown(t)' = Shown(t)
  <2>1. ASSUME NEW t, t # active PROVE Events(t)' = Events(t)
    <3>1. \A i \in Fresh' : i \in Fresh \/ toClient'[i].stream # t
      BY <1>4, <1>8, <2>1
    <3> QED
      BY <1>8, <3>1 DEF Events
  <2>2. ASSUME NEW t, NEW i \in Events(t)', i # End PROVE i \in Events(t)
    <3>1. i \in Fresh' /\ toClient'[i].tag = "StreamEvent" /\ toClient'[i].stream = t
      BY DEF Events
    <3> QED
      BY <1>8, <2>2, <3>1 DEF Events
  <2>3. \A t : Shown(t)' = Shown(t)
    BY DEF Shown, SameShown
  <2> QED
    BY <2>1, <2>2, <2>3
<1>10. \A i \in Probes' : i \in Probes /\ toClient'[i] = toClient[i]
  <2>1. \A i \in Probes' : i \in Fresh' /\ toClient'[i].tag = "ResumeProbe"
    BY DEF Probes, IsProbe, Fresh
  <2> QED
    BY <1>4, <1>8, <2>1 DEF Probes, IsProbe, Fresh
<1>11. /\ \A i \in Nat, j \in Nat : Together(i, j)' => Together(i, j)
       /\ \A j \in Nat : \A t, m : j <= End /\ Seen(j, t, m) => Seen(j, t, m)'
  BY <1>2, <1>5, <1>6, <1>7, SentBehind
<1>12. /\ ShownOnce /\ OrderOnWire /\ OrderAhead /\ ProbeFirst /\ OrderToCome
       /\ OneStream /\ GateHolds /\ CursorBehind /\ LoggedShown /\ LoggedWire /\ LoggedParked
  BY DEF OrderInv, WireOrder, HandoffOrder, Logged
<1>13. \A j, t, m : j = End /\ t = active /\ m = n /\ Replayed(n) => Seen(j, t, m)'
  <2>1. End <= End
    BY <1>8
  <2> QED
    BY <1>8, <1>11, <2>1 DEF Replayed
<1>14. OrderOnWire'
  <2> SUFFICES ASSUME NEW t \in Stream, NEW i \in Events(t)', NEW j \in Events(t)',
                      i < j, Together(i, j)'
               PROVE  \/ toClient'[i].sequence < toClient'[j].sequence
                      \/ Seen(j, t, toClient[j].sequence)'
    BY DEF OrderOnWire
  <2>1. i \in Fresh' /\ j \in Fresh'
    BY DEF Events
  <2>2. i # End
    BY <1>8, <2>1
  <2>3. i \in Events(t) /\ i \in Nat /\ toClient'[i] = toClient[i]
    BY <1>8, <1>9, <2>1, <2>2
  <2>4. CASE j = End
    <3>1. t = active
      BY <1>4, <1>8, <2>4 DEF Events
    <3>2. Together(i, End)
      BY <1>8, <1>11, <2>3, <2>4
    <3>3. toClient[i].sequence < n \/ Replayed(n)
      BY <1>12, <2>3, <3>1, <3>2 DEF OrderToCome, n
    <3> QED
      BY <1>4, <1>8, <1>13, <2>3, <2>4, <3>1, <3>3
  <2>5. CASE j # End
    <3>1. j \in Events(t) /\ j \in Nat /\ j < End /\ toClient'[j] = toClient[j]
      BY <1>8, <1>9, <2>1, <2>5
    <3>2. Together(i, j) /\ j <= End
      BY <1>8, <1>11, <2>3, <3>1
    <3>3. toClient[i].sequence < toClient[j].sequence \/ Seen(j, t, toClient[j].sequence)
      BY <1>12, <2>3, <3>1, <3>2 DEF OrderOnWire
    <3> QED
      BY <1>11, <2>3, <3>1, <3>2, <3>3
  <2> QED
    BY <2>4, <2>5
<1>15. OrderAhead'
  <2> SUFFICES ASSUME NEW t \in Stream, NEW x \in Shown(t), NEW j \in Events(t)',
                      Together(0, j)'
               PROVE  \/ client.recent[x][2] < toClient'[j].sequence
                      \/ Seen(j, t, toClient[j].sequence)'
    BY <1>9 DEF OrderAhead, SameShown
  <2>1. j \in Fresh' /\ 0 \in Nat
    BY DEF Events
  <2>2. CASE j = End
    <3>1. t = active
      BY <1>4, <1>8, <2>2 DEF Events
    <3>2. Together(0, End)
      BY <1>8, <1>11, <2>1, <2>2
    <3>3. client.recent[x][2] < n \/ Replayed(n)
      BY <1>12, <3>1, <3>2 DEF OrderToCome, n
    <3> QED
      BY <1>4, <1>8, <1>13, <2>2, <3>1, <3>3
  <2>3. CASE j # End
    <3>1. j \in Events(t) /\ j \in Nat /\ j < End /\ toClient'[j] = toClient[j]
      BY <1>8, <1>9, <2>1, <2>3
    <3>2. Together(0, j) /\ j <= End
      BY <1>8, <1>11, <2>1, <3>1
    <3>3. client.recent[x][2] < toClient[j].sequence \/ Seen(j, t, toClient[j].sequence)
      BY <1>12, <3>1, <3>2 DEF OrderAhead
    <3> QED
      BY <1>11, <3>1, <3>2, <3>3
  <2> QED
    BY <2>2, <2>3
<1>16. ProbeFirst'
  <2> SUFFICES ASSUME NEW i \in Probes', NEW t, t = toClient'[i].stream PROVE Events(t)' = {}
    BY DEF ProbeFirst
  <2>1. i \in Probes /\ toClient[i].stream = t
    BY <1>10
  <2>2. t # active
    BY <1>12, <2>1 DEF OneStream, Awaiting, Gated
  <2> QED
    BY <1>9, <1>12, <2>1, <2>2 DEF ProbeFirst
<1>17. OneStream'
  <2>1. Acks' = Acks /\ Serving' = Serving /\ (Awaiting' => Awaiting) /\ Open' = Open
    BY <1>10 DEF Acks, Serving, Awaiting, Open
  <2> QED
    BY <1>10, <1>12, <2>1 DEF OneStream
<1>18. GateHolds'
  BY <1>9, <1>12 DEF GateHolds, Gated
<1>19. CursorBehind' /\ LoggedParked'
  <2>1. Acks' = Acks
    BY DEF Acks
  <2> QED
    BY <1>9, <1>12, <2>1 DEF CursorBehind, LoggedParked, SameShown, Open
<1>20. ShownOnce' /\ LoggedShown'
  BY <1>12 DEF ShownOnce, LoggedShown, SameShown
<1>21. LoggedWire'
  <2> SUFFICES ASSUME NEW i \in Fresh', toClient'[i].tag = "StreamEvent"
               PROVE  /\ toClient'[i].stream # None /\ toClient'[i].sequence \in Nat
                      /\ toClient'[i].sequence < log[toClient'[i].stream]
    BY DEF LoggedWire
  <2>1. CASE i = End
    BY <1>1, <1>3, <1>4, <1>8, <2>1
  <2>2. CASE i # End
    BY <1>8, <1>12, <2>2 DEF LoggedWire
  <2> QED
    BY <2>1, <2>2
<1>22. OrderToCome'
  BY DEF OrderToCome
<1> QED
  BY <1>14, <1>15, <1>16, <1>17, <1>18, <1>19, <1>20, <1>21, <1>22
     DEF OrderInv, WireOrder, HandoffOrder, Logged

\* Behind a gate it is parked, or was replayed, or the connection ends.
LEMMA PublishOrder ==
    ASSUME DeliveryInv, DeliveryInv', OrderInv, TurnGoesOn', Publish
    PROVE  OrderInv'
<1> DEFINE parked == parkLiveEvent(conn.gate, outbox, MaxPendingHandoffEvents)
<1>1. /\ outbox # NoEvent /\ BroadcastEvent(active, outbox) /\ outbox' = NoEvent
      /\ UNCHANGED <<log, active, toServer, client>> /\ SameShown
  BY DEF Publish, SameShown
<1>2. /\ ShownOnce /\ WireOrder /\ HandoffOrder /\ LoggedShown /\ LoggedWire /\ LoggedParked
      /\ EngineType /\ EngineType' /\ TypeInv /\ Handoff /\ WireType
      /\ conn \in Connection /\ conn.gate \in Gate
  BY DEF DeliveryInv, TypeInv, OrderInv, Logged, EndsType, Connection
<1>3. \A s \in Stream : log[s] <= log'[s]
  BY <1>1, <1>2 DEF EngineType
<1>4. OrderToCome'
  BY <1>1 DEF OrderToCome
<1>5. CASE ~Gated(active)
  <2>1. conn' = conn /\ Send(<<Event(active, outbox)>>)
    BY <1>1, <1>5 DEF BroadcastEvent
  <2>2. CASE Open
    <3>1. toClient' = toClient \o <<Event(active, outbox)>>
      BY <2>1, <2>2 DEF Send, Open
    <3> QED
      BY <1>1, <1>5, <2>1, <2>2, <3>1, BroadcastOrder
  <2>3. CASE ~Open
    <3>1. toClient' = toClient /\ conn'.state # "open"
      BY <2>1, <2>3 DEF Send, Open
    <3> QED
      BY <1>1, <3>1, IdleOrder
  <2> QED
    BY <2>2, <2>3
<1>6. CASE Gated(active)
  <2>1. toClient' = toClient
    BY <1>1, <1>6 DEF BroadcastEvent
  <2>2. /\ ShownOnce' /\ WireOrder' /\ LoggedShown' /\ LoggedWire' /\ Probes' = Probes
        /\ \A s : Shown(s)' = Shown(s) /\ Events(s)' = Events(s)
    BY <1>1, <1>2, <1>3, <2>1, OrderStays, LoggedStays
  <2>3. Acks' = Acks
    BY <1>1 DEF Acks
  <2>4. CASE parked = "overflow"
    <3>1. conn' = [conn EXCEPT !.gate = NoGate, !.state = "closed"]
      BY <1>1, <1>6, <2>4 DEF BroadcastEvent
    <3>2. conn'.state # "open"
      BY <1>2, <3>1 DEF Connection
    <3> QED
      BY <1>1, <2>1, <3>2, IdleOrder
  <2>5. CASE parked = "duplicate"
    <3>1. conn' = conn
      BY <1>1, <1>6, <2>5 DEF BroadcastEvent
    <3>2. /\ \A i \in Probes' : i \in Probes /\ toClient'[i] = toClient[i]
          /\ \A s : Events(s)' \subseteq Events(s)
          /\ \A i \in Acks' : \E j \in Acks : toServer'[i] = toServer[j]
      BY <1>1, <2>1, <2>2, <2>3
    <3>3. OneStream' /\ GateHolds' /\ CursorBehind' /\ LoggedParked'
      BY <1>1, <1>2, <1>3, <3>1, <3>2, HandoffStays
    <3> QED
      BY <1>4, <2>2, <3>3 DEF OrderInv, HandoffOrder, Logged
  <2>6. CASE parked = "buffered"
    <3> DEFINE gate == [conn.gate EXCEPT !.pending = Append(conn.gate.pending, outbox)]
    <3>1. conn' = [conn EXCEPT !.gate = gate]
      BY <1>1, <1>2, <1>6, <2>6 DEF BroadcastEvent, Connection
    <3>2. /\ gate.stream = conn.gate.stream /\ gate.highWater = conn.gate.highWater
          /\ gate.pending = Append(conn.gate.pending, outbox)
      BY <1>2 DEF Gate
    <3> HIDE DEF gate
    <3>3. /\ conn'.gate = gate /\ conn'.resume = conn.resume /\ conn'.probed = conn.probed
          /\ conn'.state = conn.state
      BY <1>2, <3>1 DEF Connection
    <3>4. /\ Open' = Open /\ Serving' = Serving /\ Awaiting' = Awaiting
      BY <2>2, <2>3, <3>3 DEF Open, Serving, Awaiting
    <3>5. OneStream'
      BY <1>1, <1>2, <2>1, <2>2, <2>3, <3>2, <3>3, <3>4 DEF HandoffOrder, OneStream
    <3>6. GateHolds'
      BY <1>2, <2>2, <3>2, <3>3, <3>4 DEF HandoffOrder, GateHolds
    <3>7. CursorBehind'
      BY <1>1, <1>2, <2>2, <2>3, <3>2, <3>3, <3>4 DEF HandoffOrder, CursorBehind
    <3>8. LoggedParked'
      <4>1. /\ outbox < log[active] /\ conn.gate.stream = active
        <5>1. active \in Stream /\ outbox = log[active] - 1
          BY <1>1, ToComeOpen
        <5>2. log[active] \in Int
          BY <1>2, <5>1 DEF EngineType
        <5> QED
          BY <1>6, <5>1, <5>2 DEF Gated
      <4>2. \A i \in DOMAIN gate.pending :
               \/ i \in DOMAIN conn.gate.pending /\ gate.pending[i] = conn.gate.pending[i]
               \/ gate.pending[i] = outbox
        <5> DEFINE old == conn.gate.pending
                   new == gate.pending
        <5>1. old \in Seq(0..MaxEvents) /\ outbox \in 0..MaxEvents
          BY <1>1, <1>2, Bounds DEF Gate, EngineType, Cursor, NoEvent
        <5>2. /\ Len(old) \in Nat /\ DOMAIN old = 1..Len(old) /\ DOMAIN new = 1..(Len(old) + 1)
              /\ \A i \in 1..Len(old) : new[i] = old[i]
              /\ new[Len(old) + 1] = outbox
          BY <3>2, <5>1, AppendProperties, LenProperties
        <5> HIDE DEF old, new
        <5>3. \A i \in 1..(Len(old) + 1) : i \in 1..Len(old) \/ i = Len(old) + 1
          BY <5>2
        <5>4. \A i \in DOMAIN new : (i \in DOMAIN old /\ new[i] = old[i]) \/ new[i] = outbox
          BY <5>2, <5>3
        <5> QED
          BY <5>4 DEF old, new
      <4> QED
        BY <1>1, <1>2, <3>2, <3>3, <3>4, <4>1, <4>2 DEF LoggedParked
    <3> QED
      BY <1>4, <2>2, <3>5, <3>6, <3>7, <3>8 DEF OrderInv, HandoffOrder, Logged
  <2>7. parked \in {"overflow", "duplicate", "buffered"}
    BY DEF parkLiveEvent
  <2> QED
    BY <2>4, <2>5, <2>6, <2>7
<1> QED
  BY <1>5, <1>6

-----------------------------------------------------------------------------
(* The replay *)

\* What a handoff sends is in order, behind the cursor, and of the log.
LEMMA HandedOffOrder ==
    ASSUME TypeInv, Handoff, LoggedParked, Resuming("drain"),
           NEW sent, sent = HandedOff(conn.gate, conn.resume.through),
           NEW high, high = IF sent = << >> THEN conn.gate.highWater ELSE sent[Len(sent)]
    PROVE  /\ sent \in Seq(0..MaxEvents) /\ high \in Cursor /\ conn.gate.highWater <= high
           /\ \A i \in 1..Len(sent) :
                 /\ sent[i] \in Nat /\ conn.gate.highWater < sent[i] /\ sent[i] <= high
                 /\ sent[i] < log[conn.resume.stream]
           /\ \A i, j \in 1..Len(sent) : i < j => sent[i] < sent[j]
<1> DEFINE gate == conn.gate
           through == conn.resume.through
           s == conn.resume.stream
           S == ToSend(gate, through)
           k == Cardinality(S)
<1>1. sent \in Seq(0..MaxEvents) /\ high \in Cursor
  BY HandoffReaches
<1>2. /\ gate \in Gate /\ through \in Cursor /\ gate.highWater \in Cursor
      /\ gate.pending \in Seq(0..MaxEvents) /\ EngineType
  BY ConnectionType DEF TypeInv, Resume, Gate, Cursor, NoEvent
<1>3. conn.resume.pc = "drain" /\ Serving /\ Open /\ s \in Stream /\ gate.stream = s /\ s # None
  <2>1. conn.resume.pc = "drain" /\ Serving /\ Open
    BY DEF Resuming, Serving, Open
  <2> QED
    BY <2>1, ResumeStream DEF Handoff, GateFollows, Open
<1>4. /\ through < log[s]
      /\ \A i \in DOMAIN gate.pending : gate.pending[i] < log[s]
  BY <1>3 DEF LoggedParked
<1>5. log[s] \in Int /\ \A i \in DOMAIN gate.pending : gate.pending[i] \in Nat
  BY <1>2, <1>3, LenProperties, Bounds DEF EngineType
<1>6. ASSUME NEW n \in S PROVE n \in Nat /\ gate.highWater < n /\ n < log[s] /\ n \in 0..MaxEvents
  <2>1. n > gate.highWater /\ (n \in 0..through \/ \E i \in DOMAIN gate.pending : n = gate.pending[i])
    BY DEF ToSend
  <2>2. CASE n \in 0..through
    <3>1. through \in Int /\ gate.highWater \in Int /\ through <= MaxEvents /\ MaxEvents \in Nat
      BY <1>2, Bounds DEF Cursor, NoEvent
    <3> QED
      BY <1>4, <1>5, <2>1, <2>2, <3>1
  <2>3. CASE \E i \in DOMAIN gate.pending : n = gate.pending[i]
    <3>1. PICK i \in DOMAIN gate.pending : n = gate.pending[i]
      BY <2>3
    <3>2. n \in Nat /\ n < log[s] /\ gate.pending[i] \in 0..MaxEvents
      BY <1>2, <1>4, <1>5, <3>1, LenProperties
    <3>3. gate.highWater \in Int
      BY <1>2, Bounds DEF Cursor, NoEvent
    <3> QED
      BY <2>1, <3>1, <3>2, <3>3
  <2> QED
    BY <2>1, <2>2, <2>3
<1> HIDE DEF S
<1>7. S \subseteq Int /\ IsFiniteSet(S)
  <2>1. IsFiniteSet(0..MaxEvents) /\ 0..MaxEvents \subseteq Int /\ S \subseteq 0..MaxEvents
    BY <1>6, Bounds, FS_Interval
  <2> QED
    BY <2>1, FS_Subset
<1>8. sent = Ascending(S)
  BY DEF S, HandedOff, ToSend
<1>9. /\ k \in Nat /\ sent \in [1..k -> S]
      /\ \A i, j \in 1..k : i < j => sent[i] < sent[j]
      /\ \A n \in S : k \in 1..k /\ n <= sent[k]
  BY <1>7, <1>8, AscendingOrder
<1>10. Len(sent) = k
  <2>1. DOMAIN sent = 1..k /\ DOMAIN sent = 1..Len(sent) /\ Len(sent) \in Nat
    BY <1>1, <1>9, LenProperties
  <2> QED
    BY <1>9, <2>1
<1> HIDE DEF k, gate
<1>11. sent # << >> <=> k # 0
  BY <1>1, <1>10, EmptySeq
<1>12. gate.highWater \in Int /\ gate.highWater <= high
  <2>1. CASE sent = << >>
    BY <1>2, <2>1, Bounds DEF Cursor, NoEvent, gate
  <2>2. CASE sent # << >>
    <3>1. k \in 1..k
      BY <1>9, <1>11, <2>2
    <3>2. sent[k] \in S /\ high = sent[k]
      BY <1>9, <1>10, <2>2, <3>1
    <3>3. sent[k] \in Nat /\ gate.highWater < sent[k] /\ gate.highWater \in Int
      BY <1>2, <1>6, <3>2, Bounds DEF Cursor, NoEvent
    <3> QED
      BY <3>2, <3>3
  <2> QED
    BY <2>1, <2>2
<1>13. ASSUME NEW i \in 1..k
       PROVE  /\ sent[i] \in Nat /\ gate.highWater < sent[i] /\ sent[i] <= high
              /\ sent[i] < log[s]
  <2>1. sent[i] \in S
    BY <1>9
  <2>2. sent[i] <= sent[k]
    BY <1>9, <2>1
  <2>3. sent # << >>
    BY <1>9, <1>11
  <2> QED
    BY <1>6, <1>10, <2>1, <2>2, <2>3
<1> QED
  BY <1>1, <1>9, <1>10, <1>12, <1>13 DEF gate

\* As frames: the events, and the cursor they lead to.
ReplayOf(sent, s, high) ==
    [i \in DOMAIN sent |-> Frame("StreamEvent", s, sent[i], "replay")]
        \o <<Frame("ResumeComplete", s, high, "")>>

\* They are frames of the wire, none of them stale.
LEMMA ReplayFrames ==
    ASSUME NEW sent \in Seq(0..MaxEvents), NEW s \in Stream, NEW high \in Cursor,
           NEW frames, frames = ReplayOf(sent, s, high)
    PROVE  /\ frames \in Seq(WireFrame) /\ Len(sent) \in Nat /\ Len(frames) = Len(sent) + 1
           /\ \A i \in 1..Len(sent) :
                 /\ ~frames[i].stale /\ frames[i].tag = "StreamEvent"
                 /\ frames[i].stream = s /\ frames[i].sequence = sent[i]
           /\ ~frames[Len(sent) + 1].stale /\ frames[Len(sent) + 1].tag = "ResumeComplete"
           /\ frames[Len(sent) + 1].stream = s /\ frames[Len(sent) + 1].sequence = high
<1> DEFINE events == [i \in DOMAIN sent |-> Frame("StreamEvent", s, sent[i], "replay")]
           last == Frame("ResumeComplete", s, high, "")
           k == Len(sent)
<1>1. events \in Seq(WireFrame) /\ \A j \in DOMAIN events : events[j].tag # "ResumeProbe"
  BY BacklogFrames
<1>2. last \in WireFrame /\ last.tag = "ResumeComplete" /\ last.stream = s
      /\ last.sequence = high /\ ~last.stale
  BY DEF Frame, WireFrame, ServerFrame, Cursor, NoEvent
<1>3. k \in Nat /\ DOMAIN sent = 1..k
  BY LenProperties
<1>4. \A i \in 1..k : events[i] = Frame("StreamEvent", s, sent[i], "replay")
  BY <1>3
<1>5. DOMAIN events = 1..k
  BY <1>3
<1> HIDE DEF events, last, k
<1>6. frames = Append(events, last)
  <2>1. frames = events \o <<last>>
    BY DEF ReplayOf, events, last
  <2> QED
    BY <1>1, <1>2, <2>1, AppendIsConcat
<1>7. Len(events) = k
  <2>1. PICK m \in Nat : m = Len(events) /\ DOMAIN events = 1..m
    BY <1>1, LenProperties
  <2>2. 1..m = 1..k /\ k \in Nat
    BY <1>3, <1>5, <2>1
  <2>3. m = k
    BY <2>2
  <2> QED
    BY <2>1, <2>3
<1>8. /\ frames \in Seq(WireFrame) /\ Len(frames) = k + 1
      /\ \A i \in 1..k : frames[i] = events[i]
      /\ frames[k + 1] = last
  <2>1. /\ Append(events, last) \in Seq(WireFrame) /\ Len(Append(events, last)) = Len(events) + 1
        /\ \A i \in 1..Len(events) : Append(events, last)[i] = events[i]
        /\ Append(events, last)[Len(events) + 1] = last
    BY <1>1, <1>2, AppendProperties
  <2> QED
    BY <1>6, <1>7, <2>1
<1>9. \A i \in 1..k :
         /\ ~frames[i].stale /\ frames[i].tag = "StreamEvent"
         /\ frames[i].stream = s /\ frames[i].sequence = sent[i]
  <2> SUFFICES ASSUME NEW i \in 1..k
               PROVE  /\ ~frames[i].stale /\ frames[i].tag = "StreamEvent"
                      /\ frames[i].stream = s /\ frames[i].sequence = sent[i]
    OBVIOUS
  <2>1. frames[i] = Frame("StreamEvent", s, sent[i], "replay")
    BY <1>4, <1>8
  <2> QED
    BY <2>1 DEF Frame
<1> QED
  BY <1>2, <1>3, <1>8, <1>9 DEF k

\* The replay is in order, and behind what is shown; it ends with a cursor that a parked
\* event cannot pass again.
LEMMA DrainHandoffOrder ==
    ASSUME DeliveryInv, DeliveryInv', OrderInv, TurnGoesOn', DrainHandoff
    PROVE  OrderInv'
<1> DEFINE s == conn.resume.stream
           mark == conn.gate.highWater
           sent == HandedOff(conn.gate, conn.resume.through)
           high == IF sent = << >> THEN conn.gate.highWater ELSE sent[Len(sent)]
           frames == ReplayOf(sent, s, high)
           N == Len(toClient)
           k == Len(sent)
<1>1. /\ Resuming("drain") /\ Open /\ conn.resume.pc = "drain" /\ Serving
      /\ toClient' = toClient \o frames
      /\ conn' = [conn EXCEPT !.gate = NoGate, !.resume.pc = "terminal", !.resume.through = high]
      /\ UNCHANGED <<log, active, outbox, toServer, client>> /\ SameShown
  BY DEF DrainHandoff, Resuming, Open, Serving, Send, engine, SameShown, ReplayOf
<1>2. /\ TypeInv /\ Handoff /\ EngineType /\ toClient \in Seq(WireFrame)
      /\ conn \in Connection /\ conn.resume \in Resume
  BY DEF DeliveryInv, TypeInv, WireType, EndsType, Connection
<1>3. /\ ShownOnce /\ OrderOnWire /\ OrderAhead /\ ProbeFirst /\ OrderToCome
      /\ OneStream /\ GateHolds /\ CursorBehind /\ LoggedShown /\ LoggedWire /\ LoggedParked
  BY DEF OrderInv, WireOrder, HandoffOrder, Logged
<1>4. Probes = {} /\ Acks = {} /\ s \in Stream /\ s # None /\ conn.gate.stream = s
      /\ conn.probed = s
  <2>1. Probes = {} /\ Acks = {} /\ s \in Stream
    BY <1>1, <1>2, ServingAlone, ResumeStream
  <2>2. conn.gate.stream = s
    BY <1>1, <1>2 DEF Handoff, GateFollows, Open
  <2>3. conn.probed = s
    BY <1>1, <1>3 DEF OneStream
  <2>4. s # None
    BY <2>1 DEF Stream, None
  <2> QED
    BY <2>1, <2>2, <2>3, <2>4
<1>5. /\ sent \in Seq(0..MaxEvents) /\ high \in Cursor /\ mark <= high
      /\ \A i \in 1..k :
            /\ sent[i] \in Nat /\ mark < sent[i] /\ sent[i] <= high /\ sent[i] < log[s]
      /\ \A i, j \in 1..k : i < j => sent[i] < sent[j]
  BY <1>1, <1>2, <1>3, HandedOffOrder
<1> HIDE DEF sent, high
<1>6. /\ frames \in Seq(WireFrame) /\ k \in Nat /\ Len(frames) = k + 1
      /\ \A i \in 1..k :
            /\ ~frames[i].stale /\ frames[i].tag = "StreamEvent"
            /\ frames[i].stream = s /\ frames[i].sequence = sent[i]
      /\ ~frames[k + 1].stale /\ frames[k + 1].tag = "ResumeComplete"
      /\ frames[k + 1].stream = s /\ frames[k + 1].sequence = high
  BY <1>4, <1>5, ReplayFrames
<1>7. /\ conn'.gate.stream = None /\ conn'.resume.pc = "terminal" /\ conn'.resume.stream = s
      /\ conn'.probed = s /\ conn'.state = conn.state
  BY <1>1, <1>2, <1>4 DEF Connection, Resume, NoGate
<1> HIDE DEF frames, s, mark, k
<1>8. \A i \in 1..Len(frames) : ~frames[i].stale
  <2>1. \A i \in 1..(k + 1) : i \in 1..k \/ i = k + 1
    BY <1>6
  <2> QED
    BY <1>6, <2>1
<1>9. /\ N \in Nat /\ End = N + 1 /\ End' = N + k + 2
      /\ \A i \in Fresh : i \in Nat /\ 0 < i /\ i < End /\ i \in Fresh' /\ toClient'[i] = toClient[i]
      /\ \A i \in 1..k : /\ N + i \in Fresh' /\ toClient'[N + i] = frames[i]
      /\ N + k + 1 \in Fresh' /\ toClient'[N + k + 1] = frames[k + 1]
  <2>1. N \in Nat /\ End = N + 1 /\ End' = End + Len(frames)
    BY <1>1, <1>2, <1>6, <1>8, SentFrames
  <2>2. \A i \in Fresh : i \in Nat /\ 0 < i /\ i < End /\ i \in Fresh' /\ toClient'[i] = toClient[i]
    BY <1>1, <1>2, <1>6, <1>8, SentFrames, Zenon
  <2>3. \A i \in 1..Len(frames) : N + i \in Fresh' /\ toClient'[N + i] = frames[i]
    BY <1>1, <1>2, <1>6, <1>8, SentFrames, Zenon
  <2>4. (\A i \in 1..k : i \in 1..Len(frames)) /\ k + 1 \in 1..Len(frames) /\ N + k + 1 = N + (k + 1)
    BY <1>6, <2>1
  <2>5. End' = N + k + 2
    BY <1>6, <2>1
  <2> QED
    BY <2>1, <2>2, <2>3, <2>4, <2>5
<1>10. ASSUME NEW i \in Fresh', i \notin Fresh
       PROVE  i - N \in 1..(k + 1) /\ i = N + (i - N) /\ toClient'[i] = frames[i - N]
  <2>1. i \in Nat /\ i - N \in 1..Len(frames) /\ toClient'[i] = frames[i - N]
    BY <1>1, <1>2, <1>6, <1>8, <1>10, SentFrames, Zenon
  <2> QED
    BY <1>6, <1>9, <2>1
<1>11. ASSUME NEW i \in Fresh', i \notin Fresh, toClient'[i].tag = "StreamEvent"
       PROVE  /\ i - N \in 1..k /\ i = N + (i - N)
              /\ toClient'[i].stream = s /\ toClient'[i].sequence = sent[i - N]
  <2>1. i - N \in 1..(k + 1) /\ i = N + (i - N) /\ toClient'[i] = frames[i - N]
    BY <1>10, <1>11
  <2>2. i - N # k + 1
    BY <1>6, <1>11, <2>1
  <2>3. i - N \in 1..k
    BY <1>6, <2>1, <2>2
  <2> QED
    BY <1>6, <2>1, <2>3
<1>12. ASSUME NEW t, t # s PROVE Events(t)' = Events(t)
  <2>1. \A i \in Events(t)' : i \in Fresh
    BY <1>11, <1>12 DEF Events
  <2>2. \A i \in Events(t)' : i \in Fresh' /\ toClient'[i].tag = "StreamEvent" /\ toClient'[i].stream = t
    BY DEF Events
  <2>3. \A i \in Events(t)' : i \in Events(t)
    BY <1>9, <2>1, <2>2 DEF Events
  <2>4. \A i \in Events(t) : i \in Events(t)'
    BY <1>9 DEF Events
  <2> QED
    BY <2>3, <2>4
<1>13. ASSUME NEW i \in Events(s)'
       PROVE  /\ i - N \in 1..k /\ i = N + (i - N) /\ toClient'[i].sequence = sent[i - N]
  <2>1. i \in Fresh' /\ toClient'[i].tag = "StreamEvent" /\ toClient'[i].stream = s
    <3>1. s' = s
      BY <1>7 DEF s
    <3> QED
      BY <3>1 DEF Events
  <2>2. i \notin Fresh
    <3>1. Events(s) = {}
      BY <1>1, <1>3, <1>4 DEF GateHolds
    <3> QED
      BY <1>9, <2>1, <3>1 DEF Events
  <2> QED
    BY <1>11, <2>1, <2>2
<1>14. /\ \A i \in Nat, j \in Nat : Together(i, j)' => Together(i, j)
       /\ \A i \in Nat, j \in Nat : j >= End /\ Together(i, j)' => Together(i, End)
       /\ \A j \in Nat : \A t, n : j <= End /\ Seen(j, t, n) => Seen(j, t, n)'
       /\ \A t : Shown(t)' = Shown(t)
  BY <1>1, <1>2, <1>6, <1>8, SentBehind
<1>15. \A t : \A i \in Events(t) : i \in Nat /\ i <= End /\ toClient'[i] = toClient[i]
  <2>1. \A i \in Fresh : i \in Nat /\ i < End /\ toClient'[i] = toClient[i]
    BY <1>9
  <2>2. \A i \in Nat : i < End => i <= End
    BY <1>9
  <2> QED
    BY <2>1, <2>2 DEF Events
<1>16. \A x \in Shown(s) : client.recent[x][2] <= mark
  BY <1>1, <1>3 DEF CursorBehind, s, mark
<1>17. /\ mark \in Int /\ high \in Int /\ log[s] \in Int
       /\ \A t : \A x \in Shown(t) : client.recent[x][2] \in Int
  <2>1. mark \in Cursor /\ high \in Int
    BY <1>2, <1>5, Bounds DEF mark, Connection, Gate, Cursor, NoEvent
  <2>2. log[s] \in Int
    BY <1>2, <1>4 DEF EngineType
  <2>3. \A t : \A x \in Shown(t) : client.recent[x][2] \in Int
    <3>1. \A x \in DOMAIN client.recent : client.recent[x] \in Stream \X Nat
      BY <1>3, LenProperties DEF LoggedShown
    <3> QED
      BY <3>1 DEF Shown
  <2> QED
    BY <2>1, <2>2, <2>3, Bounds DEF Cursor, NoEvent
<1>18. OrderOnWire'
  <2> SUFFICES ASSUME NEW t \in Stream, NEW i \in Events(t)', NEW j \in Events(t)',
                      i < j, Together(i, j)'
               PROVE  \/ toClient'[i].sequence < toClient'[j].sequence
                      \/ Seen(j, t, toClient[j].sequence)'
    BY DEF OrderOnWire
  <2>1. CASE t # s
    <3>1. i \in Events(t) /\ j \in Events(t)
      BY <1>12, <2>1
    <3>2. i \in Nat /\ j \in Nat /\ j <= End /\ toClient'[i] = toClient[i] /\ toClient'[j] = toClient[j]
      BY <1>15, <3>1
    <3>3. toClient[i].sequence < toClient[j].sequence \/ Seen(j, t, toClient[j].sequence)
      BY <1>3, <1>14, <3>1, <3>2 DEF OrderOnWire
    <3> QED
      BY <1>14, <3>2, <3>3
  <2>2. CASE t = s
    <3>1. i \in Events(s)' /\ j \in Events(s)'
      <4>1. s' = s
        BY <1>7 DEF s
      <4> QED
        BY <2>2, <4>1
    <3>2. /\ i - N \in 1..k /\ i = N + (i - N) /\ toClient'[i].sequence = sent[i - N]
          /\ j - N \in 1..k /\ j = N + (j - N) /\ toClient'[j].sequence = sent[j - N]
      BY <1>13, <3>1
    <3>3. i - N < j - N
      <4>1. PICK a \in 1..k : a = i - N
        BY <3>2
      <4>2. PICK b \in 1..k : b = j - N
        BY <3>2
      <4> QED
        BY <1>6, <1>9, <3>2, <4>1, <4>2
    <3> QED
      BY <1>5, <3>2, <3>3 DEF k
  <2> QED
    BY <2>1, <2>2
<1>19. OrderAhead'
  <2> SUFFICES ASSUME NEW t \in Stream, NEW x \in Shown(t), NEW j \in Events(t)',
                      Together(0, j)'
               PROVE  \/ client.recent[x][2] < toClient'[j].sequence
                      \/ Seen(j, t, toClient[j].sequence)'
    BY <1>1, <1>14 DEF OrderAhead, SameShown
  <2>1. CASE t # s
    <3>1. j \in Events(t) /\ 0 \in Nat
      BY <1>12, <2>1
    <3>2. j \in Nat /\ j <= End /\ toClient'[j] = toClient[j]
      BY <1>15, <3>1
    <3>3. client.recent[x][2] < toClient[j].sequence \/ Seen(j, t, toClient[j].sequence)
      BY <1>3, <1>14, <3>1, <3>2 DEF OrderAhead
    <3> QED
      BY <1>14, <3>2, <3>3
  <2>2. CASE t = s
    <3>1. j \in Events(s)'
      <4>1. s' = s
        BY <1>7 DEF s
      <4> QED
        BY <2>2, <4>1
    <3>2. j - N \in 1..k /\ toClient'[j].sequence = sent[j - N]
      BY <1>13, <3>1
    <3>3. mark < sent[j - N] /\ sent[j - N] \in Nat
      BY <1>5, <3>2 DEF k, mark
    <3> QED
      BY <1>16, <1>17, <2>2, <3>2, <3>3
  <2> QED
    BY <2>1, <2>2
<1>20. Probes' = {}
  <2>1. \A i \in Probes' : i \in Fresh' /\ toClient'[i].tag = "ResumeProbe"
    BY DEF Probes, IsProbe, Fresh
  <2>2. \A i \in Fresh : i \in DOMAIN toClient /\ ~toClient[i].stale
    BY DEF Fresh
  <2>3. \A i \in Fresh : toClient'[i].tag # "ResumeProbe"
    BY <1>4, <1>9, <2>2 DEF Probes, IsProbe
  <2>4. ASSUME NEW i \in Fresh', i \notin Fresh PROVE toClient'[i].tag # "ResumeProbe"
    <3>1. i - N \in 1..(k + 1) /\ toClient'[i] = frames[i - N]
      BY <1>10, <2>4
    <3>2. i - N \in 1..k \/ i - N = k + 1
      BY <1>6, <3>1
    <3> QED
      BY <1>6, <3>1, <3>2
  <2> QED
    BY <2>1, <2>3, <2>4
<1>21. ShownOnce' /\ LoggedShown' /\ ProbeFirst'
  BY <1>1, <1>3, <1>20 DEF ShownOnce, LoggedShown, SameShown, ProbeFirst
<1>22. LoggedWire'
  <2> SUFFICES ASSUME NEW i \in Fresh', toClient'[i].tag = "StreamEvent"
               PROVE  /\ toClient'[i].stream # None /\ toClient'[i].sequence \in Nat
                      /\ toClient'[i].sequence < log[toClient'[i].stream]
    BY <1>1 DEF LoggedWire
  <2>1. CASE i \in Fresh
    BY <1>3, <1>9, <2>1 DEF LoggedWire
  <2>2. CASE i \notin Fresh
    BY <1>4, <1>5, <1>11, <2>2 DEF k, s
  <2> QED
    BY <2>1, <2>2
<1>23. OneStream' /\ GateHolds' /\ CursorBehind' /\ LoggedParked' /\ ~Awaiting'
  <2>1. Acks' = {} /\ conn'.resume.pc \notin {"replay", "drain"} /\ conn'.resume.stream = conn'.probed
    BY <1>1, <1>4, <1>7 DEF Acks
  <2> QED
    BY <1>7, <1>20, <2>1, HandoffOver
<1>24. OrderToCome'
  <2> DEFINE Done == Replayed(outbox)'
  <2> SUFFICES ASSUME outbox # NoEvent
               PROVE  /\ \A x \in Shown(active)' :
                            Together(0, End)' => client.recent[x][2] < outbox \/ Done
                      /\ \A i \in Events(active)' :
                            Together(i, End)' => toClient'[i].sequence < outbox \/ Done
    BY <1>1 DEF OrderToCome, SameShown
  <2>1. active \in Stream /\ outbox = log[active] - 1
    BY ToComeOpen
  <2>2. outbox \in Int
    BY <1>2, <2>1, LastType, Bounds DEF Cursor, NoEvent
  <2>3. Shown(active)' = Shown(active)
    BY <1>1 DEF Shown
  <2>4. CASE active # s
    <3>1. ~Replayed(outbox) /\ ~Gated(active)
      BY <1>1, <1>4, <2>4 DEF Replayed, Awaiting, Gated
    <3>2. Events(active)' = Events(active)
      <4>1. PICK t : t = active
        OBVIOUS
      <4>2. Events(t)' = Events(t)
        BY <1>12, <2>4, <4>1
      <4> QED
        BY <1>1, <4>1, <4>2
    <3>3. \A i \in Nat : Together(i, End)' => Together(i, End)
      <4>1. End \in Nat /\ End' \in Nat /\ End' >= End
        BY <1>6, <1>9
      <4> QED
        BY <1>14, <4>1
    <3>4. 0 \in Nat
      OBVIOUS
    <3> HIDE DEF Done
    <3> QED
      BY <1>1, <1>3, <1>15, <2>3, <3>1, <3>2, <3>3, <3>4 DEF OrderToCome
  <2>5. CASE active = s /\ high >= outbox
    <3> DEFINE f == N + k + 1
    <3>1. /\ f \in Fresh' /\ f \in Nat /\ f < End' /\ toClient'[f].tag = "ResumeComplete"
          /\ toClient'[f].stream = active' /\ toClient'[f].sequence >= outbox'
      BY <1>1, <1>6, <1>9, <2>5
    <3>2. \A i \in Fresh' : ~(f < i /\ i < End')
      <4>1. ASSUME NEW i \in Fresh' PROVE i \in Int
        BY <1>9, <1>10, <4>1
      <4>2. \A i \in Int : ~(N + k + 1 < i /\ i < N + k + 2)
        BY <1>6, <1>9
      <4> QED
        BY <1>9, <4>1, <4>2
    <3> HIDE DEF f
    <3>3. Seen(End, active, outbox)'
      BY <3>1, <3>2 DEF Seen, AllPass
    <3>4. conn'.probed = active'
      BY <1>1, <1>7, <2>5
    <3> QED
      BY <1>1, <1>23, <3>3, <3>4 DEF Replayed
  <2>6. CASE active = s /\ ~(high >= outbox)
    <3>1. high < outbox
      BY <1>17, <2>2, <2>6
    <3>2. ASSUME NEW x \in Shown(active)' PROVE client.recent[x][2] < outbox
      <4>1. client.recent[x][2] <= mark /\ client.recent[x][2] \in Int
        BY <1>16, <1>17, <2>3, <2>6
      <4> QED
        BY <1>5, <1>17, <2>2, <3>1, <4>1 DEF mark
    <3>3. ASSUME NEW i \in Events(active)' PROVE toClient'[i].sequence < outbox
      <4>1. i \in Events(s)'
        <5>1. s' = active'
          BY <1>1, <1>7, <2>6 DEF s
        <5> QED
          BY <5>1
      <4>2. i - N \in 1..k /\ toClient'[i].sequence = sent[i - N]
        BY <1>13, <4>1
      <4>3. sent[i - N] \in Nat /\ sent[i - N] <= high
        BY <1>5, <4>2 DEF k
      <4> QED
        BY <1>17, <2>2, <3>1, <4>2, <4>3
    <3> QED
      BY <3>2, <3>3
  <2> QED
    BY <2>4, <2>5, <2>6
<1> QED
  BY <1>18, <1>19, <1>21, <1>22, <1>23, <1>24 DEF OrderInv, WireOrder, HandoffOrder, Logged

-----------------------------------------------------------------------------
(* Frames that are applied *)

\* The first frame is taken, the others move up.
LEMMA TakenFrames ==
    ASSUME toClient \in Seq(WireFrame), toClient # << >>, toClient' = Tail(toClient)
    PROVE  /\ Head(toClient) = toClient[1] /\ toClient[1] \in WireFrame
           /\ 1 \in Fresh <=> ~toClient[1].stale
           /\ End \in Nat /\ End' \in Nat /\ End = End' + 1 /\ 1 <= End'
           /\ \A i \in Fresh : i \in Nat /\ 1 <= i /\ i < End
           /\ \A i \in Fresh : i # 1 => i - 1 \in Fresh' /\ toClient'[i - 1] = toClient[i]
           /\ \A i \in Fresh' : i \in Nat /\ 1 <= i
           /\ \A i \in Fresh' : i + 1 \in Fresh /\ toClient'[i] = toClient[i + 1]
<1> DEFINE N == Len(toClient)
<1>1. /\ N \in Nat \ {0} /\ DOMAIN toClient = 1..N
      /\ Head(toClient) = toClient[1] /\ Head(toClient) \in WireFrame
      /\ Len(toClient') = N - 1 /\ DOMAIN toClient' = 1..(N - 1)
      /\ \A i \in 1..(N - 1) : toClient'[i] = toClient[i + 1]
  BY HeadTailProperties, LenProperties, EmptySeq
<1>2. End = N + 1 /\ End' = N
  BY <1>1 DEF End
<1> HIDE DEF N
<1>3. 1 \in 1..N
  BY <1>1
<1>4. \A i \in Fresh : i \in 1..N /\ ~toClient[i].stale
  BY <1>1 DEF Fresh
<1>5. \A i \in Fresh' : i \in 1..(N - 1) /\ ~toClient'[i].stale
  BY <1>1 DEF Fresh
<1>6. ASSUME NEW i \in Fresh, i # 1 PROVE i - 1 \in Fresh' /\ toClient'[i - 1] = toClient[i]
  <2>1. i \in 1..N /\ ~toClient[i].stale
    BY <1>4
  <2>2. i - 1 \in 1..(N - 1) /\ i = (i - 1) + 1
    BY <1>1, <1>6, <2>1
  <2>3. toClient'[i - 1] = toClient[i]
    BY <1>1, <2>2
  <2> QED
    BY <1>1, <2>1, <2>2, <2>3 DEF Fresh
<1>7. ASSUME NEW i \in Fresh' PROVE i + 1 \in Fresh /\ toClient'[i] = toClient[i + 1]
  <2>1. i \in 1..(N - 1) /\ ~toClient'[i].stale
    BY <1>5
  <2>2. i + 1 \in 1..N
    BY <1>1, <2>1
  <2>3. toClient'[i] = toClient[i + 1]
    BY <1>1, <2>1
  <2> QED
    BY <1>1, <2>1, <2>2, <2>3 DEF Fresh
<1>8. \A i \in Fresh : i \in Nat /\ 1 <= i /\ i < End
  BY <1>1, <1>2, <1>4
<1>9. \A i \in Fresh' : i \in Nat /\ 1 <= i
  BY <1>1, <1>5
<1>10. End \in Nat /\ End' \in Nat /\ End = End' + 1 /\ 1 <= End'
  BY <1>1, <1>2
<1>11. 1 \in Fresh <=> ~toClient[1].stale
  BY <1>1, <1>3 DEF Fresh
<1> QED
  BY <1>1, <1>6, <1>7, <1>8, <1>9, <1>10, <1>11

\* So do the events, and what lies between two of them.
LEMMA TakenBehind ==
    ASSUME toClient \in Seq(WireFrame), toClient # << >>, toClient' = Tail(toClient)
    PROVE  /\ \A s : \A i \in Events(s)' :
                 /\ i \in Nat /\ 1 <= i /\ i + 1 \in Nat /\ i + 1 \in Events(s)
                 /\ toClient'[i] = toClient[i + 1]
           /\ \A i \in Nat, j \in Nat : Together(i, j)' => Together(i + 1, j + 1)
           /\ 1 \notin Forgetting => \A j \in Nat : Together(0, j)' => Together(0, j + 1)
           /\ \A i \in Probes' : i \in Nat /\ 1 <= i /\ i + 1 \in Probes /\ toClient'[i] = toClient[i + 1]
<1>1. /\ \A i \in Fresh : i \in Nat /\ 1 <= i /\ i < End
      /\ \A i \in Fresh : i # 1 => i - 1 \in Fresh' /\ toClient'[i - 1] = toClient[i]
      /\ \A i \in Fresh' : i \in Nat /\ 1 <= i
      /\ \A i \in Fresh' : i + 1 \in Fresh /\ toClient'[i] = toClient[i + 1]
  BY TakenFrames
<1>2. \A s : \A i \in Events(s)' :
         i \in Nat /\ 1 <= i /\ i + 1 \in Nat /\ i + 1 \in Events(s) /\ toClient'[i] = toClient[i + 1]
  <2>1. \A i \in Fresh' : i + 1 \in Nat
    BY <1>1
  <2> QED
    BY <1>1, <2>1 DEF Events
<1>3. \A k \in Forgetting : k \in Nat /\ (k # 1 => k - 1 \in Forgetting')
  BY <1>1 DEF Forgetting
<1>4. ASSUME NEW i \in Nat, NEW j \in Nat, NEW k \in Forgetting, k # 1, i < k - 1, k < j + 1
      PROVE  ~Together(i, j)'
  <2>1. k - 1 \in Forgetting' /\ k \in Nat
    BY <1>3, <1>4
  <2>2. k - 1 < j
    BY <1>4, <2>1
  <2> QED
    BY <1>4, <2>1, <2>2 DEF Together
<1>5. ASSUME NEW i \in Nat, NEW j \in Nat, Together(i, j)' PROVE Together(i + 1, j + 1)
  <2> SUFFICES ASSUME NEW k \in Forgetting, i + 1 < k, k < j + 1 PROVE FALSE
    BY DEF Together
  <2>1. k \in Nat
    BY <1>3
  <2>2. k # 1 /\ i < k - 1
    BY <1>5, <2>1
  <2> QED
    BY <1>4, <1>5, <2>2
<1>6. ASSUME 1 \notin Forgetting, NEW j \in Nat, Together(0, j)' PROVE Together(0, j + 1)
  <2> SUFFICES ASSUME NEW k \in Forgetting, 0 < k, k < j + 1 PROVE FALSE
    BY DEF Together
  <2>1. k \in Nat /\ k # 1
    BY <1>3, <1>6
  <2>2. 0 \in Nat /\ 0 < k - 1
    BY <2>1
  <2> QED
    BY <1>4, <1>6, <2>1, <2>2
<1>7. \A i \in Probes' : i \in Nat /\ 1 <= i /\ i + 1 \in Probes /\ toClient'[i] = toClient[i + 1]
  <2>1. \A i \in Probes' : i \in Fresh' /\ toClient'[i].tag = "ResumeProbe"
    BY DEF Probes, IsProbe, Fresh
  <2>2. \A i \in Fresh : toClient[i].tag = "ResumeProbe" => i \in Probes
    BY DEF Probes, IsProbe, Fresh
  <2> QED
    BY <1>1, <2>1, <2>2
<1> QED
  BY <1>2, <1>5, <1>6, <1>7

\* A cursor that will have been reached still will be.
LEMMA SeenTaken ==
    ASSUME toClient \in Seq(WireFrame), toClient # << >>, toClient' = Tail(toClient),
           NEW s, NEW n, NEW j \in Nat, 1 <= j, Seen(j + 1, s, n),
           client.stream = s /\ (1 \in Fresh => Passes(toClient[1], s))
              => client'.stream = s /\ client'.lastSequence = client.lastSequence,
           1 \in Fresh /\ toClient[1].tag = "ResumeComplete"
              => client'.stream = toClient[1].stream /\ client'.lastSequence = toClient[1].sequence
    PROVE  Seen(j, s, n)'
<1>1. /\ \A i \in Fresh : i \in Nat /\ 1 <= i /\ i < End
      /\ \A i \in Fresh : i # 1 => i - 1 \in Fresh' /\ toClient'[i - 1] = toClient[i]
      /\ \A i \in Fresh' : i \in Nat /\ 1 <= i
      /\ \A i \in Fresh' : i + 1 \in Fresh /\ toClient'[i] = toClient[i + 1]
  BY TakenFrames
<1>2. ASSUME NEW i \in Nat, AllPass(i, j + 1, s), NEW m \in Nat, i <= m + 1
      PROVE  AllPass(m, j, s)'
  <2> SUFFICES ASSUME NEW k \in Fresh', m < k, k < j PROVE Passes(toClient'[k], s)
    BY DEF AllPass
  <2>1. k + 1 \in Fresh /\ toClient'[k] = toClient[k + 1] /\ k \in Nat
    BY <1>1
  <2>2. i < k + 1 /\ k + 1 < j + 1
    BY <1>2, <2>1
  <2> QED
    BY <1>2, <2>1, <2>2 DEF AllPass
<1>3. CASE client.stream = s /\ client.lastSequence >= n /\ AllPass(0, j + 1, s)
  <2>1. 1 \in Fresh => Passes(toClient[1], s)
    <3>1. 0 < 1 /\ 1 < j + 1
      OBVIOUS
    <3> QED
      BY <1>3, <3>1 DEF AllPass
  <2>2. AllPass(0, j, s)'
    <3>1. 0 \in Nat /\ 0 <= 0 + 1
      OBVIOUS
    <3> QED
      BY <1>2, <1>3, <3>1
  <2> QED
    BY <1>3, <2>1, <2>2 DEF Seen
<1>4. ASSUME NEW i \in Fresh, i < j + 1, toClient[i].tag = "ResumeComplete",
             toClient[i].stream = s, toClient[i].sequence >= n, AllPass(i, j + 1, s)
      PROVE  Seen(j, s, n)'
  <2>1. i \in Nat /\ 1 <= i
    BY <1>1
  <2>2. CASE i = 1
    <3>1. client'.stream = s /\ client'.lastSequence >= n
      BY <1>4, <2>2
    <3>2. AllPass(0, j, s)'
      <4>1. 0 \in Nat /\ 1 \in Nat /\ 1 <= 0 + 1
        OBVIOUS
      <4> QED
        BY <1>2, <1>4, <2>2, <4>1
    <3> QED
      BY <3>1, <3>2 DEF Seen
  <2>3. CASE i # 1
    <3> DEFINE m == i - 1
    <3>1. m \in Fresh' /\ toClient'[m] = toClient[i]
      BY <1>1, <2>3
    <3>2. m \in Nat /\ i <= m + 1 /\ m < j
      BY <1>4, <2>1
    <3> HIDE DEF m
    <3>3. AllPass(m, j, s)'
      BY <1>2, <1>4, <2>1, <3>2
    <3> QED
      BY <1>4, <3>1, <3>2, <3>3 DEF Seen
  <2> QED
    BY <2>2, <2>3
<1> QED
  BY <1>3, <1>4 DEF Seen

\* What the client shows after a frame.
LEMMA AppliedShows ==
    ASSUME NEW c, c \in Showing(c.recent), NEW frame \in WireFrame,
           NEW d, d = Applied(c, frame)
    PROVE  /\ frame.tag = "ResumeProbe" => d.recent = Remembered(c, frame)
           /\ frame.tag = "TurnAccepted" => d.recent = << >>
           /\ frame.tag = "StreamEvent" =>
                 \/ d = c
                 \/ /\ frame.sequence = HighWater(c, frame.stream) + 1
                    /\ d.recent = Append(c.recent, <<frame.stream, frame.sequence>>)
           /\ frame.tag \notin {"ResumeProbe", "TurnAccepted", "StreamEvent"} =>
                 d.recent = c.recent
           /\ frame.tag = "ResumeComplete" =>
                 d.stream = frame.stream /\ d.lastSequence = frame.sequence
           /\ frame.tag = "Recovering" =>
                 d.stream = frame.stream /\ d.lastSequence = c.lastSequence
           /\ frame.tag = "ProtocolError" => d = c
<1>1. CASE frame.tag = "ResumeProbe"
  <2>1. d = OnProbe(c, frame)
    BY <1>1 DEF Applied
  <2>2. OnProbe(c, frame).recent = Remembered(c, frame)
    BY DEF OnProbe, Showing
  <2> QED
    BY <1>1, <2>1, <2>2
<1>2. CASE frame.tag = "TurnAccepted"
  <2>1. d = OnAccepted(c, frame)
    BY <1>2 DEF Applied
  <2> QED
    BY <1>2, <2>1 DEF OnAccepted, Showing
<1>3. CASE frame.tag = "StreamEvent"
  <2>1. d = OnEvent(c, frame)
    BY <1>3 DEF Applied
  <2>2. Extended(c, frame).recent = Append(c.recent, <<frame.stream, frame.sequence>>)
    BY DEF Extended, Showing
  <2> QED
    BY <1>3, <2>1, <2>2 DEF OnEvent
<1>4. CASE frame.tag = "ResumeComplete"
  <2>1. d = OnComplete(c, frame)
    BY <1>4 DEF Applied
  <2> QED
    BY <1>4, <2>1 DEF OnComplete, Showing
<1>5. CASE frame.tag = "Recovering"
  <2>1. d = OnRecovering(c, frame)
    BY <1>5 DEF Applied
  <2> QED
    BY <1>5, <2>1 DEF OnRecovering, Showing
<1>6. CASE frame.tag = "StreamTerminal"
  <2>1. d = OnTerminal(c, frame)
    BY <1>6 DEF Applied
  <2> QED
    BY <1>6, <2>1 DEF OnTerminal, Showing
<1>7. CASE frame.tag = "ProtocolError"
  <2>1. d = c
    BY <1>7 DEF Applied
  <2> QED
    BY <1>7, <2>1
<1>8. frame.tag \in {"ResumeProbe", "TurnAccepted", "StreamEvent", "ResumeComplete", "Recovering",
                     "StreamTerminal", "ProtocolError"}
  BY DEF WireFrame, ServerFrame
<1> QED
  BY <1>1, <1>2, <1>3, <1>4, <1>5, <1>6, <1>7, <1>8

\* Some of the shown events, in their order: of stream s, up to event n.
PartOf(left, shown, s, n) ==
    /\ left \in Seq(Stream \X Nat)
    /\ \A x \in DOMAIN left : \E y \in DOMAIN shown :
          left[x] = shown[y] /\ left[x][1] = s /\ left[x][2] <= n
    /\ \A x1, x2 \in DOMAIN left : x1 < x2 =>
          \E y1, y2 \in DOMAIN shown : y1 < y2 /\ left[x1] = shown[y1] /\ left[x2] = shown[y2]

\* A probe leaves of what was shown the events of its stream up to the cursor, in order.
LEMMA RememberedShows ==
    ASSUME NEW c, c.recent \in Seq(Stream \X Nat), NEW frame,
           NEW left, left = Remembered(c, frame)
    PROVE  PartOf(left, c.recent, frame.stream, Clamped(c, frame))
<1> DEFINE K == {i \in DOMAIN c.recent :
                    /\ c.recent[i][1] = c.stream /\ c.stream = frame.stream
                    /\ c.recent[i][2] <= Clamped(c, frame)}
           kept == Ascending(K)
           k == Cardinality(K)
<1>1. left = [i \in DOMAIN kept |-> c.recent[kept[i]]]
  BY DEF Remembered
<1>2. K \subseteq DOMAIN c.recent /\ DOMAIN c.recent = 1..Len(c.recent) /\ Len(c.recent) \in Nat
      /\ \A i \in DOMAIN c.recent : c.recent[i] \in Stream \X Nat
  BY LenProperties
<1>3. \A i \in K : c.recent[i][1] = frame.stream /\ c.recent[i][2] <= Clamped(c, frame)
  OBVIOUS
<1> HIDE DEF K
<1>4. K \subseteq Int /\ IsFiniteSet(K)
  <2>1. IsFiniteSet(1..Len(c.recent)) /\ 1..Len(c.recent) \subseteq Int
    BY <1>2, FS_Interval
  <2>2. K \subseteq 1..Len(c.recent)
    BY <1>2
  <2> QED
    BY <2>1, <2>2, FS_Subset
<1>5. k \in Nat /\ kept \in [1..k -> K] /\ \A i, j \in 1..k : i < j => kept[i] < kept[j]
  BY <1>4, AscendingOrder
<1> HIDE DEF kept, k
<1>6. left = [i \in 1..k |-> c.recent[kept[i]]]
  BY <1>1, <1>5
<1>7. DOMAIN left = 1..k /\ \A i \in 1..k : left[i] = c.recent[kept[i]] /\ kept[i] \in K
  BY <1>5, <1>6
<1>8. left \in Seq(Stream \X Nat)
  <2>1. left \in [1..k -> Stream \X Nat]
    BY <1>2, <1>5, <1>6, <1>7
  <2> QED
    BY <1>5, <2>1, SeqDef
<1>9. ASSUME NEW x \in DOMAIN left
      PROVE  \E y \in DOMAIN c.recent :
                 /\ left[x] = c.recent[y]
                 /\ left[x][1] = frame.stream /\ left[x][2] <= Clamped(c, frame)
  <2>1. kept[x] \in K /\ left[x] = c.recent[kept[x]]
    BY <1>7
  <2>2. kept[x] \in DOMAIN c.recent
    BY <1>2, <2>1
  <2> QED
    BY <1>3, <2>1, <2>2
<1>10. ASSUME NEW x1 \in DOMAIN left, NEW x2 \in DOMAIN left, x1 < x2
       PROVE  \E y1, y2 \in DOMAIN c.recent :
                  y1 < y2 /\ left[x1] = c.recent[y1] /\ left[x2] = c.recent[y2]
  <2>1. kept[x1] < kept[x2] /\ left[x1] = c.recent[kept[x1]] /\ left[x2] = c.recent[kept[x2]]
    BY <1>5, <1>7, <1>10
  <2>2. kept[x1] \in DOMAIN c.recent /\ kept[x2] \in DOMAIN c.recent
    BY <1>2, <1>7
  <2> QED
    BY <2>1, <2>2
<1> QED
  BY <1>8, <1>9, <1>10 DEF PartOf


\* A fresh frame is applied; the socket is closed, the probe acknowledged, or neither.
LEMMA AppliedFrame ==
    ASSUME DeliveryInv, Apply, 1 \in Fresh, NEW frame, frame = toClient[1],
           NEW d, d = Applied(client, frame)
    PROVE  /\ frame \in WireFrame
           /\ client'.recent = d.recent /\ client'.stream = d.stream
           /\ client'.lastSequence = d.lastSequence
           /\ \/ conn' = Disconnected
              \/ /\ UNCHANGED <<conn, toServer>>
                 /\ frame.tag = "ResumeProbe" => client.socket # "open"
              \/ /\ conn' = conn /\ frame.tag = "ResumeProbe"
                 /\ toServer' = Append(toServer,
                       Frame("ResumeAck", frame.stream, Clamped(client, frame), ""))
<1>1. toClient # << >> /\ toClient' = Tail(toClient) /\ toClient \in Seq(WireFrame)
  BY DEF Apply, DeliveryInv, TypeInv, WireType
<1>2. frame = Head(toClient) /\ frame \in WireFrame /\ ~frame.stale
  BY <1>1, TakenFrames
<1> DEFINE closes == Gap(client, frame) \/ frame.info = "close"
           attempts == IF frame.tag = "ResumeComplete" THEN 0 ELSE d.attempts
           socket == IF closes THEN "closing" ELSE d.socket
<1>3. /\ client' = [d EXCEPT !.attempts = attempts, !.socket = socket]
      /\ conn' = IF closes THEN Disconnected ELSE conn
      /\ toServer' =
           IF closes THEN << >>
           ELSE IF frame.tag = "ResumeProbe" /\ client.socket = "open"
           THEN Append(toServer, Frame("ResumeAck", frame.stream, Clamped(client, frame), ""))
           ELSE toServer
  BY <1>2 DEF Apply
<1> HIDE DEF closes, attempts, socket
<1>4. d \in Showing(d.recent)
  BY <1>2, AppliedType DEF DeliveryInv, TypeInv, EndsType
<1>5. /\ client'.recent = d.recent /\ client'.stream = d.stream
      /\ client'.lastSequence = d.lastSequence
  BY <1>3, <1>4 DEF Showing
<1> QED
  BY <1>2, <1>3, <1>5

\* A stale frame is dropped.
LEMMA DroppedFrame ==
    ASSUME DeliveryInv, Apply, 1 \notin Fresh
    PROVE  SameShown /\ UNCHANGED <<conn, toServer>>
<1>1. toClient # << >> /\ toClient' = Tail(toClient) /\ toClient \in Seq(WireFrame)
  BY DEF Apply, DeliveryInv, TypeInv, WireType
<1>2. Head(toClient).stale
  BY <1>1, TakenFrames DEF WireFrame, ServerFrame
<1> QED
  BY <1>2 DEF Apply, SameShown

\* Whichever it is, a cursor that will have been reached still will be.
LEMMA AppliedSeen ==
    ASSUME DeliveryInv, Apply
    PROVE  \A s, n : \A j \in Nat : 1 <= j /\ Seen(j + 1, s, n) => Seen(j, s, n)'
<1>1. toClient # << >> /\ toClient' = Tail(toClient) /\ toClient \in Seq(WireFrame)
  BY DEF Apply, DeliveryInv, TypeInv, WireType
<1>2. client \in Showing(client.recent)
  BY DEF DeliveryInv, TypeInv, EndsType
<1> TAKE s, n
<1> TAKE j \in Nat
<1> SUFFICES ASSUME 1 <= j, Seen(j + 1, s, n) PROVE Seen(j, s, n)'
  OBVIOUS
<1>3. CASE 1 \notin Fresh
  <2>1. SameShown
    BY <1>3, DroppedFrame
  <2> QED
    BY <1>1, <1>3, <2>1, SeenTaken DEF SameShown
<1>4. CASE 1 \in Fresh
  <2>1. PICK frame : frame = toClient[1]
    OBVIOUS
  <2>2. PICK d : d = Applied(client, frame)
    OBVIOUS
  <2>3. /\ frame \in WireFrame /\ client'.stream = d.stream
        /\ client'.lastSequence = d.lastSequence
    BY <1>4, <2>1, <2>2, AppliedFrame
  <2>4. /\ frame.tag = "ResumeComplete" =>
              d.stream = frame.stream /\ d.lastSequence = frame.sequence
        /\ frame.tag = "Recovering" =>
              d.stream = frame.stream /\ d.lastSequence = client.lastSequence
        /\ frame.tag = "ProtocolError" => d = client
    BY <1>2, <2>2, <2>3, AppliedShows
  <2>5. client.stream = s /\ Passes(frame, s)
           => client'.stream = s /\ client'.lastSequence = client.lastSequence
    BY <2>3, <2>4 DEF Passes
  <2> QED
    BY <1>1, <1>4, <2>1, <2>3, <2>4, <2>5, SeenTaken
<1> QED
  BY <1>3, <1>4

\* What is on the way behind the frame stays in order.
LEMMA AppliedWire ==
    ASSUME DeliveryInv, OrderInv, Apply
    PROVE  OrderOnWire' /\ ProbeFirst' /\ LoggedWire'
<1>1. /\ toClient # << >> /\ toClient' = Tail(toClient) /\ toClient \in Seq(WireFrame)
      /\ log' = log
  BY DEF Apply, DeliveryInv, TypeInv, WireType, engine
<1>2. OrderOnWire /\ ProbeFirst /\ LoggedWire
  BY DEF OrderInv, WireOrder, Logged
<1>3. \A s : \A i \in Events(s)' :
         /\ i \in Nat /\ 1 <= i /\ i + 1 \in Nat /\ i + 1 \in Events(s)
         /\ toClient'[i] = toClient[i + 1]
  BY <1>1, TakenBehind
<1>4. OrderOnWire'
  <2> SUFFICES ASSUME NEW s \in Stream, NEW i \in Events(s)', NEW j \in Events(s)',
                      i < j, Together(i, j)'
               PROVE  \/ toClient'[i].sequence < toClient'[j].sequence
                      \/ Seen(j, s, toClient[j].sequence)'
    BY DEF OrderOnWire
  <2>1. /\ i \in Nat /\ i + 1 \in Nat /\ i + 1 \in Events(s) /\ toClient'[i] = toClient[i + 1]
        /\ j \in Nat /\ 1 <= j /\ j + 1 \in Events(s) /\ toClient'[j] = toClient[j + 1]
    BY <1>3
  <2>2. Together(i + 1, j + 1)
    BY <1>1, <2>1, TakenBehind
  <2>3. i + 1 < j + 1
    BY <2>1
  <2>4. \/ toClient[i + 1].sequence < toClient[j + 1].sequence
        \/ Seen(j + 1, s, toClient[j + 1].sequence)
    BY <1>2, <2>1, <2>2, <2>3 DEF OrderOnWire
  <2> QED
    BY <2>1, <2>4, AppliedSeen
<1>5. ProbeFirst'
  <2>1. \A i \in Probes' : i + 1 \in Probes /\ toClient'[i] = toClient[i + 1]
    BY <1>1, TakenBehind
  <2>2. \A i \in Probes' : Events(toClient'[i].stream) = {}
    BY <1>2, <2>1 DEF ProbeFirst
  <2>3. \A s : Events(s) = {} => Events(s)' = {}
    BY <1>3
  <2> QED
    BY <2>2, <2>3 DEF ProbeFirst
<1>6. LoggedWire'
  <2>1. \A i \in Fresh' : i + 1 \in Fresh /\ toClient'[i] = toClient[i + 1]
    BY <1>1, TakenFrames
  <2> QED
    BY <1>1, <1>2, <2>1 DEF LoggedWire
<1> QED
  BY <1>4, <1>5, <1>6

\* Nothing changes of what is shown, nothing is left of it, a part of the probe's stream
\* is, or the event is shown that is next.
LEMMA AppliedKinds ==
    ASSUME DeliveryInv, OrderInv, Apply
    PROVE  \/ 1 \notin Forgetting /\ client'.recent = client.recent
           \/ client'.recent = << >>
           \/ 1 \in Probes /\ client'.recent = Remembered(client, toClient[1])
           \/ \E s \in Stream, n \in Nat :
                 /\ 1 \in Events(s) /\ 1 \notin Forgetting /\ toClient[1].sequence = n
                 /\ n < log[s] /\ ~Seen(1, s, n)
                 /\ client'.recent = Append(client.recent, <<s, n>>)
<1>1. toClient # << >> /\ toClient' = Tail(toClient) /\ toClient \in Seq(WireFrame)
  BY DEF Apply, DeliveryInv, TypeInv, WireType
<1>2. client \in Showing(client.recent)
  BY DEF DeliveryInv, TypeInv, EndsType
<1>3. CASE 1 \notin Fresh
  BY <1>3, DroppedFrame DEF SameShown, Forgetting
<1>4. CASE 1 \in Fresh
  <2>1. PICK frame : frame = toClient[1]
    OBVIOUS
  <2>2. PICK d : d = Applied(client, frame)
    OBVIOUS
  <2>3. frame \in WireFrame /\ client'.recent = d.recent
    BY <1>4, <2>1, <2>2, AppliedFrame
  <2>4. /\ frame.tag = "ResumeProbe" => d.recent = Remembered(client, frame)
        /\ frame.tag = "TurnAccepted" => d.recent = << >>
        /\ frame.tag = "StreamEvent" =>
              \/ d = client
              \/ /\ frame.sequence = HighWater(client, frame.stream) + 1
                 /\ d.recent = Append(client.recent, <<frame.stream, frame.sequence>>)
        /\ frame.tag \notin {"ResumeProbe", "TurnAccepted", "StreamEvent"} =>
              d.recent = client.recent
    BY <1>2, <2>2, <2>3, AppliedShows
  <2>5. CASE frame.tag \notin {"ResumeProbe", "TurnAccepted", "StreamEvent"}
    BY <2>1, <2>3, <2>4, <2>5 DEF Forgetting
  <2>6. CASE frame.tag = "TurnAccepted"
    BY <2>3, <2>4, <2>6
  <2>7. CASE frame.tag = "ResumeProbe"
    <3>1. 1 \in Probes
      BY <1>4, <2>1, <2>7 DEF Probes, IsProbe, Fresh
    <3> QED
      BY <2>1, <2>3, <2>4, <2>7, <3>1
  <2>8. CASE frame.tag = "StreamEvent" /\ d = client
    BY <2>1, <2>3, <2>8 DEF Forgetting
  <2>9. CASE /\ frame.tag = "StreamEvent"
             /\ frame.sequence = HighWater(client, frame.stream) + 1
             /\ d.recent = Append(client.recent, <<frame.stream, frame.sequence>>)
    <3>1. PICK s, n : s = frame.stream /\ n = frame.sequence
      OBVIOUS
    <3>2. s \in Stream /\ n \in Nat /\ n < log[s]
      BY <1>4, <2>1, <2>3, <2>9, <3>1
         DEF OrderInv, Logged, LoggedWire, WireFrame, ServerFrame
    <3>3. 1 \in Events(s) /\ 1 \notin Forgetting
      BY <1>4, <2>1, <2>9, <3>1 DEF Events, Forgetting
    <3>4. ~Seen(1, s, n)
      <4>1. ~(client.stream = s /\ client.lastSequence >= n)
        <5>1. client.lastSequence \in Int
          BY <1>2, Bounds DEF Showing, Cursor, NoEvent
        <5>2. client.stream = s => n = client.lastSequence + 1
          BY <2>9, <3>1 DEF HighWater
        <5> QED
          BY <5>1, <5>2
      <4>2. \A i \in Fresh : ~(i < 1)
        <5>1. \A i \in Fresh : i \in Nat /\ 1 <= i
          BY <1>1, TakenFrames
        <5> QED
          BY <5>1
      <4> QED
        BY <4>1, <4>2 DEF Seen
    <3> QED
      BY <2>1, <2>3, <2>9, <3>1, <3>2, <3>3, <3>4
  <2> QED
    BY <2>4, <2>5, <2>6, <2>7, <2>8, <2>9
<1> QED
  BY <1>3, <1>4


\* What is shown stays as it was: the frames behind lose nothing by it.
LEMMA ShownStill ==
    ASSUME DeliveryInv, OrderInv, Apply, NEW s \in Stream, NEW x \in Shown(s),
           NEW j \in Events(s)', Together(0, j)', 1 \notin Forgetting
    PROVE  \/ client.recent[x][2] < toClient'[j].sequence
           \/ Seen(j, s, toClient[j].sequence)'
<1>1. toClient # << >> /\ toClient' = Tail(toClient) /\ toClient \in Seq(WireFrame)
  BY DEF Apply, DeliveryInv, TypeInv, WireType
<1>2. /\ j \in Nat /\ 1 <= j /\ j + 1 \in Events(s) /\ toClient'[j] = toClient[j + 1]
  BY <1>1, TakenBehind
<1>3. Together(0, j + 1)
  BY <1>1, <1>2, TakenBehind
<1>4. client.recent[x][2] < toClient[j + 1].sequence \/ Seen(j + 1, s, toClient[j + 1].sequence)
  BY <1>2, <1>3 DEF OrderInv, WireOrder, OrderAhead
<1> QED
  BY <1>2, <1>4, AppliedSeen

\* The next event is shown behind all there is of its stream.
LEMMA ShownNext ==
    ASSUME DeliveryInv, OrderInv, Apply, NEW s \in Stream, NEW n \in Nat,
           1 \in Events(s), 1 \notin Forgetting, toClient[1].sequence = n,
           n < log[s], ~Seen(1, s, n), client'.recent = Append(client.recent, <<s, n>>)
    PROVE  ShownOnce' /\ OrderAhead' /\ LoggedShown'
<1>1. /\ toClient # << >> /\ toClient' = Tail(toClient) /\ toClient \in Seq(WireFrame)
      /\ log' = log
  BY DEF Apply, DeliveryInv, TypeInv, WireType, engine
<1>2. ShownOnce /\ OrderOnWire /\ OrderAhead /\ LoggedShown
  BY DEF OrderInv, WireOrder, Logged
<1>3. \A x \in Shown(s) : client.recent[x][2] < n
  <2>1. \A k \in Forgetting : ~(0 < k /\ k < 1)
    <3>1. \A k \in Fresh : k \in Nat
      BY <1>1, TakenFrames
    <3> QED
      BY <3>1 DEF Forgetting
  <2>2. Together(0, 1)
    BY <2>1 DEF Together
  <2> QED
    BY <1>2, <2>2 DEF OrderAhead
<1> DEFINE L == Len(client.recent)
           new == <<s, n>>
<1>4. /\ new \in Stream \X Nat /\ new[1] = s /\ new[2] = n
      /\ client.recent \in Seq(Stream \X Nat)
  BY <1>2 DEF LoggedShown
<1>5. /\ client'.recent \in Seq(Stream \X Nat)
      /\ L \in Nat /\ DOMAIN client.recent = 1..L /\ DOMAIN client'.recent = 1..(L + 1)
      /\ \A x \in 1..L : client'.recent[x] = client.recent[x]
      /\ client'.recent[L + 1] = new
  BY <1>4, AppendProperties, LenProperties
<1> HIDE DEF L, new
<1>6. \A x \in DOMAIN client'.recent :
         \/ x \in DOMAIN client.recent /\ client'.recent[x] = client.recent[x]
         \/ x = L + 1 /\ client'.recent[x] = new
  BY <1>5
<1>7. \A x \in DOMAIN client'.recent : x \in Nat /\ x <= L + 1
  BY <1>5
<1>8. ShownOnce'
  <2> SUFFICES ASSUME NEW x \in DOMAIN client'.recent, NEW y \in DOMAIN client'.recent, x < y,
                      client'.recent[x][1] = client'.recent[y][1]
               PROVE  client'.recent[x][2] < client'.recent[y][2]
    BY DEF ShownOnce
  <2>1. x # L + 1
    BY <1>5, <1>7
  <2>2. x \in DOMAIN client.recent /\ client'.recent[x] = client.recent[x]
    BY <1>6, <2>1
  <2>3. CASE y \in DOMAIN client.recent /\ client'.recent[y] = client.recent[y]
    BY <1>2, <2>2, <2>3 DEF ShownOnce
  <2>4. CASE y = L + 1 /\ client'.recent[y] = new
    <3>1. x \in Shown(s)
      BY <1>4, <2>2, <2>4 DEF Shown
    <3> QED
      BY <1>3, <1>4, <2>2, <2>4, <3>1
  <2> QED
    BY <1>6, <2>3, <2>4
<1>9. LoggedShown'
  <2>1. \A x \in DOMAIN client'.recent : client'.recent[x][2] < log[client'.recent[x][1]]
    BY <1>2, <1>4, <1>6 DEF LoggedShown
  <2> QED
    BY <1>1, <1>5, <2>1 DEF LoggedShown
<1>10. OrderAhead'
  <2> SUFFICES ASSUME NEW t \in Stream, NEW x \in Shown(t)', NEW j \in Events(t)', Together(0, j)'
               PROVE  \/ client'.recent[x][2] < toClient'[j].sequence
                      \/ Seen(j, t, toClient[j].sequence)'
    BY DEF OrderAhead
  <2>1. x \in DOMAIN client'.recent /\ client'.recent[x][1] = t
    BY DEF Shown
  <2>2. CASE x \in DOMAIN client.recent /\ client'.recent[x] = client.recent[x]
    <3>1. x \in Shown(t)
      BY <2>1, <2>2 DEF Shown
    <3> QED
      BY <2>2, <3>1, ShownStill
  <2>3. CASE client'.recent[x] = new
    <3>1. t = s
      BY <1>4, <2>1, <2>3
    <3>2. /\ j \in Nat /\ 1 <= j /\ j + 1 \in Events(s) /\ toClient'[j] = toClient[j + 1]
      BY <1>1, <3>1, TakenBehind
    <3>3. Together(1, j + 1)
      <4>1. 0 \in Nat /\ 0 + 1 = 1
        OBVIOUS
      <4>2. Together(0 + 1, j + 1)
        BY <1>1, <3>2, <4>1, TakenBehind
      <4> QED
        BY <4>1, <4>2
    <3>4. 1 < j + 1
      BY <3>2
    <3>5. n < toClient[j + 1].sequence \/ Seen(j + 1, s, toClient[j + 1].sequence)
      BY <1>2, <3>2, <3>3, <3>4 DEF OrderOnWire
    <3> QED
      BY <1>4, <2>3, <3>1, <3>2, <3>5, AppliedSeen
  <2> QED
    BY <1>6, <2>1, <2>2, <2>3
<1> QED
  BY <1>8, <1>9, <1>10

\* A probe keeps what is shown in order, and only of its own stream, of which no event
\* is on the way.
LEMMA ShownLeft ==
    ASSUME DeliveryInv, OrderInv, Apply, 1 \in Probes,
           client'.recent = Remembered(client, toClient[1])
    PROVE  /\ ShownOnce' /\ OrderAhead' /\ LoggedShown'
           /\ \A x \in DOMAIN client'.recent :
                 /\ client'.recent[x][1] = toClient[1].stream
                 /\ client'.recent[x][2] <= Clamped(client, toClient[1])
           /\ Events(toClient[1].stream) = {}
<1>1. /\ toClient # << >> /\ toClient' = Tail(toClient) /\ toClient \in Seq(WireFrame)
      /\ log' = log
  BY DEF Apply, DeliveryInv, TypeInv, WireType, engine
<1>2. ShownOnce /\ LoggedShown /\ ProbeFirst
  BY DEF OrderInv, WireOrder, Logged
<1>3. PICK frame : frame = toClient[1]
  OBVIOUS
<1>4. PICK left : left = client'.recent
  OBVIOUS
<1>5. /\ left \in Seq(Stream \X Nat)
      /\ \A x \in DOMAIN left : \E y \in DOMAIN client.recent :
            /\ left[x] = client.recent[y]
            /\ left[x][1] = frame.stream /\ left[x][2] <= Clamped(client, frame)
      /\ \A x1, x2 \in DOMAIN left : x1 < x2 =>
            \E y1, y2 \in DOMAIN client.recent :
               y1 < y2 /\ left[x1] = client.recent[y1] /\ left[x2] = client.recent[y2]
  <2>1. client.recent \in Seq(Stream \X Nat) /\ left = Remembered(client, frame)
    BY <1>2, <1>3, <1>4 DEF LoggedShown
  <2>2. PartOf(left, client.recent, frame.stream, Clamped(client, frame))
    BY <2>1, RememberedShows
  <2> QED
    BY <2>2 DEF PartOf
<1>6. ShownOnce'
  <2> SUFFICES ASSUME NEW x1 \in DOMAIN left, NEW x2 \in DOMAIN left, x1 < x2,
                      left[x1][1] = left[x2][1]
               PROVE  left[x1][2] < left[x2][2]
    BY <1>4 DEF ShownOnce
  <2>1. PICK y1, y2 \in DOMAIN client.recent :
               y1 < y2 /\ left[x1] = client.recent[y1] /\ left[x2] = client.recent[y2]
    BY <1>5
  <2> QED
    BY <1>2, <2>1 DEF ShownOnce
<1>7. LoggedShown'
  <2>1. \A x \in DOMAIN left : left[x][2] < log[left[x][1]]
    BY <1>2, <1>5 DEF LoggedShown
  <2> QED
    BY <1>1, <1>4, <1>5, <2>1 DEF LoggedShown
<1>8. Events(frame.stream) = {}
  BY <1>2, <1>3 DEF ProbeFirst
<1>9. OrderAhead'
  <2> SUFFICES ASSUME NEW s \in Stream, NEW x \in Shown(s)', NEW j \in Events(s)' PROVE FALSE
    BY DEF OrderAhead
  <2>1. s = frame.stream
    BY <1>4, <1>5 DEF Shown
  <2>2. j + 1 \in Events(s)
    BY <1>1, TakenBehind
  <2> QED
    BY <1>8, <2>1, <2>2
<1> QED
  BY <1>3, <1>4, <1>5, <1>6, <1>7, <1>8, <1>9

\* In each case what is shown is in order, and ahead of nothing on the way.
LEMMA AppliedAhead ==
    ASSUME DeliveryInv, OrderInv, Apply
    PROVE  ShownOnce' /\ OrderAhead' /\ LoggedShown'
<1>1. log' = log /\ ShownOnce /\ LoggedShown
  BY DEF Apply, engine, OrderInv, Logged
<1>2. CASE 1 \notin Forgetting /\ client'.recent = client.recent
  <2>1. \A s : Shown(s)' = Shown(s)
    BY <1>2 DEF Shown
  <2>2. ASSUME NEW s \in Stream, NEW x \in Shown(s)', NEW j \in Events(s)', Together(0, j)'
        PROVE  \/ client'.recent[x][2] < toClient'[j].sequence
               \/ Seen(j, s, toClient[j].sequence)'
    BY <1>2, <2>1, <2>2, ShownStill
  <2>3. OrderAhead'
    BY <2>2 DEF OrderAhead
  <2> QED
    BY <1>1, <1>2, <2>3 DEF ShownOnce, LoggedShown
<1>3. CASE client'.recent = << >>
  <2>1. \A s : Shown(s)' = {}
    BY <1>3 DEF Shown
  <2> QED
    BY <1>3, <2>1 DEF ShownOnce, LoggedShown, OrderAhead
<1> QED
  BY <1>2, <1>3, AppliedKinds, ShownLeft, ShownNext


\* A frame that is no probe leaves the handoff as it was; the event to be broadcast is
\* behind what was shown by it, too.
LEMMA AppliedToCome ==
    ASSUME DeliveryInv, OrderInv, Apply, Open, 1 \notin Probes, UNCHANGED <<conn, toServer>>
    PROVE  OrderToCome'
<1>1. /\ toClient # << >> /\ toClient' = Tail(toClient) /\ toClient \in Seq(WireFrame)
      /\ UNCHANGED <<active, outbox>>
  BY DEF Apply, DeliveryInv, TypeInv, WireType, engine
<1>2. /\ End \in Nat /\ End' \in Nat /\ End = End' + 1 /\ 1 <= End'
      /\ \A i \in Fresh : i # 1 => i - 1 \in Fresh' /\ toClient'[i - 1] = toClient[i]
  BY <1>1, TakenFrames
<1> SUFFICES ASSUME outbox # NoEvent, ~Gated(active)
             PROVE  /\ \A x \in Shown(active)' :
                          Together(0, End)' => client'.recent[x][2] < outbox \/ Replayed(outbox)'
                    /\ \A i \in Events(active)' :
                          Together(i, End)' => toClient'[i].sequence < outbox \/ Replayed(outbox)'
  BY <1>1 DEF OrderToCome, Gated
<1>3. Replayed(outbox) => Replayed(outbox)'
  <2>1. Awaiting' => Awaiting
    <3>1. Probes' # {} => Probes # {}
      BY <1>1, TakenBehind
    <3> QED
      BY <3>1 DEF Awaiting, Acks
  <2>2. PICK s, n, e : s = active /\ n = outbox /\ e = End'
    OBVIOUS
  <2>3. Seen(e + 1, s, n) => Seen(e, s, n)'
    BY <1>2, <2>2, AppliedSeen
  <2>4. Seen(End, active, outbox) => Seen(End, active, outbox)'
    BY <1>1, <1>2, <2>2, <2>3
  <2> QED
    BY <1>1, <2>1, <2>4 DEF Replayed
<1>4. /\ \A x \in Shown(active) :
            Together(0, End) => client.recent[x][2] < outbox \/ Replayed(outbox)
      /\ \A i \in Events(active) :
            Together(i, End) => toClient[i].sequence < outbox \/ Replayed(outbox)
  BY DEF OrderInv, HandoffOrder, OrderToCome
<1>5. \A i \in Nat : Together(i, End)' => Together(i + 1, End)
  <2>1. PICK e \in Nat : e = End' /\ End = e + 1
    BY <1>2
  <2>2. \A i \in Nat : Together(i, e)' => Together(i + 1, e + 1)
    BY <1>1, TakenBehind
  <2> QED
    BY <2>1, <2>2
<1>6. ASSUME NEW i \in Events(active)', Together(i, End)'
      PROVE  toClient'[i].sequence < outbox \/ Replayed(outbox)'
  <2>1. PICK s : s = active
    OBVIOUS
  <2>2. i \in Events(s)'
    BY <1>1, <2>1
  <2>3. i \in Nat /\ i + 1 \in Events(s) /\ toClient'[i] = toClient[i + 1]
    BY <1>1, <2>2, TakenBehind
  <2> QED
    BY <1>3, <1>4, <1>5, <1>6, <2>1, <2>3
<1>7. ASSUME NEW x \in Shown(active), 1 \notin Forgetting, Together(0, End)'
      PROVE  client.recent[x][2] < outbox \/ Replayed(outbox)'
  <2>1. PICK e \in Nat : e = End' /\ End = e + 1
    BY <1>2
  <2>2. Together(0, e + 1)
    BY <1>1, <1>7, <2>1, TakenBehind
  <2> QED
    BY <1>3, <1>4, <1>7, <2>1, <2>2
<1>8. ASSUME NEW x \in Shown(active)', Together(0, End)'
      PROVE  client'.recent[x][2] < outbox \/ Replayed(outbox)'
  <2>1. x \in DOMAIN client'.recent /\ client'.recent[x][1] = active
    BY <1>1, <1>8 DEF Shown
  <2>2. CASE 1 \notin Forgetting /\ client'.recent = client.recent
    <3>1. x \in Shown(active)
      BY <2>1, <2>2 DEF Shown
    <3> QED
      BY <1>7, <1>8, <2>2, <3>1
  <2>3. CASE client'.recent = << >>
    BY <2>1, <2>3
  <2>4. ASSUME NEW s \in Stream, NEW n \in Nat,
               1 \in Events(s), 1 \notin Forgetting, toClient[1].sequence = n,
               client'.recent = Append(client.recent, <<s, n>>)
        PROVE  client'.recent[x][2] < outbox \/ Replayed(outbox)'
    <3> DEFINE new == <<s, n>>
    <3>1. new \in Stream \X Nat /\ new[1] = s /\ new[2] = n
      OBVIOUS
    <3>2. client.recent \in Seq(Stream \X Nat)
      BY DEF OrderInv, Logged, LoggedShown
    <3> HIDE DEF new
    <3>3. \/ x \in DOMAIN client.recent /\ client'.recent[x] = client.recent[x]
          \/ client'.recent[x] = new
      <4>1. client'.recent = Append(client.recent, new)
        BY <2>4 DEF new
      <4>2. /\ Len(client.recent) \in Nat /\ DOMAIN client.recent = 1..Len(client.recent)
            /\ DOMAIN client'.recent = 1..(Len(client.recent) + 1)
            /\ \A y \in 1..Len(client.recent) : client'.recent[y] = client.recent[y]
            /\ client'.recent[Len(client.recent) + 1] = new
        BY <3>1, <3>2, <4>1, AppendProperties, LenProperties
      <4> QED
        BY <2>1, <4>2
    <3>4. CASE x \in DOMAIN client.recent /\ client'.recent[x] = client.recent[x]
      <4>1. x \in Shown(active)
        BY <2>1, <3>4 DEF Shown
      <4> QED
        BY <1>7, <1>8, <2>4, <3>4, <4>1
    <3>5. CASE client'.recent[x] = new
      <4>1. s = active
        BY <2>1, <3>1, <3>5
      <4>2. Together(1, End)
        <5>1. 0 \in Nat /\ 0 + 1 = 1
          OBVIOUS
        <5>2. Together(0 + 1, End)
          BY <1>5, <1>8, <5>1
        <5> QED
          BY <5>1, <5>2
      <4> QED
        BY <1>3, <1>4, <2>4, <3>1, <3>5, <4>1, <4>2
    <3> QED
      BY <3>3, <3>4, <3>5
  <2> QED
    BY <2>2, <2>3, <2>4, AppliedKinds
<1> QED
  BY <1>6, <1>8

\* The cursor of the acknowledgement is not before what the probe leaves to be shown.
LEMMA ProbedOrder ==
    ASSUME DeliveryInv, OrderInv, Apply, Open, 1 \in Probes, conn' = conn,
           client'.recent = Remembered(client, toClient[1]),
           NEW ack \in ClientFrame, toServer' = Append(toServer, ack), ack.tag = "ResumeAck",
           ack.stream = toClient[1].stream, ack.sequence = Clamped(client, toClient[1])
    PROVE  HandoffOrder'
<1>1. /\ toClient # << >> /\ toClient' = Tail(toClient) /\ toClient \in Seq(WireFrame)
      /\ UNCHANGED <<active, outbox>> /\ toServer \in Seq(ClientFrame)
  BY DEF Apply, DeliveryInv, TypeInv, WireType, engine
<1>2. client \in Showing(client.recent) /\ OneResume
  BY DEF DeliveryInv, TypeInv, EndsType, Handoff
<1>3. PICK s, n : s = toClient[1].stream /\ n = Clamped(client, toClient[1])
  OBVIOUS
<1>4. Acks = {} /\ ~Serving /\ Probes' = {}
  <2>1. \A i \in Probes' : i \in Nat /\ 1 <= i /\ i + 1 \in Probes
    BY <1>1, TakenBehind
  <2>2. \A i \in Probes' : i + 1 = 1
    BY <1>2, <2>1 DEF OneResume
  <2>3. Probes' = {}
    <3> SUFFICES ASSUME NEW i \in Probes' PROVE FALSE
      OBVIOUS
    <3>1. i \in Nat /\ 1 <= i /\ i + 1 = 1
      BY <2>1, <2>2
    <3> QED
      BY <3>1
  <2> QED
    BY <1>2, <2>3 DEF OneResume
<1>5. ack.stream = s /\ ack.sequence = n
  BY <1>3
<1>6. Acks' = {Len(toServer) + 1} /\ toServer'[Len(toServer) + 1] = ack
  <2>1. Acks' = {Len(toServer) + 1}
    BY <1>1, <1>4, AppendAcks
  <2>2. toServer'[Len(toServer) + 1] = ack
    BY <1>1, AppendProperties
  <2> QED
    BY <2>1, <2>2
<1>7. Serving' = Serving /\ Open' = Open /\ conn.resume.pc \notin {"replay", "drain"}
  BY <1>4 DEF Serving, Open
<1>8. conn.probed = s /\ conn.gate.stream = s /\ Awaiting
  <2>1. Awaiting
    BY DEF Awaiting
  <2> QED
    BY <1>3, <2>1 DEF OrderInv, HandoffOrder, OneStream
<1>9. /\ \A x \in DOMAIN client'.recent : client'.recent[x][1] = s /\ client'.recent[x][2] <= n
      /\ Events(s) = {}
  BY <1>3, ShownLeft
<1>10. OneStream'
  BY <1>4, <1>5, <1>6, <1>7, <1>8 DEF OneStream
<1>11. GateHolds'
  <2>1. conn'.gate.stream = s
    BY <1>8
  <2>2. \A t : t = s => Events(t)' = {}
    BY <1>1, <1>9, TakenBehind
  <2> QED
    BY <2>1, <2>2 DEF GateHolds
<1>12. CursorBehind'
  <2>1. \A x \in Shown(s)' : client'.recent[x][2] <= n
    BY <1>9 DEF Shown
  <2> QED
    BY <1>5, <1>6, <1>7, <2>1 DEF CursorBehind
<1>13. OrderToCome'
  <2>1. Gated(s)'
    BY <1>8 DEF Gated
  <2> SUFFICES ASSUME outbox # NoEvent, active # s
               PROVE  /\ Shown(active)' = {}
                      /\ \A i \in Events(active)' :
                            Together(i, End)' => toClient'[i].sequence < outbox
    BY <1>1, <1>8 DEF OrderToCome, Gated
  <2>2. Shown(active)' = {}
    BY <1>1, <1>9 DEF Shown
  <2>3. ASSUME NEW i \in Events(active)', Together(i, End)'
        PROVE  toClient'[i].sequence < outbox
    <3>1. PICK t, e : t = active /\ e = End'
      OBVIOUS
    <3>2. i \in Nat /\ i + 1 \in Events(t) /\ toClient'[i] = toClient[i + 1]
      <4>1. i \in Events(t)'
        BY <1>1, <2>3, <3>1
      <4> QED
        BY <1>1, <4>1, TakenBehind
    <3>3. e \in Nat /\ End = e + 1
      BY <1>1, <3>1, TakenFrames
    <3>4. Together(i, e)' => Together(i + 1, e + 1)
      BY <1>1, <3>2, <3>3, TakenBehind
    <3>5. Together(i + 1, End)
      BY <2>3, <3>1, <3>3, <3>4
    <3>6. ~Replayed(outbox) /\ ~Gated(active)
      BY <1>8 DEF Replayed, Gated
    <3> QED
      BY <3>1, <3>2, <3>5, <3>6 DEF OrderInv, HandoffOrder, OrderToCome
  <2> QED
    BY <2>2, <2>3
<1> QED
  BY <1>10, <1>11, <1>12, <1>13 DEF HandoffOrder


\* While a resume is awaited no event of its stream is shown anew.
LEMMA AwaitedStays ==
    ASSUME DeliveryInv, OrderInv, Apply, Open, Awaiting, 1 \notin Probes
    PROVE  \A x \in DOMAIN client'.recent :
              client'.recent[x][1] = conn.probed =>
                 x \in Shown(conn.probed) /\ client'.recent[x] = client.recent[x]
<1> SUFFICES ASSUME NEW x \in DOMAIN client'.recent, client'.recent[x][1] = conn.probed
             PROVE  x \in Shown(conn.probed) /\ client'.recent[x] = client.recent[x]
  OBVIOUS
<1>1. CASE 1 \notin Forgetting /\ client'.recent = client.recent
  BY <1>1 DEF Shown
<1>2. CASE client'.recent = << >>
  BY <1>2
<1>3. ASSUME NEW s \in Stream, NEW n \in Nat, 1 \in Events(s),
             client'.recent = Append(client.recent, <<s, n>>)
      PROVE  x \in Shown(conn.probed) /\ client'.recent[x] = client.recent[x]
  <2> DEFINE new == <<s, n>>
  <2>1. s # conn.probed
    <3>1. conn.gate.stream = conn.probed
      BY DEF OrderInv, HandoffOrder, OneStream
    <3>2. conn.gate.stream # None => Events(conn.gate.stream) = {}
      BY DEF OrderInv, HandoffOrder, GateHolds
    <3>3. s # None
      BY DEF Stream, None
    <3> QED
      BY <1>3, <3>1, <3>2, <3>3
  <2>2. new \in Stream \X Nat /\ new[1] = s
    OBVIOUS
  <2>3. client.recent \in Seq(Stream \X Nat) /\ client'.recent = Append(client.recent, new)
    BY <1>3 DEF OrderInv, Logged, LoggedShown
  <2> HIDE DEF new
  <2>4. /\ Len(client.recent) \in Nat /\ DOMAIN client.recent = 1..Len(client.recent)
        /\ DOMAIN client'.recent = 1..(Len(client.recent) + 1)
        /\ \A y \in 1..Len(client.recent) : client'.recent[y] = client.recent[y]
        /\ client'.recent[Len(client.recent) + 1] = new
    BY <2>2, <2>3, AppendProperties, LenProperties
  <2>5. x # Len(client.recent) + 1
    BY <2>1, <2>2, <2>4
  <2>6. x \in DOMAIN client.recent /\ client'.recent[x] = client.recent[x]
    BY <2>4, <2>5
  <2> QED
    BY <2>6 DEF Shown
<1> QED
  BY <1>1, <1>2, <1>3, AppliedKinds

\* A frame that is no probe leaves the handoff as it was.
LEMMA AppliedHandoff ==
    ASSUME DeliveryInv, OrderInv, Apply, Open, 1 \notin Probes, UNCHANGED <<conn, toServer>>
    PROVE  OneStream' /\ GateHolds' /\ CursorBehind'
<1>1. toClient # << >> /\ toClient' = Tail(toClient) /\ toClient \in Seq(WireFrame)
  BY DEF Apply, DeliveryInv, TypeInv, WireType
<1>2. OneStream /\ GateHolds /\ CursorBehind
  BY DEF OrderInv, HandoffOrder
<1>3. \A i \in Probes' : i + 1 \in Probes /\ toClient'[i] = toClient[i + 1]
  BY <1>1, TakenBehind
<1>4. Acks' = Acks /\ Serving' = Serving /\ Open' = Open /\ (Awaiting' => Awaiting)
  <2>1. Acks' = Acks /\ Serving' = Serving /\ Open' = Open
    BY DEF Acks, Serving, Open
  <2>2. Probes' # {} => Probes # {}
    BY <1>3
  <2> QED
    BY <2>1, <2>2 DEF Awaiting
<1>5. OneStream'
  BY <1>2, <1>3, <1>4 DEF OneStream
<1>6. GateHolds'
  <2>1. \A t : Events(t) = {} => Events(t)' = {}
    BY <1>1, TakenBehind
  <2> QED
    BY <1>2, <2>1 DEF GateHolds, Open
<1>7. CursorBehind'
  <2>1. ASSUME Awaiting, NEW n, \A x \in Shown(conn.probed) : client.recent[x][2] <= n,
               NEW x \in Shown(conn.probed)'
        PROVE  client'.recent[x][2] <= n
    <3>1. x \in DOMAIN client'.recent /\ client'.recent[x][1] = conn.probed
      BY <2>1 DEF Shown
    <3>2. x \in Shown(conn.probed) /\ client'.recent[x] = client.recent[x]
      BY <2>1, <3>1, AwaitedStays
    <3> QED
      BY <2>1, <3>2
  <2>2. ASSUME NEW i \in Acks, NEW x \in Shown(toServer[i].stream)'
        PROVE  client'.recent[x][2] <= toServer[i].sequence
    <3>1. Awaiting /\ toServer[i].stream = conn.probed
      BY <1>2 DEF Awaiting, OneStream
    <3>2. \A y \in Shown(conn.probed) : client.recent[y][2] <= toServer[i].sequence
      BY <1>2, <3>1 DEF CursorBehind
    <3>3. x \in Shown(conn.probed)'
      BY <2>2, <3>1 DEF Shown
    <3> QED
      BY <2>1, <3>1, <3>2, <3>3
  <2>3. ASSUME conn.resume.pc \in {"replay", "drain"}, NEW x \in Shown(conn.resume.stream)'
        PROVE  client'.recent[x][2] <= conn.gate.highWater
    <3>1. Awaiting /\ conn.resume.stream = conn.probed
      BY <1>2, <2>3 DEF Awaiting, OneStream, Serving
    <3>2. \A y \in Shown(conn.probed) : client.recent[y][2] <= conn.gate.highWater
      BY <1>2, <2>3, <3>1 DEF CursorBehind
    <3>3. x \in Shown(conn.probed)'
      BY <2>3, <3>1 DEF Shown
    <3> QED
      BY <2>1, <3>1, <3>2, <3>3
  <2> QED
    BY <1>4, <2>2, <2>3 DEF CursorBehind, Shown
<1> QED
  BY <1>5, <1>6, <1>7

\* The browser applies the frames one after another.
LEMMA ApplyOrder ==
    ASSUME DeliveryInv, DeliveryInv', OrderInv, TurnGoesOn', Apply
    PROVE  OrderInv'
<1>1. ShownOnce' /\ WireOrder' /\ LoggedShown' /\ LoggedWire'
  BY AppliedAhead, AppliedWire DEF WireOrder
<1>2. log' = log /\ EndsType /\ Handoff
  BY DEF Apply, engine, DeliveryInv, TypeInv
<1>3. ASSUME conn'.state # "open" PROVE OrderInv'
  BY <1>1, <1>3, NotOpen DEF OrderInv, Logged
<1>4. ASSUME conn' = conn PROVE LoggedParked'
  BY <1>2, <1>4 DEF OrderInv, Logged, LoggedParked, Open
<1>5. CASE conn' = Disconnected
  BY <1>2, <1>3, <1>5, ConnectionType
<1>6. CASE conn' = conn /\ ~Open
  BY <1>3, <1>6 DEF Open
<1>7. CASE UNCHANGED <<conn, toServer>> /\ 1 \notin Probes /\ Open
  BY <1>1, <1>4, <1>7, AppliedHandoff, AppliedToCome DEF OrderInv, HandoffOrder, Logged
<1>8. CASE 1 \notin Fresh
  <2>1. UNCHANGED <<conn, toServer>>
    BY <1>8, DroppedFrame
  <2>2. 1 \notin Probes
    BY <1>8 DEF Probes, IsProbe, Fresh
  <2> QED
    BY <1>6, <1>7, <2>1, <2>2
<1>9. CASE 1 \in Fresh
  <2>1. PICK frame : frame = toClient[1]
    OBVIOUS
  <2>2. PICK d : d = Applied(client, frame)
    OBVIOUS
  <2>3. /\ frame \in WireFrame /\ client'.recent = d.recent
        /\ \/ conn' = Disconnected
           \/ /\ UNCHANGED <<conn, toServer>>
              /\ frame.tag = "ResumeProbe" => client.socket # "open"
           \/ /\ conn' = conn /\ frame.tag = "ResumeProbe"
              /\ toServer' = Append(toServer,
                    Frame("ResumeAck", frame.stream, Clamped(client, frame), ""))
    BY <1>9, <2>1, <2>2, AppliedFrame
  <2>4. CASE /\ UNCHANGED <<conn, toServer>>
             /\ frame.tag = "ResumeProbe" => client.socket # "open"
    <3>1. Open => 1 \notin Probes
      BY <1>2, <2>1, <2>4 DEF Handoff, SocketAgrees, Open, Probes, IsProbe
    <3> QED
      BY <1>6, <1>7, <2>4, <3>1
  <2>5. CASE /\ conn' = conn /\ frame.tag = "ResumeProbe" /\ Open
             /\ toServer' = Append(toServer,
                   Frame("ResumeAck", frame.stream, Clamped(client, frame), ""))
    <3>1. PICK ack : ack = Frame("ResumeAck", frame.stream, Clamped(client, frame), "")
      OBVIOUS
    <3>2. /\ ack.tag = "ResumeAck" /\ ack.stream = frame.stream
          /\ ack.sequence = Clamped(client, frame)
      BY <3>1 DEF Frame
    <3>3. ack \in ClientFrame
      <4>1. frame.stream \in Stream \cup {None}
        BY <2>3 DEF WireFrame, ServerFrame
      <4>2. Clamped(client, frame) \in Cursor
        BY <1>2, <2>3, AppliedType DEF EndsType
      <4> QED
        BY <3>1, <4>1, <4>2 DEF Frame, ClientFrame
    <3>4. d.recent = Remembered(client, frame)
      <4>1. client \in Showing(client.recent) /\ frame \in WireFrame
        BY <1>2, <2>3 DEF EndsType
      <4>2. frame.tag = "ResumeProbe" => d.recent = Remembered(client, frame)
        BY <2>2, <4>1, AppliedShows
      <4> QED
        BY <2>5, <4>2
    <3>5. 1 \in Probes
      BY <1>9, <2>1, <2>5 DEF Probes, IsProbe, Fresh
    <3>6. toServer' = Append(toServer, ack)
      BY <2>5, <3>1
    <3>7. HandoffOrder'
      BY <2>1, <2>3, <2>5, <3>2, <3>3, <3>4, <3>5, <3>6, ProbedOrder
    <3> QED
      BY <1>1, <1>4, <2>5, <3>7 DEF OrderInv, Logged
  <2> QED
    BY <1>5, <1>6, <2>3, <2>4, <2>5
<1> QED
  BY <1>8, <1>9

-----------------------------------------------------------------------------
(* Storage that fails *)

\* An outcome that is not told changes nothing of what is.
LEMMA BroadcastFailsOrder ==
    ASSUME DeliveryInv, DeliveryInv', OrderInv, TurnGoesOn', BroadcastFails
    PROVE  OrderInv'
<1>1. /\ ShownOnce /\ WireOrder /\ HandoffOrder /\ OrderToCome
      /\ LoggedShown /\ LoggedWire /\ LoggedParked
      /\ EngineType /\ EngineType' /\ TypeInv /\ Handoff /\ WireType /\ conn \in Connection
  BY DEF DeliveryInv, TypeInv, OrderInv, HandoffOrder, Logged, EndsType
<1>2. PICK s \in notices :
          conn' = [conn EXCEPT !.missed = @ \/ (conn.state = "open" /\ ~Gated(s))]
  BY DEF BroadcastFails
<1>3. /\ conn'.state = conn.state /\ conn'.probed = conn.probed
      /\ conn'.gate = conn.gate /\ conn'.resume = conn.resume
  BY <1>1, <1>2 DEF Connection
<1>4. SameShown /\ Acks' = Acks /\ UNCHANGED <<log, active, outbox, toClient, toServer>>
  BY DEF BroadcastFails, engine, SameShown, Acks
<1>5. \A t \in Stream : log[t] <= log'[t]
  BY <1>1, <1>4 DEF EngineType
<1>6. /\ ShownOnce' /\ WireOrder' /\ LoggedShown' /\ LoggedWire'
      /\ Probes' = Probes /\ \A t : Events(t)' \subseteq Events(t)
  BY <1>1, <1>4, <1>5, OrderStays, LoggedStays
<1>7. OneStream' /\ GateHolds' /\ CursorBehind' /\ LoggedParked' /\ (Awaiting' => Awaiting)
  BY <1>1, <1>3, <1>4, <1>5, <1>6, HandoffStays
<1>8. OrderToCome'
  <2>1. Open' = Open /\ Gated(active)' = Gated(active)
    BY <1>3, <1>4 DEF Open, Gated
  <2> QED
    BY <1>1, <1>3, <1>4, <1>7, <2>1, ToComeStays
<1> QED
  BY <1>6, <1>7, <1>8 DEF OrderInv, HandoffOrder, Logged

\* A resume that failed is over, with its gate or without.
LEMMA FailedOrder ==
    ASSUME DeliveryInv, OrderInv, TurnGoesOn', SameShown, Open, log' = log,
           NEW frames \in Seq(WireFrame), toClient' = toClient \o frames,
           \A k \in 1..Len(frames) : ~frames[k].stale /\ frames[k].tag = "ProtocolError",
           Probes = {}, Acks' = {}, conn'.probed = conn.probed, conn'.resume.pc = "failed",
           conn'.gate = conn.gate \/ conn'.gate.stream = None
    PROVE  /\ ~Awaiting' /\ \A s : Events(s)' = Events(s) /\ Shown(s)' = Shown(s)
           /\ OrderToCome' => OrderInv'
<1>1. /\ ShownOnce /\ WireOrder /\ LoggedShown /\ LoggedWire /\ LoggedParked
      /\ OneStream /\ GateHolds /\ toClient \in Seq(WireFrame)
  BY DEF DeliveryInv, TypeInv, OrderInv, HandoffOrder, Logged, WireType
<1>2. \A k \in 1..Len(frames) :
         ~frames[k].stale /\ frames[k].tag \notin {"ResumeProbe", "StreamEvent"}
  OBVIOUS
<1>3. /\ ShownOnce' /\ WireOrder' /\ LoggedShown' /\ LoggedWire'
      /\ \A i \in Probes' : i \in Probes /\ toClient'[i] = toClient[i]
      /\ \A s : Events(s)' = Events(s) /\ Shown(s)' = Shown(s)
  BY <1>1, <1>2, SentOrder
<1>4. Probes' = {} /\ ~Serving' /\ ~Awaiting'
  BY <1>3 DEF Serving, Awaiting
<1>5. OneStream'
  BY <1>1, <1>4 DEF OneStream
<1>6. GateHolds'
  BY <1>1, <1>3 DEF GateHolds
<1>7. CursorBehind' /\ LoggedParked'
  BY <1>1 DEF CursorBehind, LoggedParked
<1> QED
  BY <1>3, <1>4, <1>5, <1>6, <1>7 DEF OrderInv, HandoffOrder, Logged

\* A failure ahead of the handler leaves the gate, and all behind it.
LEMMA ReceiveFailsOrder ==
    ASSUME DeliveryInv, DeliveryInv', OrderInv, TurnGoesOn', ReceiveFails
    PROVE  OrderInv'
<1> DEFINE told == Frame("ProtocolError", None, NoEvent, "recoverable")
           acked == Head(toServer).tag = "ResumeAck"
<1>1. /\ Take /\ UNCHANGED <<log, active, outbox, client>> /\ SameShown
      /\ toClient' = toClient \/ Send(<<told>>)
      /\ conn' = IF acked THEN [conn EXCEPT !.resume = FailedResume] ELSE conn
  BY DEF ReceiveFails, SameShown
<1>2. /\ TypeInv /\ Handoff /\ OrderToCome /\ toServer \in Seq(ClientFrame)
      /\ toClient \in Seq(WireFrame) /\ conn \in Connection /\ FailedResume.pc = "failed"
  BY ConnectionType DEF DeliveryInv, TypeInv, WireType, EndsType, OrderInv, HandoffOrder
<1>3. /\ told \in WireFrame /\ ~told.stale /\ told.tag = "ProtocolError"
  BY Bounds DEF Frame, WireFrame, ServerFrame, Cursor
<1>4. Passes(told, active) /\ told.tag \notin {"ResumeProbe", "StreamEvent"}
  BY <1>3 DEF Passes
<1> HIDE DEF told
<1>5. CASE ~acked
  <2>1. conn' = conn /\ \A i \in Acks' : \E j \in Acks : toServer'[i] = toServer[j]
    BY <1>1, <1>2, <1>5, TailTaken
  <2> QED
    BY <1>1, <1>3, <1>4, <2>1, IdleOrder, SendOrder
<1>6. CASE acked
  <2>1. Open /\ Acks' = {} /\ Probes = {} /\ Acks # {}
    BY <1>1, <1>2, <1>6, Taking DEF Open
  <2>2. /\ conn'.state = conn.state /\ conn'.probed = conn.probed
        /\ conn'.gate = conn.gate /\ conn'.resume.pc = "failed"
    BY <1>1, <1>2, <1>6 DEF Connection
  <2>3. PICK frames \in Seq(WireFrame) :
            /\ toClient' = toClient \o frames
            /\ \A k \in 1..Len(frames) : frames[k] = told
    <3>1. CASE toClient' = toClient
      <4>1. << >> \in Seq(WireFrame) /\ toClient' = toClient \o << >> /\ Len(<< >>) = 0
        BY <1>2, <3>1, ConcatEmptySeq
      <4>2. PICK none \in Seq(WireFrame) : toClient' = toClient \o none /\ Len(none) = 0
        BY <4>1
      <4>3. \A k \in 1..Len(none) : none[k] = told
        BY <4>2
      <4> QED
        BY <4>2, <4>3
    <3>2. CASE Send(<<told>>)
      <4>1. /\ <<told>> \in Seq(WireFrame) /\ \A k \in 1..Len(<<told>>) : <<told>>[k] = told
        BY <1>3, <1>4, OneToSend
      <4>2. toClient' = toClient \o <<told>>
        BY <2>1, <3>2 DEF Send, Open
      <4> QED
        BY <4>1, <4>2
    <3> QED
      BY <1>1, <3>1, <3>2
  <2>4. /\ \A k \in 1..Len(frames) : ~frames[k].stale /\ frames[k].tag = "ProtocolError"
        /\ \A k \in 1..Len(frames) : Passes(frames[k], active)
        /\ \A k \in 1..Len(frames) :
              ~frames[k].stale /\ frames[k].tag \notin {"ResumeProbe", "StreamEvent"}
    BY <1>3, <1>4, <2>3
  <2>5. /\ ~Awaiting' /\ \A s : Events(s)' = Events(s)
        /\ OrderToCome' => OrderInv'
    BY <1>1, <2>1, <2>2, <2>3, <2>4, FailedOrder
  <2>6. OrderToCome'
    <3>1. Open' /\ ~Gated(active)' => Open /\ ~Gated(active)
      BY <1>1, <2>1, <2>2 DEF Gated
    <3> QED
      BY <1>1, <1>2, <2>2, <2>3, <2>4, <2>5, <3>1, SentToCome
  <2> QED
    BY <2>5, <2>6
<1> QED
  BY <1>5, <1>6

\* A failing replay takes the gate away: the event to be broadcast may be sent.
LEMMA ResumeFailsOrder ==
    ASSUME DeliveryInv, DeliveryInv', OrderInv, ReplaySeen, TurnGoesOn', ResumeFails
    PROVE  OrderInv'
<1> DEFINE told == Frame("ProtocolError", None, NoEvent, "recoverable")
           frames == <<told>>
<1>1. /\ Open /\ conn.resume.pc \in {"replay", "terminal"} /\ Serving
      /\ conn' = [conn EXCEPT !.gate = NoGate, !.resume = FailedResume]
      /\ UNCHANGED <<log, active, outbox, toServer, client>> /\ SameShown
      /\ toClient' = toClient \o frames
  BY DEF ResumeFails, Resuming, engine, SameShown, Open, Serving, Send
<1>2. /\ TypeInv /\ Handoff /\ OrderToCome /\ toClient \in Seq(WireFrame) /\ conn \in Connection
      /\ FailedResume.pc = "failed" /\ NoGate.stream = None
  BY ConnectionType DEF DeliveryInv, TypeInv, WireType, EndsType, OrderInv, HandoffOrder, NoGate
<1>3. Probes = {} /\ Acks' = {}
  <2>1. Probes = {} /\ Acks = {}
    BY <1>1, <1>2, ServingAlone
  <2> QED
    BY <1>1, <2>1 DEF Acks
<1>4. /\ conn'.probed = conn.probed /\ conn'.gate.stream = None /\ conn'.resume.pc = "failed"
  BY <1>1, <1>2 DEF Connection
<1>5. told \in WireFrame /\ ~told.stale /\ told.tag = "ProtocolError"
  BY Bounds DEF Frame, WireFrame, ServerFrame, Cursor
<1> HIDE DEF told
<1>6. /\ frames \in Seq(WireFrame)
      /\ \A k \in 1..Len(frames) : frames[k] = told
  BY <1>5, OneToSend
<1> HIDE DEF frames
<1>7. /\ \A k \in 1..Len(frames) : ~frames[k].stale /\ frames[k].tag = "ProtocolError"
      /\ \A k \in 1..Len(frames) : Passes(frames[k], active)
      /\ \A k \in 1..Len(frames) :
            ~frames[k].stale /\ frames[k].tag \notin {"ResumeProbe", "StreamEvent"}
  BY <1>5, <1>6 DEF Passes
<1>8. /\ ~Awaiting' /\ \A s : Events(s)' = Events(s) /\ Shown(s)' = Shown(s)
      /\ OrderToCome' => OrderInv'
  BY <1>1, <1>3, <1>4, <1>6, <1>7, FailedOrder
<1>9. OrderToCome'
  <2>1. CASE outbox = NoEvent
    BY <1>1, <2>1 DEF OrderToCome
  <2>2. CASE outbox # NoEvent /\ ~Gated(active)
    BY <1>1, <1>2, <1>4, <1>6, <1>7, <1>8, <2>2, SentToCome
  <2>3. CASE outbox # NoEvent /\ Gated(active)
    <3>1. active # None
      BY <2>3, ToComeOpen
    <3>2. conn.resume.pc = "replay" /\ Awaiting /\ conn.probed = active
      <4>1. conn.resume.pc # "terminal"
        BY <1>2, <2>3, <3>1 DEF Handoff, GateFollows, Gated
      <4> QED
        BY <1>1, <2>3, <4>1 DEF Awaiting, Gated, OrderInv, HandoffOrder, OneStream
    <3>3. Events(active) = {}
      BY <1>1, <2>3, <3>1 DEF Gated, OrderInv, HandoffOrder, GateHolds
    <3>4. /\ End \in Nat /\ 0 < End /\ End' \in Nat /\ End' > End
          /\ \A i \in Fresh : i \in Nat /\ 0 < i /\ i < End /\ i \in Fresh' /\ toClient'[i] = toClient[i]
          /\ \A i \in Fresh' : i \in Fresh \/ \E k \in 1..Len(frames) : toClient'[i] = frames[k]
      <4>1. Len(frames) = 1
        BY <1>5, OneToSend DEF frames
      <4>2. /\ Len(toClient) \in Nat /\ End = Len(toClient) + 1 /\ End' = End + Len(frames)
        BY <1>1, <1>2, <1>6, <1>7, SentFrames
      <4>3. End \in Nat /\ 0 < End /\ End' \in Nat /\ End' > End
        BY <4>1, <4>2
      <4>4. /\ \A i \in Fresh :
                  i \in Nat /\ 0 < i /\ i < End /\ i \in Fresh' /\ toClient'[i] = toClient[i]
            /\ \A i \in Fresh' :
                  i \in Fresh \/ \E k \in 1..Len(frames) : toClient'[i] = frames[k]
        BY <1>1, <1>2, <1>6, <1>7, SentFrames
      <4> QED
        BY <4>3, <4>4
    <3>5. ASSUME NEW f \in Forgetting PROVE ~Together(0, End)'
      <4>1. f \in Fresh
        BY <3>5 DEF Forgetting
      <4>2. f \in Nat /\ 0 < f /\ f < End'
        <5>1. f \in Nat /\ 0 < f /\ f < End
          BY <3>4, <4>1
        <5> QED
          BY <3>4, <5>1
      <4>3. f \in Forgetting'
        BY <3>4, <3>5, <4>1 DEF Forgetting
      <4> QED
        BY <4>2, <4>3 DEF Together
    <3>6. ASSUME client.stream = active /\ client.lastSequence >= outbox /\ AllPass(0, End, active)
          PROVE  Replayed(outbox)'
      <4>1. AllPass(0, End, active)'
        <5> SUFFICES ASSUME NEW k \in Fresh' PROVE Passes(toClient'[k], active)
          BY <1>1 DEF AllPass
        <5>1. CASE k \in Fresh
          BY <3>4, <3>6, <5>1 DEF AllPass
        <5>2. CASE \E j \in 1..Len(frames) : toClient'[k] = frames[j]
          BY <1>7, <5>2
        <5> QED
          BY <3>4, <5>1, <5>2
      <4> QED
        BY <1>1, <1>4, <1>8, <3>2, <3>6, <4>1 DEF Replayed, Seen
    <3> SUFFICES ASSUME NEW x \in Shown(active), Together(0, End)'
                 PROVE  client.recent[x][2] < outbox \/ Replayed(outbox)'
      BY <1>1, <1>8, <3>3 DEF OrderToCome
    <3> QED
      BY <1>1, <2>3, <3>2, <3>5, <3>6 DEF ReplaySeen
  <2> QED
    BY <2>1, <2>2, <2>3
<1> QED
  BY <1>8, <1>9

\* Without a gate nothing is awaited.
LEMMA ReplayOver ==
    ASSUME DeliveryInv', OrderInv', ~Open' \/ outbox' = NoEvent \/ conn'.gate.stream = None
    PROVE  ReplaySeen'
<1> SUFFICES ASSUME Open', outbox' # NoEvent, Awaiting', conn'.probed = active' PROVE FALSE
  BY DEF ReplaySeen
<1>1. conn'.gate.stream = conn'.probed
  BY DEF OrderInv, HandoffOrder, OneStream
<1>2. active' # None
  BY DEF DeliveryInv, TypeInv, EngineAgrees
<1> QED
  BY <1>1, <1>2

\* Nothing is sent or applied.
LEMMA ReplayStays ==
    ASSUME ReplaySeen, SameShown, toClient' = toClient, UNCHANGED <<active, outbox>>,
           Open' /\ Awaiting' => Open /\ Awaiting /\ conn'.probed = conn.probed
    PROVE  ReplaySeen'
<1>1. Fresh' = Fresh /\ Forgetting' = Forgetting /\ End' = End
  BY DEF Fresh, Forgetting, End
<1>2. Shown(active)' = Shown(active)
  BY DEF Shown, SameShown
<1>3. \A i, j, s : AllPass(i, j, s)' = AllPass(i, j, s)
  BY <1>1 DEF AllPass
<1> QED
  BY <1>1, <1>2, <1>3 DEF ReplaySeen, SameShown

\* A frame is sent that leaves the cursor alone, or makes the client forget.
LEMMA ReplaySent ==
    ASSUME DeliveryInv, ReplaySeen, SameShown, Open, UNCHANGED <<active, outbox>>,
           NEW frame \in WireFrame, ~frame.stale, toClient' = toClient \o <<frame>>,
           \/ frame.tag \in {"ResumeProbe", "TurnAccepted"}
           \/ /\ Passes(frame, active)
              /\ Awaiting' => Awaiting /\ conn'.probed = conn.probed
    PROVE  ReplaySeen'
<1> DEFINE frames == <<frame>>
<1>1. frames \in Seq(WireFrame) /\ Len(frames) = 1 /\ \A k \in 1..Len(frames) : frames[k] = frame
  BY ShortSequences
<1>2. toClient \in Seq(WireFrame) /\ \A k \in 1..Len(frames) : ~frames[k].stale
  BY <1>1 DEF DeliveryInv, TypeInv, WireType
<1> HIDE DEF frames
<1>3. /\ Len(toClient) \in Nat /\ End = Len(toClient) + 1 /\ End' = End + 1
      /\ \A i \in Fresh : i \in Nat /\ 0 < i /\ i < End /\ i \in Fresh' /\ toClient'[i] = toClient[i]
      /\ \A i \in Fresh' : i \in Fresh \/ toClient'[i] = frame
      /\ \A i \in Fresh' : i \in Nat /\ i <= End
      /\ End \in Fresh' /\ toClient'[End] = frame
  <2>1. toClient' = toClient \o frames
    BY DEF frames
  <2>2. /\ Len(toClient) \in Nat /\ End = Len(toClient) + 1 /\ End' = End + Len(frames)
        /\ \A k \in 1..Len(frames) :
              Len(toClient) + k \in Fresh' /\ toClient'[Len(toClient) + k] = frames[k]
    BY <1>1, <1>2, <2>1, SentFrames
  <2>3. /\ \A i \in Fresh :
              i \in Nat /\ 0 < i /\ i < End /\ i \in Fresh' /\ toClient'[i] = toClient[i]
        /\ \A i \in Fresh' : i \in Fresh \/ \E k \in 1..Len(frames) : toClient'[i] = frames[k]
    BY <1>1, <1>2, <2>1, SentFrames
  <2>4. \A i \in Fresh' : i \in Fresh \/ toClient'[i] = frame
    BY <1>1, <2>3
  <2>5. End \in Fresh' /\ toClient'[End] = frame
    BY <1>1, <2>2
  <2>6. \A i \in Fresh' : i \in Nat /\ i <= End
    <3>1. Len(toClient') = Len(toClient) + 1
      BY <2>2, <1>1 DEF End
    <3>2. toClient' \in Seq(WireFrame)
      BY <1>1, <1>2, <2>1, ConcatProperties
    <3> QED
      BY <2>2, <3>1, <3>2, LenProperties DEF Fresh
  <2> QED
    BY <1>1, <2>2, <2>3, <2>4, <2>5, <2>6
<1>4. CASE frame.tag \in {"ResumeProbe", "TurnAccepted"}
  <2>1. PICK f : f = End
    OBVIOUS
  <2>2. f \in Forgetting'
    BY <1>3, <1>4, <2>1 DEF Forgetting
  <2>3. \A k \in Fresh' : ~(f < k)
    BY <1>3, <2>1
  <2>4. AllPass(f, End, active)'
    BY <2>3 DEF AllPass
  <2> QED
    BY <2>2, <2>4 DEF ReplaySeen
<1>5. CASE /\ Passes(frame, active)
           /\ Awaiting' => Awaiting /\ conn'.probed = conn.probed
  <2>1. ASSUME NEW i \in Nat, AllPass(i, End, active) PROVE AllPass(i, End, active)'
    <3> SUFFICES ASSUME NEW k \in Fresh', i < k PROVE Passes(toClient'[k], active)
      BY DEF AllPass
    <3> QED
      BY <1>3, <1>5, <2>1 DEF AllPass
  <2>2. \A f \in Forgetting : f \in Nat /\ f \in Forgetting'
    BY <1>3 DEF Forgetting
  <2>3. Shown(active)' = Shown(active)
    BY DEF Shown, SameShown
  <2>4. (\E f \in Forgetting : AllPass(f, End, active))
           => \E f \in Forgetting' : AllPass(f, End, active)'
    BY <2>1, <2>2
  <2>5. AllPass(0, End, active) => AllPass(0, End, active)'
    BY <2>1
  <2> QED
    BY <1>5, <2>3, <2>4, <2>5 DEF ReplaySeen, SameShown
<1> QED
  BY <1>4, <1>5

\* The browser applies a frame: a probe that has an event of the active stream kept has
\* moved the cursor there, and nothing behind it moves the cursor on.
LEMMA ReplayApplied ==
    ASSUME DeliveryInv, DeliveryInv', OrderInv, OrderInv', ReplaySeen, Apply
    PROVE  ReplaySeen'
<1>1. /\ toClient # << >> /\ toClient' = Tail(toClient) /\ toClient \in Seq(WireFrame)
      /\ UNCHANGED <<active, outbox>> /\ EndsType /\ client \in Showing(client.recent)
  BY DEF Apply, DeliveryInv, TypeInv, WireType, EndsType, engine
<1>2. /\ End \in Nat /\ End' \in Nat /\ End = End' + 1
      /\ \A i \in Fresh : i \in Nat /\ 1 <= i /\ i < End
      /\ \A i \in Fresh : i # 1 => i - 1 \in Fresh' /\ toClient'[i - 1] = toClient[i]
      /\ \A i \in Fresh' : i \in Nat /\ i + 1 \in Fresh /\ toClient'[i] = toClient[i + 1]
  BY <1>1, TakenFrames
<1>3. /\ \A i \in Probes' : i + 1 \in Probes
      /\ Disconnected.state # "open"
  BY <1>1, TakenBehind, ConnectionType
<1> SUFFICES ASSUME Open', outbox # NoEvent, Awaiting', conn'.probed = active,
                    NEW x \in Shown(active)'
             PROVE  \/ client'.recent[x][2] < outbox
                    \/ \E f \in Forgetting' : AllPass(f, End, active)'
                    \/ /\ client'.stream = active /\ client'.lastSequence >= outbox
                       /\ AllPass(0, End, active)'
  BY <1>1 DEF ReplaySeen
<1>4. ASSUME NEW i \in Nat, AllPass(i + 1, End, active) PROVE AllPass(i, End, active)'
  <2> SUFFICES ASSUME NEW k \in Fresh', i < k PROVE Passes(toClient'[k], active)
    BY <1>1 DEF AllPass
  <2>1. k + 1 \in Fresh /\ toClient'[k] = toClient[k + 1] /\ i + 1 < k + 1 /\ k + 1 < End
    BY <1>2
  <2> QED
    BY <1>4, <2>1 DEF AllPass
<1>5. ASSUME NEW f \in Forgetting, f # 1, AllPass(f, End, active)
      PROVE  \E g \in Forgetting' : AllPass(g, End, active)'
  <2>1. f \in Fresh /\ f \in Nat /\ 1 <= f
    BY <1>2 DEF Forgetting
  <2>2. PICK g : g = f - 1
    OBVIOUS
  <2>3. g \in Nat /\ g + 1 = f
    BY <1>5, <2>1, <2>2
  <2>4. g \in Forgetting'
    BY <1>2, <1>5, <2>1, <2>2 DEF Forgetting
  <2> QED
    BY <1>4, <1>5, <2>3, <2>4
<1>6. x \in DOMAIN client'.recent /\ client'.recent[x][1] = active
  BY <1>1 DEF Shown
<1>7. CASE 1 \notin Probes
  <2>1. conn' = conn /\ Open /\ Awaiting
    <3>1. UNCHANGED <<conn, toServer>> \/ conn' = Disconnected
      <4>1. CASE 1 \notin Fresh
        BY <4>1, DroppedFrame
      <4>2. CASE 1 \in Fresh
        <5>1. PICK frame, d : frame = toClient[1] /\ d = Applied(client, frame)
          OBVIOUS
        <5>2. frame.tag # "ResumeProbe"
          BY <1>7, <4>2, <5>1 DEF Probes, IsProbe, Fresh
        <5> QED
          BY <4>2, <5>1, <5>2, AppliedFrame
      <4> QED
        BY <4>1, <4>2
    <3>2. UNCHANGED <<conn, toServer>>
      BY <1>3, <3>1 DEF Open
    <3>3. Probes' # {} => Probes # {}
      BY <1>3
    <3> QED
      BY <3>2, <3>3 DEF Open, Awaiting, Acks
  <2>2. x \in Shown(active) /\ client'.recent[x] = client.recent[x]
    BY <1>6, <1>7, <2>1, AwaitedStays
  <2>3. \/ client.recent[x][2] < outbox
        \/ \E f \in Forgetting : AllPass(f, End, active)
        \/ client.stream = active /\ client.lastSequence >= outbox /\ AllPass(0, End, active)
    BY <2>1, <2>2 DEF ReplaySeen
  <2>4. CASE \E f \in Forgetting : AllPass(f, End, active)
    <3>1. PICK f \in Forgetting : AllPass(f, End, active)
      BY <2>4
    <3>2. CASE f # 1
      BY <1>5, <3>1, <3>2
    <3>3. CASE f = 1
      <4>1. 1 \in Fresh /\ toClient[1].tag = "TurnAccepted"
        BY <1>7, <3>1, <3>3 DEF Forgetting, Probes, IsProbe, Fresh
      <4>2. PICK frame, d : frame = toClient[1] /\ d = Applied(client, frame)
        OBVIOUS
      <4>3. client'.recent = << >>
        <5>1. frame \in WireFrame /\ client'.recent = d.recent
          BY <4>1, <4>2, AppliedFrame
        <5>2. d.recent = << >>
          BY <1>1, <4>1, <4>2, <5>1, AppliedShows
        <5> QED
          BY <5>1, <5>2
      <4> QED
        BY <1>6, <4>3
    <3> QED
      BY <3>2, <3>3
  <2>5. CASE client.stream = active /\ client.lastSequence >= outbox /\ AllPass(0, End, active)
    <3>1. AllPass(0, End, active)'
      <4>1. AllPass(0 + 1, End, active)
        <5>1. \A k \in Fresh : 0 + 1 < k => 0 < k
          BY <1>2
        <5> QED
          BY <2>5, <5>1 DEF AllPass
      <4> QED
        BY <1>4, <4>1
    <3>2. client'.stream = active /\ client'.lastSequence = client.lastSequence
      <4>1. CASE 1 \notin Fresh
        BY <2>5, <4>1, DroppedFrame DEF SameShown
      <4>2. CASE 1 \in Fresh
        <5>1. PICK frame, d : frame = toClient[1] /\ d = Applied(client, frame)
          OBVIOUS
        <5>2. Passes(frame, active)
          BY <1>2, <2>5, <4>2, <5>1 DEF AllPass
        <5>3. /\ frame \in WireFrame /\ client'.stream = d.stream
              /\ client'.lastSequence = d.lastSequence
          BY <4>2, <5>1, AppliedFrame
        <5>4. /\ frame.tag = "Recovering" =>
                    d.stream = frame.stream /\ d.lastSequence = client.lastSequence
              /\ frame.tag = "ProtocolError" => d = client
          BY <1>1, <5>1, <5>3, AppliedShows
        <5> QED
          BY <2>5, <5>2, <5>3, <5>4 DEF Passes
      <4> QED
        BY <4>1, <4>2
    <3> QED
      BY <2>5, <3>1, <3>2
  <2> QED
    BY <2>2, <2>3, <2>4, <2>5
<1>8. CASE 1 \in Probes
  <2>1. 1 \in Fresh /\ toClient[1].tag = "ResumeProbe"
    BY <1>8 DEF Probes, IsProbe, Fresh
  <2>2. PICK frame, d : frame = toClient[1] /\ d = Applied(client, frame)
    OBVIOUS
  <2>3. /\ frame \in WireFrame /\ client'.recent = d.recent /\ client'.stream = d.stream
        /\ client'.lastSequence = d.lastSequence /\ conn' = conn
    BY <1>3, <2>1, <2>2, AppliedFrame DEF Open
  <2>4. Open /\ Awaiting /\ frame.stream = active
    <3>1. Open /\ Awaiting
      BY <1>8, <2>3 DEF Open, Awaiting
    <3> QED
      BY <1>8, <2>2, <2>3, <3>1 DEF OrderInv, HandoffOrder, OneStream
  <2>5. /\ client'.recent = Remembered(client, frame)
        /\ client'.stream = active /\ client'.lastSequence = Clamped(client, frame)
    <3>1. d.recent = Remembered(client, frame)
      BY <1>1, <2>1, <2>2, <2>3, AppliedShows
    <3>2. d = OnProbe(client, frame)
      BY <2>1, <2>2 DEF Applied
    <3>3. d.stream = frame.stream /\ d.lastSequence = Clamped(client, frame)
      BY <1>1, <3>2 DEF OnProbe, Showing
    <3> QED
      BY <2>3, <2>4, <3>1, <3>3
  <2>6. PICK y \in DOMAIN client.recent :
            /\ client'.recent[x] = client.recent[y]
            /\ client'.recent[x][2] <= client'.lastSequence
    <3>1. client.recent \in Seq(Stream \X Nat)
      BY DEF OrderInv, Logged, LoggedShown
    <3>2. PartOf(client'.recent, client.recent, frame.stream, Clamped(client, frame))
      BY <2>5, <3>1, RememberedShows
    <3> QED
      BY <1>6, <2>5, <3>2 DEF PartOf
  <2>7. y \in Shown(active)
    BY <1>6, <2>6 DEF Shown
  <2>8. \/ client.recent[y][2] < outbox
        \/ \E f \in Forgetting : AllPass(f, End, active)
        \/ client.stream = active /\ client.lastSequence >= outbox /\ AllPass(0, End, active)
    BY <2>3, <2>4, <2>7 DEF ReplaySeen
  <2>9. ~AllPass(0, End, active)
    <3>1. 1 < End /\ ~Passes(frame, active)
      BY <1>2, <2>1, <2>2 DEF Passes
    <3> QED
      BY <2>1, <2>2, <3>1 DEF AllPass
  <2>10. CASE \E f \in Forgetting : AllPass(f, End, active)
    <3>1. PICK f \in Forgetting : AllPass(f, End, active)
      BY <2>10
    <3>2. CASE f # 1
      BY <1>5, <3>1, <3>2
    <3>3. CASE f = 1
      <4>1. AllPass(0, End, active)'
        BY <1>4, <3>1, <3>3
      <4>2. /\ client'.recent[x][2] \in Int /\ client'.lastSequence \in Int /\ outbox \in Int
        <5>1. client'.recent \in Seq(Stream \X Nat)
          BY DEF OrderInv, Logged, LoggedShown
        <5>2. client'.recent[x] \in Stream \X Nat
          BY <1>6, <5>1, LenProperties
        <5>3. client'.lastSequence \in Int /\ outbox \in Int
          BY Bounds DEF DeliveryInv, TypeInv, EndsType, EngineType, Showing, Cursor, NoEvent
        <5> QED
          BY <5>2, <5>3
      <4>3. client'.recent[x][2] < outbox \/ client'.lastSequence >= outbox
        BY <2>6, <4>2
      <4> QED
        BY <2>5, <4>1, <4>3
    <3> QED
      BY <3>2, <3>3
  <2> QED
    BY <2>6, <2>8, <2>9, <2>10
<1> QED
  BY <1>7, <1>8

\* Every step keeps what a failing replay relies on.
LEMMA StepReplay ==
    ASSUME DeliveryInv, DeliveryInv', OrderInv, OrderInv', ReplaySeen, Next
    PROVE  ReplaySeen'
<1>1. /\ TypeInv /\ Handoff /\ EngineType /\ EngineAgrees /\ toClient \in Seq(WireFrame)
      /\ conn \in Connection /\ NoGate.stream = None /\ Disconnected.gate = NoGate
      /\ Disconnected.state = "closed" /\ NewConnection.state = "dialing"
      /\ client \in Showing(client.recent)
  BY ConnectionType DEF DeliveryInv, TypeInv, WireType, EndsType, NoGate
<1>2. CASE AppendToLog
  <2>1. /\ outbox' = log[active] /\ UNCHANGED <<active, client>>
    BY <1>2 DEF AppendToLog
  <2>2. \A x \in Shown(active) : client.recent[x][2] < log[active]
    BY DEF OrderInv, Logged, LoggedShown, Shown
  <2> QED
    BY <2>1, <2>2 DEF ReplaySeen, Shown
<1>3. CASE \/ AdmitElsewhere \/ Recover \/ BroadcastFails
  <2>1. /\ SameShown /\ UNCHANGED <<active, outbox, toClient, toServer>>
        /\ conn'.state = conn.state /\ conn'.probed = conn.probed /\ conn'.resume = conn.resume
    BY <1>1, <1>3 DEF AdmitElsewhere, Recover, BroadcastFails, SameShown, engine, Connection
  <2>2. Awaiting' = Awaiting /\ Open' = Open
    BY <2>1 DEF Awaiting, Open, Probes, Acks
  <2> QED
    BY <2>1, <2>2, ReplayStays
<1>4. CASE \/ StartTurn \/ Publish \/ Restart \/ Hibernate
           \/ \E status \in Terminal \cup {"interrupted"} : EndTurn(status)
  <2>1. outbox' = NoEvent
    BY <1>1, <1>4 DEF StartTurn, Publish, Restart, Hibernate, EndTurn, EngineAgrees, engine
  <2> QED
    BY <2>1, ReplayOver
<1>5. CASE BroadcastTerminal
  <2>1. /\ SameShown /\ UNCHANGED <<active, outbox, conn, toServer>>
        /\ \E s \in notices : Gated(s) \/ outcome[s] \notin Told \/ Send(<<StreamTerminal(s)>>)
        /\ \A s \in notices : outbox # NoEvent => s = active /\ outcome[s] = "open"
    BY <1>1, <1>5 DEF BroadcastTerminal, SameShown, engine, OrderInv, TurnGoesOn, EngineAgrees
  <2>2. outbox # NoEvent => toClient' = toClient
    BY <1>5, <2>1 DEF BroadcastTerminal, Told, Terminal
  <2>3. CASE outbox = NoEvent
    BY <2>1, <2>3, ReplayOver
  <2>4. CASE toClient' = toClient
    <3>1. Awaiting' = Awaiting /\ Open' = Open
      BY <2>1, <2>4 DEF Awaiting, Open, Probes, Acks
    <3> QED
      BY <2>1, <2>4, <3>1, ReplayStays
  <2> QED
    BY <2>2, <2>3, <2>4
<1>6. CASE Alarm
  <2> DEFINE frame == Frame("Recovering", active, NoEvent, "")
  <2>1. /\ SameShown /\ UNCHANGED <<active, outbox, conn, toServer>>
        /\ active # None => Send(<<frame>>)
    BY <1>6 DEF Alarm, SameShown, engine
  <2>2. CASE outbox = NoEvent \/ ~Open
    BY <2>1, <2>2, ReplayOver DEF Open
  <2>3. CASE outbox # NoEvent /\ Open
    <3>1. active # None /\ active \in Stream
      BY <1>1, <2>3 DEF EngineAgrees, EngineType
    <3>2. frame \in WireFrame /\ ~frame.stale /\ Passes(frame, active)
          /\ frame.tag = "Recovering"
      BY <3>1, Bounds DEF Frame, WireFrame, ServerFrame, Cursor, Passes
    <3> HIDE DEF frame
    <3>3. toClient' = toClient \o <<frame>> /\ Send(<<frame>>)
      BY <2>1, <2>3, <3>1 DEF Send, Open
    <3>4. Awaiting' = Awaiting
      <4>1. Probes' = Probes
        BY <1>1, <3>2, <3>3, OneFrame, SendingProbes
      <4> QED
        BY <2>1, <4>1 DEF Awaiting, Acks
    <3> QED
      BY <2>1, <2>3, <3>2, <3>3, <3>4, ReplaySent
  <2> QED
    BY <2>2, <2>3
<1>7. CASE Upgrade
  <2>1. /\ outbox' = outbox /\ active' = active /\ conn.state = "dialing"
        /\ client' = [client EXCEPT !.socket = "open"]
    BY <1>7 DEF Upgrade
  <2>2. Fresh = {}
    BY <1>1, <2>1 DEF Handoff, SocketAgrees, Fresh
  <2>3. SameShown
    BY <1>1, <2>1 DEF SameShown, Showing
  <2>4. PICK probe :
            /\ toClient' = Append(toClient, probe)
            /\ probe.tag = "ResumeProbe" /\ ~probe.stale
    <3>1. PICK n, info :
              toClient' = Append(toClient, Frame("ResumeProbe", ProbedStream, n, info))
      BY <1>7 DEF Upgrade
    <3>2. /\ Frame("ResumeProbe", ProbedStream, n, info).tag = "ResumeProbe"
          /\ ~Frame("ResumeProbe", ProbedStream, n, info).stale
      BY DEF Frame
    <3> QED
      BY <3>1, <3>2
  <2>5. /\ Len(toClient) \in Nat /\ DOMAIN toClient' = 1..(Len(toClient) + 1)
        /\ toClient'[Len(toClient) + 1] = probe
        /\ \A k \in 1..Len(toClient) : toClient'[k] = toClient[k] /\ toClient[k].stale
    <3>1. toClient' \in Seq(WireFrame)
      BY DEF DeliveryInv, TypeInv, WireType
    <3>2. Len(toClient) \in Nat /\ DOMAIN toClient = 1..Len(toClient)
      BY <1>1, LenProperties
    <3> QED
      BY <2>2, <2>4, <3>1, <3>2 DEF Fresh
  <2>6. PICK f : f = Len(toClient) + 1
    OBVIOUS
  <2>7. f \in Forgetting' /\ \A k \in Fresh' : k = f
    BY <2>4, <2>5, <2>6 DEF Forgetting, Fresh
  <2>8. AllPass(f, End, active)'
    <3>1. \A k \in Fresh' : ~(f < k)
      BY <2>5, <2>6, <2>7
    <3> QED
      BY <3>1 DEF AllPass
  <2> QED
    BY <2>7, <2>8 DEF ReplaySeen
<1>8. CASE ReceiveSubmit \/ (ReceiveFails /\ Head(toServer).tag # "ResumeAck")
  <2> DEFINE error == Frame("ProtocolError", None, NoEvent, "recoverable")
             accepted == Frame("TurnAccepted", Admitted + 1, NoEvent, "")
  <2>1. /\ SameShown /\ UNCHANGED <<active, outbox, conn>> /\ Take
        /\ toClient' = toClient \/ Send(<<error>>) \/ (ReceiveSubmit /\ Send(<<accepted>>))
    BY <1>8 DEF ReceiveSubmit, ReceiveFails, SameShown
  <2>2. Open /\ toServer \in Seq(ClientFrame)
    BY <1>1, <2>1, Taking DEF Open, TypeInv, WireType
  <2>3. Acks' # {} => Acks # {}
    BY <2>1, <2>2, TailTaken
  <2>4. error \in WireFrame /\ ~error.stale /\ Passes(error, active) /\ error.tag = "ProtocolError"
    BY Bounds DEF Frame, WireFrame, ServerFrame, Cursor, Passes
  <2>5. ReceiveSubmit => accepted \in WireFrame /\ ~accepted.stale /\ accepted.tag = "TurnAccepted"
    <3> SUFFICES ASSUME ReceiveSubmit
                 PROVE  accepted \in WireFrame /\ ~accepted.stale /\ accepted.tag = "TurnAccepted"
      OBVIOUS
    <3>1. Admitted + 1 \in Stream
      <4>1. /\ Cardinality(SubmitsIn(toServer')) \in Nat
            /\ Cardinality(SubmitsIn(toServer')) + 1 <= Cardinality(SubmitsIn(toServer))
        BY <1>1, <2>1, Taking DEF ReceiveSubmit
      <4>2. Admitted \in Nat /\ Cardinality(SubmitsIn(toServer)) \in Nat
        BY <1>1, <2>2, AdmittedNumber, SubmitsCount
      <4>3. Admitted + Cardinality(SubmitsIn(toServer)) <= MaxTurns
        BY <1>1 DEF TypeInv, TurnsFit
      <4> QED
        BY <4>1, <4>2, <4>3, Bounds DEF Stream
    <3>2. PICK s \in Stream : s = Admitted + 1
      BY <3>1
    <3>3. /\ Frame("TurnAccepted", s, NoEvent, "") \in WireFrame
          /\ ~Frame("TurnAccepted", s, NoEvent, "").stale
          /\ Frame("TurnAccepted", s, NoEvent, "").tag = "TurnAccepted"
      BY Bounds DEF Frame, WireFrame, ServerFrame, Cursor
    <3> QED
      BY <3>2, <3>3
  <2> HIDE DEF error, accepted
  <2>6. CASE toClient' = toClient
    <3>1. Open' = Open /\ (Awaiting' => Awaiting)
      BY <2>1, <2>3, <2>6 DEF Open, Awaiting, Probes
    <3> QED
      BY <2>1, <2>2, <2>6, <3>1, ReplayStays
  <2>7. CASE Send(<<error>>)
    <3>1. toClient' = toClient \o <<error>>
      BY <2>2, <2>7 DEF Send, Open
    <3>2. Probes' = Probes
      BY <1>1, <2>4, <2>7, OneFrame, SendingProbes
    <3>3. (Awaiting' => Awaiting) /\ conn'.probed = conn.probed
      BY <2>1, <2>3, <3>2 DEF Awaiting
    <3> QED
      BY <2>1, <2>2, <2>4, <3>1, <3>3, ReplaySent
  <2>8. CASE ReceiveSubmit /\ Send(<<accepted>>)
    <3>1. toClient' = toClient \o <<accepted>>
      BY <2>2, <2>8 DEF Send, Open
    <3> QED
      BY <2>1, <2>2, <2>5, <2>8, <3>1, ReplaySent
  <2> QED
    BY <2>1, <2>6, <2>7, <2>8
<1>9. CASE ReceiveFails /\ Head(toServer).tag = "ResumeAck"
  <2>1. conn' = [conn EXCEPT !.resume = FailedResume] /\ Take /\ UNCHANGED <<active, outbox>>
    BY <1>9 DEF ReceiveFails
  <2>2. Acks' = {} /\ conn'.resume.pc = "failed" /\ Probes = {}
    BY <1>1, <1>9, <2>1, Taking, ConnectionType DEF Connection, TypeInv
  <2>3. Probes' = {}
    <3> DEFINE error == Frame("ProtocolError", None, NoEvent, "recoverable")
    <3>1. toClient' = toClient \/ Send(<<error>>)
      BY <1>9 DEF ReceiveFails
    <3>2. error \in WireFrame /\ error.tag = "ProtocolError"
      BY Bounds DEF Frame, WireFrame, ServerFrame, Cursor
    <3> HIDE DEF error
    <3>3. CASE Send(<<error>>)
      BY <1>1, <2>2, <3>2, <3>3, OneFrame, SendingProbes
    <3> QED
      BY <2>2, <3>1, <3>3 DEF Probes
  <2>4. ~Awaiting'
    BY <2>2, <2>3 DEF Awaiting
  <2> QED
    BY <2>4 DEF ReplaySeen
<1>10. CASE ReceiveResume
  <2>1. /\ SameShown /\ UNCHANGED <<active, outbox>> /\ Take /\ Head(toServer).tag = "ResumeAck"
        /\ \/ conn'.gate.stream = None
           \/ /\ toClient' = toClient /\ conn'.probed = conn.probed
    BY <1>1, <1>10 DEF ReceiveResume, SameShown, Connection
  <2>2. Open /\ Awaiting
    BY <1>1, <2>1, Taking DEF Open, Awaiting
  <2> QED
    BY <2>1, <2>2, ReplayOver, ReplayStays
<1>11. CASE ReadBacklog
  <2>1. /\ SameShown /\ UNCHANGED <<active, outbox>> /\ Open /\ Awaiting
        /\ \/ conn'.gate.stream = None
           \/ /\ toClient' = toClient /\ conn'.probed = conn.probed
    BY <1>1, <1>11 DEF ReadBacklog, Resuming, SameShown, Connection, engine, Open, Awaiting
  <2> QED
    BY <2>1, ReplayOver, ReplayStays
<1>12. CASE DrainHandoff \/ AnswerTerminal \/ ResumeFails
  <2>1. conn'.gate.stream = None
    BY <1>1, <1>12 DEF DrainHandoff, AnswerTerminal, ResumeFails, Resuming, Connection, Handoff,
                       GateFollows
  <2> QED
    BY <2>1, ReplayOver
<1>13. CASE Apply
  BY <1>13, ReplayApplied
<1>14. CASE ConnectTimer \/ ReconnectTimer \/ Online \/ Connect \/ Submit
  <2>1. UNCHANGED <<active, outbox, toClient>>
    BY <1>14 DEF ConnectTimer, ReconnectTimer, Online, Connect, Submit, engine
  <2>2. CASE ~Open'
    BY <2>2, ReplayOver
  <2>3. CASE Open'
    <3>1. conn' = conn
      BY <1>1, <1>14, <2>3
      DEF ConnectTimer, ReconnectTimer, Online, Connect, Submit, Open
    <3>2. SameShown
      <4> DEFINE one == [client EXCEPT !.reconnectTimer = FALSE]
                 two == [client EXCEPT !.attempts = 0, !.reconnectTimer = FALSE]
                 three == [client EXCEPT !.connectTimer = FALSE,
                              !.socket = IF client.socket = "none" THEN "connecting" ELSE client.socket]
                 Same(c) == /\ c.recent = client.recent /\ c.stream = client.stream
                            /\ c.lastSequence = client.lastSequence
      <4>1. one \in Showing(one.recent) /\ two \in Showing(two.recent) /\ Same(one) /\ Same(two)
            /\ Same(three)
        BY <1>1, NoAttempts DEF Showing
      <4>2. client' \in {client, Connected(client), Connected(one), Connected(two), three}
        BY <1>14 DEF ConnectTimer, ReconnectTimer, Online, Connect, Submit
      <4> HIDE DEF one, two, three
      <4>3. Same(Connected(client)) /\ Same(Connected(one)) /\ Same(Connected(two))
        BY <1>1, <4>1, ConnectedShows
      <4> QED
        BY <4>1, <4>2, <4>3 DEF SameShown
    <3>3. Acks' # {} => Acks # {}
      <4>1. CASE Submit
        <5> DEFINE frame == Frame("SubmitTurn", None, NoEvent, "")
        <5>1. toServer' = toServer \/ toServer' = Append(toServer, frame)
          BY <4>1 DEF Submit
        <5>2. frame \in ClientFrame /\ frame.tag # "ResumeAck"
          BY Bounds DEF Frame, ClientFrame
        <5> HIDE DEF frame
        <5>3. toServer' = Append(toServer, frame) => Acks' = Acks
          BY <1>1, <5>2, AppendAcks DEF TypeInv, WireType
        <5> QED
          BY <5>1, <5>3 DEF Acks
      <4>2. CASE ConnectTimer \/ ReconnectTimer \/ Online \/ Connect
        <5>1. toServer' = toServer
          BY <1>1, <2>3, <4>2 DEF ConnectTimer, ReconnectTimer, Online, Connect, Open
        <5> QED
          BY <5>1 DEF Acks
      <4> QED
        BY <1>14, <4>1, <4>2
    <3>4. Open /\ (Awaiting' => Awaiting)
      BY <2>1, <2>3, <3>1, <3>3 DEF Open, Awaiting, Probes
    <3> QED
      BY <2>1, <3>1, <3>2, <3>4, ReplayStays
  <2> QED
    BY <2>2, <2>3
<1>15. CASE CloseEvent \/ Close \/ Drop
  <2>1. ~Open'
    BY <1>1, <1>15 DEF CloseEvent, Close, Drop, Open
  <2> QED
    BY <2>1, ReplayOver
<1> QED
  BY <1>2, <1>3, <1>4, <1>5, <1>6, <1>7, <1>8, <1>9, <1>10, <1>11, <1>12, <1>13, <1>14, <1>15
  DEF Next, Server, Browser, ReceiveFails

-----------------------------------------------------------------------------
(* The invariant, and the theorem *)

\* Nothing is shown, on the way, or to come.
LEMMA InitOrder ==
    ASSUME Init
    PROVE  OrderInv /\ ReplaySeen
<1>1. /\ toClient = << >> /\ client.recent = << >> /\ outbox = NoEvent
      /\ conn.state = "closed" /\ driven = FALSE /\ active = None
  BY DEF Init, NewConnection
<1>2. Fresh = {} /\ Probes = {}
  BY <1>1 DEF Fresh, Probes
<1>3. (\A s : Events(s) = {}) /\ (\A s : Shown(s) = {})
  BY <1>1, <1>2 DEF Events, Shown
<1>4. ShownOnce /\ LoggedShown
  BY <1>1 DEF ShownOnce, LoggedShown
<1>5. WireOrder /\ LoggedWire
  BY <1>2, <1>3 DEF WireOrder, OrderOnWire, OrderAhead, ProbeFirst, LoggedWire
<1>6. HandoffOrder /\ LoggedParked
  BY <1>1 DEF HandoffOrder, OrderToCome, OneStream, GateHolds, CursorBehind, LoggedParked, Open
<1>7. TurnGoesOn
  BY <1>1 DEF TurnGoesOn
<1>8. ReplaySeen
  BY <1>1 DEF ReplaySeen
<1> QED
  BY <1>4, <1>5, <1>6, <1>7, <1>8 DEF OrderInv, Logged

\* Every step keeps the order, but a hibernation that takes a gate away.
LEMMA StepOrder ==
    ASSUME DeliveryInv, OrderInv, ReplaySeen, [Next]_vars, Hibernate => conn.gate = NoGate
    PROVE  OrderInv'
<1>1. DeliveryInv'
  BY StepInv
<1>2. CASE UNCHANGED vars
  <2>1. SameShown /\ Acks' = Acks
    BY <1>2 DEF vars, SameShown, Acks
  <2>2. TurnGoesOn'
    BY <1>2 DEF vars, engine, OrderInv, TurnGoesOn
  <2>3. UNCHANGED <<log, toClient, active, outbox, conn, toServer>>
    BY <1>2 DEF vars, engine
  <2>4. \A i \in Acks' : \E j \in Acks : toServer'[i] = toServer[j]
    BY <2>1, <2>3
  <2> QED
    BY <1>1, <2>1, <2>2, <2>3, <2>4, IdleOrder
<1>3. CASE Next
  <2>1. TurnGoesOn'
    BY <1>3, TurnGoesOnStep DEF DeliveryInv, OrderInv
  <2>2. CASE \/ AdmitElsewhere \/ StartTurn \/ AppendToLog \/ Recover
             \/ \E status \in Terminal \cup {"interrupted"} : EndTurn(status)
    BY <1>1, <2>1, <2>2, EngineOrder
  <2>3. CASE Alarm \/ Publish \/ BroadcastTerminal
    BY <1>1, <2>1, <2>3, AlarmOrder, PublishOrder, BroadcastTerminalOrder
  <2>4. CASE \/ Upgrade \/ ReceiveSubmit \/ ReceiveResume
             \/ ReadBacklog \/ DrainHandoff \/ AnswerTerminal
    BY <1>1, <2>1, <2>4, UpgradeOrder, ReceiveSubmitOrder, ReceiveResumeOrder,
       ReadBacklogOrder, DrainHandoffOrder, AnswerTerminalOrder
  <2>5. CASE Apply
    BY <1>1, <2>1, <2>5, ApplyOrder
  <2>6. CASE \/ ConnectTimer \/ CloseEvent \/ ReconnectTimer \/ Online
             \/ Submit \/ Close \/ Connect
    BY <1>1, <2>1, <2>6, BrowserOrder
  <2>7. CASE Drop \/ Restart \/ Hibernate
    BY <1>1, <2>1, <2>7, LossOrder
  <2>8. CASE BroadcastFails \/ ReceiveFails \/ ResumeFails
    BY <1>1, <2>1, <2>8, BroadcastFailsOrder, ReceiveFailsOrder, ResumeFailsOrder
  <2> QED
    BY <1>3, <2>2, <2>3, <2>4, <2>5, <2>6, <2>7, <2>8 DEF Next, Server, Browser
<1> QED
  BY <1>2, <1>3

\* With it, what a failing replay relies on.
LEMMA StepSeen ==
    ASSUME DeliveryInv, OrderInv, ReplaySeen, [Next]_vars, Hibernate => conn.gate = NoGate
    PROVE  ReplaySeen'
<1>1. CASE UNCHANGED vars
  <2>1. SameShown /\ UNCHANGED <<toClient, active, outbox, conn, toServer>>
    BY <1>1 DEF vars, engine, SameShown
  <2>2. Awaiting' = Awaiting /\ Open' = Open
    BY <2>1 DEF Awaiting, Open, Probes, Acks
  <2> QED
    BY <2>1, <2>2, ReplayStays
<1>2. CASE Next
  BY <1>2, StepInv, StepOrder, StepReplay
<1> QED
  BY <1>1, <1>2

\* Whatever replays, live broadcasts and frames of old sockets reach the client, it shows
\* no event twice and none behind a later one, with any number of turns, events and losses
\* of connections and isolates, as long as no object is hibernated while a connection is
\* gated: a gate is memory, and goes with it.
THEOREM NoEventShownTwice == Safe /\ [][Hibernate => conn.gate = NoGate]_vars => []ShownOnce
<1> DEFINE Keeps == Hibernate => conn.gate = NoGate
<1>1. Init => DeliveryInv /\ OrderInv /\ ReplaySeen
  BY InitInv, InitOrder
<1>2. DeliveryInv /\ OrderInv /\ ReplaySeen /\ [Next]_vars /\ [Keeps]_vars
        => DeliveryInv' /\ OrderInv' /\ ReplaySeen'
  <2> SUFFICES ASSUME DeliveryInv, OrderInv, ReplaySeen, [Next]_vars, [Keeps]_vars
               PROVE  DeliveryInv' /\ OrderInv' /\ ReplaySeen'
    OBVIOUS
  <2>1. CASE UNCHANGED vars
    <3>1. ~Hibernate
      <4>1. ASSUME Hibernate PROVE used'.faults # used.faults
        BY <4>1 DEF Hibernate, DeliveryInv, TypeInv, EndsType
      <4> QED
        BY <2>1, <4>1 DEF vars
    <3> QED
      BY <2>1, <3>1, StepInv, StepOrder, StepSeen
  <2>2. CASE Keeps
    BY <2>2, StepInv, StepOrder, StepSeen
  <2> QED
    BY <2>1, <2>2
<1>3. OrderInv => ShownOnce
  BY DEF OrderInv
<1> HIDE DEF Keeps
<1>4. Safe /\ [][Keeps]_vars => []ShownOnce
  BY <1>1, <1>2, <1>3, PTL DEF Safe
<1> QED
  BY <1>4 DEF Keeps
===============================================================================
