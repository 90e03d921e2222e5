------------------------- MODULE StreamDeliveryProofs -------------------------
(***************************************************************************)
(* Theorems about StreamDelivery, for every value of its constants: the    *)
(* state is well typed, no gate outlives the resume that opens it again,   *)
(* and an opened gate has let through everything broadcast until then.     *)
(***************************************************************************)
EXTENDS StreamDelivery, FiniteSetTheorems, SequenceTheorems, TLAPS

USE DEF Stream, None, NoEvent

\* Sequences of events, and what a cursor can be.
Cursor == NoEvent..MaxEvents

ClientFrame == [
    tag : {"ResumeAck", "SubmitTurn"}, stream : Stream \cup {None}, sequence : Cursor,
    info : {""}, stale : {FALSE}]

\* A terminal frame tells an outcome.
WireFrame == {frame \in ServerFrame : frame.tag = "StreamTerminal" => frame.info \in Told}

Resume == [
    pc : {"none", "replay", "drain", "terminal", "failed"},
    stream : Stream \cup {None}, after : Cursor, through : Cursor]

Connection == [
    state : {"dialing", "open", "closed"}, probed : Stream \cup {None},
    gate : Gate, resume : Resume, missed : BOOLEAN]

ClientStatus == {"connecting", "replaying", "live", "recovering", "completed",
                 "interrupted", "failed", "disconnected"}

\* A client that shows these events.
Showing(recent) == [
    status : ClientStatus, stream : Stream \cup {None}, lastSequence : Cursor,
    inFlight : BOOLEAN, recent : {recent},
    socket : {"none", "connecting", "open", "closing"},
    connectTimer : BOOLEAN, reconnectTimer : BOOLEAN,
    attempts : 0..MaxReconnectAttempts, closed : BOOLEAN ]

\* TypeOK in three parts, and completed: the engine, the wires, and both ends.
EngineType ==
    /\ log \in [Stream -> 0..MaxEvents]
    /\ outcome \in [Stream -> Outcome]
    /\ active \in Stream \cup {None}
    /\ driven \in BOOLEAN /\ ringing \in Stream \cup {None}
    /\ outbox \in Cursor
    /\ notices \subseteq Stream

WireType ==
    /\ toClient \in Seq(WireFrame)
    /\ toServer \in Seq(ClientFrame)

EndsType ==
    /\ conn \in Connection
    /\ client \in Showing(client.recent)
    /\ online \in BOOLEAN
    /\ used \in [submits : Nat, alarms : Nat, faults : Nat]

\* A driven turn is the active one, which is an admitted one, and what is yet to be
\* broadcast is its last event.
EngineAgrees ==
    /\ driven => active # None
    /\ active # None => outcome[active] # "absent"
    /\ outbox # NoEvent => driven /\ outbox = log[active] - 1

SubmitsIn(frames) == {i \in DOMAIN frames : frames[i].tag = "SubmitTurn"}

\* Every turn asked for finds its stream.
TurnsFit == Admitted + Cardinality(SubmitsIn(toServer)) <= MaxTurns

TypeInv == EngineType /\ WireType /\ EndsType /\ EngineAgrees /\ TurnsFit

IsProbe(frame) == frame.tag = "ResumeProbe" /\ ~frame.stale

Probes == {i \in DOMAIN toClient : IsProbe(toClient[i])}
Acks == {i \in DOMAIN toServer : toServer[i].tag = "ResumeAck"}
Serving == conn.resume.pc \in {"replay", "drain", "terminal"}

\* Both ends agree about the socket, and an old socket's frames are stale.
SocketAgrees ==
    /\ conn.state = "open" => client.socket = "open"
    /\ conn.state = "dialing" =>
          /\ client.socket = "connecting"
          /\ toServer = << >> /\ ~Serving
    /\ client.socket \in {"none", "connecting"} =>
          \A i \in DOMAIN toClient : toClient[i].stale

\* A connection has one resume: its probe, its acknowledgement, or the handler.
OneResume ==
    /\ \A i, j \in Probes : i = j
    /\ \A i, j \in Acks : i = j
    /\ Probes # {} => Acks = {} /\ ~Serving
    /\ Acks # {} => ~Serving

\* The gate of an open connection is on the stream that is being replayed.
GateFollows ==
    /\ conn.gate.stream # None => conn.state = "open"
    /\ conn.resume.pc = "terminal" => conn.gate.stream = None
    /\ Serving => conn.resume.stream # None
    /\ conn.state = "open" /\ conn.resume.pc \in {"replay", "drain"}
          => conn.gate.stream = conn.resume.stream

\* What was broadcast behind the backlog that was read is parked, or was seen.
NothingMissed ==
    conn.state = "open" /\ conn.resume.pc = "drain" =>
        \A n \in 0..MaxEvents :
            conn.resume.through < n /\ n <= Published(conn.resume.stream) =>
                \/ n <= conn.gate.highWater
                \/ \E i \in DOMAIN conn.gate.pending : conn.gate.pending[i] = n

Handoff == SocketAgrees /\ OneResume /\ GateHasResume /\ GateFollows /\ NothingMissed

DeliveryInv == TypeInv /\ Handoff

-----------------------------------------------------------------------------
(* Counting turns *)

\* The bounds are natural numbers, so that no event is a cursor and an event may be
\* numbered 0.
LEMMA Bounds ==
    /\ MaxEvents \in Nat /\ MaxTurns \in Nat /\ MaxReconnectAttempts \in Nat
    /\ 0 \in 0..MaxEvents /\ NoEvent \in Cursor
  BY DeliveryAssumption DEF Cursor

\* The number of admitted streams is the latest of them, or none.
LEMMA AdmittedType ==
    Admitted \in Stream \cup {None}
<1> DEFINE A == {s \in Stream : outcome[s] # "absent"}
<1>1. IsFiniteSet(Stream) /\ Cardinality(Stream) = MaxTurns
  BY FS_Interval, Bounds
<1>2. A \subseteq Stream
  OBVIOUS
<1>3. Cardinality(A) \in Nat /\ Cardinality(A) <= MaxTurns
  BY <1>1, <1>2, FS_Subset, FS_CardinalityType
<1> QED
  BY <1>3, Bounds DEF Admitted

\* A step that admits stream x alone, or none, adds one to it at most.
LEMMA AdmittedGrows ==
    ASSUME NEW x,
           \A s \in Stream : outcome'[s] # "absent" => outcome[s] # "absent" \/ s = x
    PROVE  Admitted' <= Admitted + 1
<1> DEFINE A == {s \in Stream : outcome[s] # "absent"}
           B == {s \in Stream : outcome'[s] # "absent"}
<1>1. IsFiniteSet(Stream)
  BY FS_Interval, Bounds
<1>2. IsFiniteSet(A) /\ Cardinality(A) \in Nat
  BY <1>1, FS_Subset, FS_CardinalityType
<1>3. IsFiniteSet(A \cup {x}) /\ Cardinality(A \cup {x}) <= Cardinality(A) + 1
  BY <1>2, FS_AddElement
<1>4. B \subseteq A \cup {x}
  OBVIOUS
<1>5. Cardinality(B) <= Cardinality(A \cup {x}) /\ Cardinality(A \cup {x}) \in Nat
      /\ Cardinality(B) \in Nat
  BY <1>3, <1>4, FS_Subset, FS_CardinalityType
<1> QED
  BY <1>2, <1>3, <1>5 DEF Admitted

\* A step that admits no stream does not add to their number.
LEMMA AdmittedStays ==
    ASSUME \A s \in Stream : outcome'[s] # "absent" => outcome[s] # "absent"
    PROVE  Admitted' <= Admitted
<1> DEFINE A == {s \in Stream : outcome[s] # "absent"}
           B == {s \in Stream : outcome'[s] # "absent"}
<1>1. IsFiniteSet(A)
  <2>1. IsFiniteSet(Stream) /\ A \subseteq Stream
    BY FS_Interval, Bounds
  <2> QED
    BY <2>1, FS_Subset
<1>2. B \subseteq A
  OBVIOUS
<1> QED
  BY <1>1, <1>2, FS_Subset DEF Admitted

\* The submissions in flight are finitely many.
LEMMA SubmitsCount ==
    ASSUME NEW q \in Seq(ClientFrame)
    PROVE  IsFiniteSet(SubmitsIn(q)) /\ Cardinality(SubmitsIn(q)) \in Nat
<1>1. IsFiniteSet(1..Len(q)) /\ DOMAIN q = 1..Len(q)
  BY LenProperties, FS_Interval
<1> QED
  BY <1>1, FS_Subset, FS_CardinalityType DEF SubmitsIn

\* Taking the first frame takes a submission with it, if it is one.
LEMMA SubmitsInTail ==
    ASSUME NEW q \in Seq(ClientFrame), q # << >>
    PROVE  /\ Cardinality(SubmitsIn(Tail(q))) <= Cardinality(SubmitsIn(q))
           /\ Head(q).tag = "SubmitTurn"
                 => Cardinality(SubmitsIn(Tail(q))) + 1 <= Cardinality(SubmitsIn(q))
<1> DEFINE S == SubmitsIn(q)
           T == SubmitsIn(Tail(q))
           shift == [i \in T |-> i + 1]
<1>1. /\ Tail(q) \in Seq(ClientFrame) /\ Len(q) \in Nat \ {0} /\ Len(Tail(q)) = Len(q) - 1
      /\ DOMAIN q = 1..Len(q) /\ DOMAIN Tail(q) = 1..(Len(q) - 1)
      /\ \A i \in 1..(Len(q) - 1) : Tail(q)[i] = q[i + 1]
  BY HeadTailProperties, LenProperties, EmptySeq
<1>2. Head(q) = q[1]
  OBVIOUS
<1>3. \A i \in T : i \in Int /\ i + 1 \in S \ {1}
  BY <1>1 DEF SubmitsIn
<1>4. shift \in [T -> S \ {1}]
  BY <1>3
<1>5. \A i, j \in T : shift[i] = shift[j] => i = j
  BY <1>3
<1>6. shift \in Injection(T, S \ {1})
  BY <1>4, <1>5 DEF Injection, IsInjective
<1>7. IsFiniteSet(S) /\ Cardinality(S) \in Nat
  BY SubmitsCount
<1>8. /\ IsFiniteSet(S \ {1})
      /\ Cardinality(S \ {1}) = IF 1 \in S THEN Cardinality(S) - 1 ELSE Cardinality(S)
  BY <1>7, FS_RemoveElement
<1>9. Cardinality(T) <= Cardinality(S \ {1}) /\ Cardinality(T) \in Nat
  <2>1. Cardinality(T) \in Nat
    BY <1>1, SubmitsCount
  <2> HIDE DEF S, T, shift
  <2> QED
    BY <1>6, <1>8, <2>1, FS_Injection
<1>10. Head(q).tag = "SubmitTurn" => 1 \in S
  BY <1>1, <1>2 DEF SubmitsIn
<1> HIDE DEF S, T
<1>11. Cardinality(T) <= Cardinality(S) /\ (1 \in S => Cardinality(T) + 1 <= Cardinality(S))
  BY <1>7, <1>8, <1>9
<1> QED
  BY <1>10, <1>11 DEF S, T

\* A frame more is one submission more, if it is one.
LEMMA SubmitsInAppend ==
    ASSUME NEW q \in Seq(ClientFrame), NEW frame \in ClientFrame
    PROVE  /\ Cardinality(SubmitsIn(Append(q, frame))) <= Cardinality(SubmitsIn(q)) + 1
           /\ frame.tag = "ResumeAck" => SubmitsIn(Append(q, frame)) = SubmitsIn(q)
<1>1. /\ Append(q, frame) \in Seq(ClientFrame) /\ Len(q) \in Nat
      /\ DOMAIN q = 1..Len(q) /\ DOMAIN Append(q, frame) = 1..(Len(q) + 1)
      /\ \A i \in 1..Len(q) : Append(q, frame)[i] = q[i]
      /\ Append(q, frame)[Len(q) + 1] = frame
  BY AppendProperties, LenProperties
<1>2. SubmitsIn(Append(q, frame)) \subseteq SubmitsIn(q) \cup {Len(q) + 1}
  BY <1>1 DEF SubmitsIn
<1>3. IsFiniteSet(SubmitsIn(q)) /\ Cardinality(SubmitsIn(q)) \in Nat
  BY SubmitsCount
<1>4. /\ IsFiniteSet(SubmitsIn(q) \cup {Len(q) + 1})
      /\ Cardinality(SubmitsIn(q) \cup {Len(q) + 1}) <= Cardinality(SubmitsIn(q)) + 1
      /\ Cardinality(SubmitsIn(q) \cup {Len(q) + 1}) \in Nat
  <2> DEFINE S == SubmitsIn(q)
             x == Len(q) + 1
  <2> HIDE DEF S, x
  <2>1. IsFiniteSet(S) /\ Cardinality(S) \in Nat
    BY <1>3 DEF S
  <2>2. IsFiniteSet(S \cup {x})
        /\ Cardinality(S \cup {x}) = IF x \in S THEN Cardinality(S) ELSE Cardinality(S) + 1
    BY <2>1, FS_AddElement
  <2>3. Cardinality(S \cup {x}) \in Nat
    BY <2>2, FS_CardinalityType
  <2> QED
    BY <2>1, <2>2, <2>3 DEF S, x
<1>5. /\ Cardinality(SubmitsIn(Append(q, frame))) <= Cardinality(SubmitsIn(q) \cup {Len(q) + 1})
      /\ Cardinality(SubmitsIn(Append(q, frame))) \in Nat
  BY <1>1, <1>2, <1>4, FS_Subset, SubmitsCount
<1>6. ASSUME frame.tag = "ResumeAck" PROVE SubmitsIn(Append(q, frame)) = SubmitsIn(q)
  BY <1>1, <1>6 DEF SubmitsIn
<1> QED
  BY <1>3, <1>4, <1>5, <1>6

\* Their number is a natural number, before and after a step.
LEMMA AdmittedNumber == Admitted \in Nat /\ Admitted' \in Nat
<1>1. Admitted \in Stream \cup {None}
  BY AdmittedType
<1>2. (Admitted \in Stream \cup {None})'
  BY AdmittedType, PTL
<1> QED
  BY <1>1, <1>2, Bounds

\* What these counts leave of TurnsFit.
LEMMA StillFits ==
    ASSUME WireType, toServer' \in Seq(ClientFrame), TurnsFit,
           \/ /\ Admitted' <= Admitted
              /\ Cardinality(SubmitsIn(toServer')) <= Cardinality(SubmitsIn(toServer))
           \/ /\ Admitted' <= Admitted + 1
              /\ Cardinality(SubmitsIn(toServer')) + 1 <= Cardinality(SubmitsIn(toServer))
    PROVE  TurnsFit'
<1>1. Cardinality(SubmitsIn(toServer)) \in Nat /\ Cardinality(SubmitsIn(toServer')) \in Nat
  BY SubmitsCount DEF WireType
<1>2. Admitted \in Nat /\ Admitted' \in Nat
  BY AdmittedNumber
<1> QED
  BY <1>1, <1>2, Bounds DEF TurnsFit

-----------------------------------------------------------------------------
(* Frames and cursors *)

\* One or two members of a set make a sequence over it.
LEMMA ShortSequences ==
    ASSUME NEW S, NEW x \in S, NEW y \in S
    PROVE  <<x>> \in Seq(S) /\ <<x, y>> \in Seq(S)
  OBVIOUS

\* A single frame to send, which is not a probe.
LEMMA OneFrame ==
    ASSUME NEW frame \in WireFrame, frame.tag # "ResumeProbe"
    PROVE  <<frame>> \in Seq(WireFrame) /\ \A j \in DOMAIN <<frame>> : <<frame>>[j].tag # "ResumeProbe"
  BY ShortSequences

\* The last event of a stream is a cursor.
LEMMA LastType ==
    ASSUME EngineType, NEW s \in Stream
    PROVE  log[s] \in 0..MaxEvents /\ log[s] - 1 \in Cursor
  BY Bounds DEF EngineType, Cursor

\* The frame that tells a stream's outcome is well typed.
LEMMA TerminalFrame ==
    ASSUME EngineType, NEW s \in Stream, outcome[s] \in Told
    PROVE  /\ StreamTerminal(s) \in WireFrame
           /\ StreamTerminal(s).tag = "StreamTerminal"
<1>1. outcome[s] \in {"completed", "failed", "interrupted"} /\ log[s] - 1 \in Cursor
  BY LastType DEF Told, Terminal
<1> QED
  BY <1>1 DEF StreamTerminal, Frame, WireFrame, ServerFrame, Told, Terminal, Cursor

\* Frames are sent behind those in flight, and only to an open connection.
LEMMA Sending ==
    ASSUME toClient \in Seq(WireFrame), NEW frames \in Seq(WireFrame), Send(frames)
    PROVE  /\ toClient' \in Seq(WireFrame)
           /\ \A i \in DOMAIN toClient : i \in DOMAIN toClient' /\ toClient'[i] = toClient[i]
           /\ \A i \in DOMAIN toClient' :
                 \/ i \in DOMAIN toClient
                 \/ conn.state = "open" /\ \E j \in DOMAIN frames : toClient'[i] = frames[j]
<1>1. CASE conn.state # "open"
  BY <1>1 DEF Send
<1>2. CASE conn.state = "open"
  <2>1. toClient' = toClient \o frames
    BY <1>2 DEF Send
  <2>2. /\ toClient' \in Seq(WireFrame)
        /\ Len(toClient) \in Nat /\ Len(frames) \in Nat
        /\ DOMAIN toClient = 1..Len(toClient) /\ DOMAIN frames = 1..Len(frames)
        /\ DOMAIN toClient' = 1..(Len(toClient) + Len(frames))
        /\ \A i \in 1..(Len(toClient) + Len(frames)) :
              toClient'[i] = IF i <= Len(toClient) THEN toClient[i] ELSE frames[i - Len(toClient)]
    BY <2>1, ConcatProperties, LenProperties
  <2>3. \A i \in 1..(Len(toClient) + Len(frames)) :
           i > Len(toClient) => i - Len(toClient) \in 1..Len(frames)
    BY <2>2
  <2>4. \A i \in DOMAIN toClient : i \in DOMAIN toClient' /\ toClient'[i] = toClient[i]
    BY <2>2
  <2>5. \A i \in DOMAIN toClient' :
           i \in DOMAIN toClient \/ \E j \in DOMAIN frames : toClient'[i] = frames[j]
    <3> SUFFICES ASSUME NEW i \in 1..(Len(toClient) + Len(frames)), i > Len(toClient)
                 PROVE  \E j \in DOMAIN frames : toClient'[i] = frames[j]
      BY <2>2
    <3>1. i - Len(toClient) \in DOMAIN frames /\ toClient'[i] = frames[i - Len(toClient)]
      BY <2>2, <2>3
    <3> QED
      BY <3>1
  <2> QED
    BY <1>2, <2>2, <2>4, <2>5
<1> QED
  BY <1>1, <1>2

\* Without a probe among them, nothing changes for the resume.
LEMMA SendingProbes ==
    ASSUME toClient \in Seq(WireFrame), NEW frames \in Seq(WireFrame), Send(frames),
           \A j \in DOMAIN frames : frames[j].tag # "ResumeProbe"
    PROVE  Probes' = Probes
<1>1. \A i \in DOMAIN toClient' \ DOMAIN toClient : toClient'[i].tag # "ResumeProbe"
  BY Sending
<1> QED
  BY <1>1, Sending DEF Probes, IsProbe

\* The probe that is applied is gone, the others move up.
LEMMA TailProbes ==
    ASSUME toClient \in Seq(WireFrame), toClient # << >>, toClient' = Tail(toClient)
    PROVE  /\ toClient' \in Seq(WireFrame)
           /\ \A i \in Probes' : i \in Int /\ i # 0 /\ i + 1 \in Probes
           /\ \A i \in Probes : i \in Nat /\ (i # 1 => i - 1 \in Probes')
           /\ 1 \in DOMAIN toClient /\ Head(toClient) = toClient[1]
           /\ Head(toClient) \in WireFrame
           /\ \A i \in DOMAIN toClient' : i + 1 \in DOMAIN toClient /\ toClient'[i] = toClient[i + 1]
<1>1. /\ toClient' \in Seq(WireFrame) /\ Len(toClient) \in Nat \ {0}
      /\ Head(toClient) \in WireFrame
      /\ Len(toClient') = Len(toClient) - 1
      /\ DOMAIN toClient = 1..Len(toClient) /\ DOMAIN toClient' = 1..(Len(toClient) - 1)
      /\ \A i \in 1..(Len(toClient) - 1) : toClient'[i] = toClient[i + 1]
  BY HeadTailProperties, LenProperties, EmptySeq
<1>2. \A i \in Probes' : i \in Int /\ i # 0 /\ i + 1 \in Probes
  BY <1>1 DEF Probes
<1>3. \A i \in Probes : i \in Nat /\ (i # 1 => i - 1 \in Probes')
  <2> SUFFICES ASSUME NEW i \in Probes PROVE i \in Nat /\ (i # 1 => i - 1 \in Probes')
    OBVIOUS
  <2>1. i \in 1..Len(toClient) /\ IsProbe(toClient[i])
    BY <1>1 DEF Probes
  <2>2. ASSUME i # 1 PROVE i - 1 \in 1..(Len(toClient) - 1) /\ toClient'[i - 1] = toClient[i]
    BY <1>1, <2>1, <2>2
  <2>3. i # 1 => i - 1 \in DOMAIN toClient' /\ IsProbe(toClient'[i - 1])
    BY <1>1, <2>1, <2>2
  <2> QED
    BY <2>1, <2>3 DEF Probes
<1>4. Head(toClient) = toClient[1]
  OBVIOUS
<1> QED
  BY <1>1, <1>2, <1>3, <1>4

\* The frame that is taken is gone, the acknowledgements behind it move up.
LEMMA TailAcks ==
    ASSUME toServer \in Seq(ClientFrame), toServer # << >>, toServer' = Tail(toServer)
    PROVE  /\ toServer' \in Seq(ClientFrame)
           /\ \A i \in Acks' : i \in Int /\ i # 0 /\ i + 1 \in Acks
           /\ \A i \in Acks : i \in Nat /\ (i # 1 => i - 1 \in Acks')
           /\ 1 \in DOMAIN toServer /\ Head(toServer) = toServer[1]
           /\ Head(toServer) \in ClientFrame
<1>1. /\ toServer' \in Seq(ClientFrame) /\ Len(toServer) \in Nat \ {0}
      /\ Head(toServer) \in ClientFrame
      /\ Len(toServer') = Len(toServer) - 1
      /\ DOMAIN toServer = 1..Len(toServer) /\ DOMAIN toServer' = 1..(Len(toServer) - 1)
      /\ \A i \in 1..(Len(toServer) - 1) : toServer'[i] = toServer[i + 1]
  BY HeadTailProperties, LenProperties, EmptySeq
<1>2. \A i \in Acks' : i \in Int /\ i # 0 /\ i + 1 \in Acks
  BY <1>1 DEF Acks
<1>3. \A i \in Acks : i \in Nat /\ (i # 1 => i - 1 \in Acks')
  <2> SUFFICES ASSUME NEW i \in Acks PROVE i \in Nat /\ (i # 1 => i - 1 \in Acks')
    OBVIOUS
  <2>1. i \in 1..Len(toServer) /\ toServer[i].tag = "ResumeAck"
    BY <1>1 DEF Acks
  <2>2. ASSUME i # 1 PROVE i - 1 \in 1..(Len(toServer) - 1) /\ toServer'[i - 1] = toServer[i]
    BY <1>1, <2>1, <2>2
  <2> QED
    BY <1>1, <2>1, <2>2 DEF Acks
<1>4. Head(toServer) = toServer[1]
  OBVIOUS
<1> QED
  BY <1>1, <1>2, <1>3, <1>4

-----------------------------------------------------------------------------
(* What a handoff sends *)

\* The events of the backlog and those parked, behind the mark.
ToSend(gate, through) ==
    {n \in (0..through) \cup {gate.pending[i] : i \in DOMAIN gate.pending} : n > gate.highWater}

UpTo(S, n) == {m \in S : m <= n}

\* The ranks in a finite set of numbers are those from 1 to its cardinality.
LEMMA Ranks ==
    ASSUME NEW S, S \subseteq Int, IsFiniteSet(S)
    PROVE  /\ Cardinality(S) \in Nat
           /\ \A i \in 1..Cardinality(S) : \E n \in S : Cardinality(UpTo(S, n)) = i
           /\ \A n \in S : Cardinality(UpTo(S, n)) = Cardinality(S) => \A m \in S : m <= n
<1> DEFINE rank(n) == Cardinality(UpTo(S, n))
           k == Cardinality(S)
           f == [n \in S |-> rank(n)]
<1>1. k \in Nat
  BY FS_CardinalityType
<1>2. \A n \in S : UpTo(S, n) \subseteq S /\ n \in UpTo(S, n)
  BY DEF UpTo
<1>3. ASSUME NEW n \in S
      PROVE  /\ IsFiniteSet(UpTo(S, n)) /\ rank(n) \in 1..k
             /\ rank(n) = k => UpTo(S, n) = S
  <2> DEFINE U == UpTo(S, n)
  <2>1. U \subseteq S /\ n \in U
    BY <1>2
  <2> HIDE DEF U
  <2>2. IsFiniteSet(U) /\ Cardinality(U) <= k /\ (k = Cardinality(U) => S = U)
    BY <2>1, FS_Subset
  <2>3. Cardinality(U) \in Nat /\ Cardinality(U) # 0
    BY <2>1, <2>2, FS_CardinalityType, FS_EmptySet
  <2> QED
    BY <1>1, <2>2, <2>3 DEF U
<1>4. ASSUME NEW m \in S, NEW n \in S, m < n PROVE rank(m) # rank(n)
  <2>1. UpTo(S, m) \subseteq UpTo(S, n) /\ n \in UpTo(S, n) /\ n \notin UpTo(S, m)
    <3>1. m \in Int /\ n \in Int /\ \A p \in S : p \in Int /\ (p <= m => p <= n)
      BY <1>4
    <3>2. ~(n <= m)
      BY <1>4, <3>1
    <3>3. n <= n
      BY <3>1
    <3> QED
      BY <3>1, <3>2, <3>3, Zenon DEF UpTo
  <2> DEFINE U == UpTo(S, m)
             V == UpTo(S, n)
  <2>2. IsFiniteSet(V)
    BY <1>3
  <2> HIDE DEF U, V
  <2>3. Cardinality(V) = Cardinality(U) => V = U
    BY <2>1, <2>2, FS_Subset DEF U, V
  <2> QED
    BY <2>1, <2>3 DEF U, V
<1>5. f \in [S -> 1..k]
  BY <1>3
<1>6. \A m, n \in S : f[m] = f[n] => m = n
  <2> SUFFICES ASSUME NEW m \in S, NEW n \in S, m # n PROVE f[m] # f[n]
    OBVIOUS
  <2>1. m < n \/ n < m
    OBVIOUS
  <2> QED
    BY <1>4, <2>1
<1>7. f \in Injection(S, 1..k)
  BY <1>5, <1>6 DEF Injection, IsInjective
<1>8. IsFiniteSet(1..k) /\ Cardinality(1..k) = k
  BY <1>1, FS_Interval
<1>9. f \in Surjection(S, 1..k)
  <2> HIDE DEF f
  <2> QED
    BY <1>7, <1>8, FS_Injection
<1>10. \A i \in 1..k : \E n \in S : f[n] = i
  BY <1>9 DEF Surjection
<1>11. \A n \in S : rank(n) = k => \A m \in S : m <= n
  BY <1>3 DEF UpTo
<1> QED
  BY <1>1, <1>10, <1>11

\* A finite set of numbers is put in order: each of them once, the largest last.
LEMMA AscendingOrder ==
    ASSUME NEW S, S \subseteq Int, IsFiniteSet(S)
    PROVE  /\ Cardinality(S) \in Nat
           /\ Ascending(S) \in [1..Cardinality(S) -> S]
           /\ \A i, j \in 1..Cardinality(S) : i < j => Ascending(S)[i] < Ascending(S)[j]
           /\ \A n \in S : /\ Cardinality(S) \in 1..Cardinality(S)
                          /\ n <= Ascending(S)[Cardinality(S)]
<1> DEFINE k == Cardinality(S)
           sorted == [i \in 1..k |-> CHOOSE n \in S : Cardinality(UpTo(S, n)) = i]
<1>1. Ascending(S) = sorted
  BY DEF Ascending, UpTo
<1>2. /\ k \in Nat
      /\ \A i \in 1..k : \E n \in S : Cardinality(UpTo(S, n)) = i
      /\ \A n \in S : Cardinality(UpTo(S, n)) = k => \A m \in S : m <= n
  BY Ranks
<1>3. \A i \in 1..k : sorted[i] \in S /\ Cardinality(UpTo(S, sorted[i])) = i
  BY <1>2
<1>4. ASSUME NEW i \in 1..k, NEW j \in 1..k, i < j PROVE sorted[i] < sorted[j]
  <2> DEFINE U == UpTo(S, sorted[i])
             V == UpTo(S, sorted[j])
  <2>1. sorted[i] \in Int /\ sorted[j] \in Int /\ Cardinality(U) = i /\ Cardinality(V) = j
    BY <1>3
  <2>2. ASSUME sorted[j] <= sorted[i] PROVE FALSE
    <3>1. V \subseteq U /\ U \subseteq S
      <4> HIDE DEF sorted
      <4>1. \A m \in S : m <= sorted[j] => m <= sorted[i]
        BY <2>1, <2>2
      <4> QED
        BY <4>1 DEF UpTo
    <3> HIDE DEF sorted, U, V
    <3>2. IsFiniteSet(U)
      BY <3>1, FS_Subset
    <3>3. Cardinality(V) <= Cardinality(U)
      BY <3>1, <3>2, FS_Subset
    <3> QED
      BY <1>2, <1>4, <2>1, <3>3
  <2> QED
    BY <2>1, <2>2
<1>5. ASSUME NEW n \in S PROVE k \in 1..k /\ n <= sorted[k]
  <2>1. k # 0
    BY <1>5, FS_EmptySet
  <2>2. k \in 1..k
    BY <1>2, <2>1
  <2> QED
    BY <1>2, <1>3, <2>2
<1> QED
  BY <1>1, <1>2, <1>3, <1>4, <1>5

\* The events a handoff sends are those, and the last is the latest of them.
LEMMA HandedOffLast ==
    ASSUME NEW gate \in Gate, NEW through \in Cursor
    PROVE  /\ HandedOff(gate, through) \in Seq(0..MaxEvents)
           /\ \A n \in ToSend(gate, through) :
                 /\ HandedOff(gate, through) # << >>
                 /\ n <= HandedOff(gate, through)[Len(HandedOff(gate, through))]
           /\ HandedOff(gate, through) # << >>
                 => HandedOff(gate, through)[Len(HandedOff(gate, through))] > gate.highWater
<1> DEFINE S == ToSend(gate, through)
           k == Cardinality(S)
           sent == Ascending(S)
<1>1. HandedOff(gate, through) = sent
  BY DEF HandedOff, ToSend
<1>2. S \subseteq 0..MaxEvents
  <2>1. gate.pending \in Seq(0..MaxEvents) /\ through \in Int /\ through <= MaxEvents
    BY Bounds DEF Gate, Cursor
  <2>2. \A i \in DOMAIN gate.pending : gate.pending[i] \in 0..MaxEvents
    BY <2>1, LenProperties
  <2> QED
    BY <2>1, <2>2, Bounds DEF ToSend
<1>3. S \subseteq Int /\ IsFiniteSet(S)
  <2>1. IsFiniteSet(0..MaxEvents) /\ 0..MaxEvents \subseteq Int
    BY Bounds, FS_Interval
  <2> HIDE DEF S
  <2> QED
    BY <1>2, <2>1, FS_Subset
<1> HIDE DEF S
<1>4. /\ k \in Nat /\ sent \in [1..k -> S]
      /\ \A n \in S : k \in 1..k /\ n <= sent[k]
  BY <1>3, AscendingOrder
<1> HIDE DEF sent
<1>5. sent \in Seq(0..MaxEvents) /\ Len(sent) = k
  <2>1. sent \in [1..k -> 0..MaxEvents]
    BY <1>2, <1>4
  <2>2. sent \in Seq(0..MaxEvents)
    BY <1>4, <2>1, SeqDef
  <2>3. DOMAIN sent = 1..k /\ DOMAIN sent = 1..Len(sent) /\ Len(sent) \in Nat
    BY <2>1, <2>2, LenProperties
  <2> QED
    BY <1>4, <2>2, <2>3
<1>6. ASSUME NEW n \in S PROVE sent # << >> /\ n <= sent[Len(sent)]
  BY <1>4, <1>5
<1>7. ASSUME sent # << >> PROVE sent[Len(sent)] > gate.highWater
  <2>1. k # 0
    BY <1>5, <1>7, EmptySeq
  <2>2. sent[k] \in S
    BY <1>4, <2>1
  <2> QED
    BY <1>5, <2>2 DEF S, ToSend
<1> QED
  BY <1>1, <1>5, <1>6, <1>7 DEF S

-----------------------------------------------------------------------------
(* The engine's steps *)

\* A wake neither admits a stream nor takes one away.
LEMMA WokenType ==
    ASSUME EngineType, EngineAgrees
    PROVE  /\ Woken \in [Stream -> Outcome]
           /\ \A s \in Stream : Woken[s] = "absent" <=> outcome[s] = "absent"
<1>1. outcome \in [Stream -> Outcome] /\ "interrupted" \in Outcome
  BY DEF EngineType, Outcome
<1>2. active # None => active \in Stream /\ outcome[active] # "absent"
  BY DEF EngineType, EngineAgrees
<1> QED
  BY <1>1, <1>2 DEF Woken

\* An engine that does not move keeps its types and what it has published.
LEMMA EngineKept ==
    ASSUME EngineType, EngineAgrees, UNCHANGED engine,
           notices' \subseteq Stream, ringing' \in Stream \cup {None}
    PROVE  /\ EngineType' /\ EngineAgrees' /\ Admitted' <= Admitted
           /\ \A s \in Stream : Published(s)' = Published(s)
<1>1. Admitted' <= Admitted
  BY AdmittedStays DEF engine
<1>2. \A s \in Stream : Published(s)' = Published(s)
  BY DEF Published, engine
<1> QED
  BY <1>1, <1>2 DEF EngineType, EngineAgrees, engine

\* So does one that a wake has told of an interrupted turn.
LEMMA EngineWakes ==
    ASSUME EngineType, EngineAgrees, outcome' = Woken,
           UNCHANGED <<log, active, driven, outbox>>,
           notices' \subseteq Stream, ringing' \in Stream \cup {None}
    PROVE  /\ EngineType' /\ EngineAgrees' /\ Admitted' <= Admitted
           /\ \A s \in Stream : Published(s)' = Published(s)
<1>1. Admitted' <= Admitted
  BY WokenType, AdmittedStays
<1>2. \A s \in Stream : Published(s)' = Published(s)
  BY DEF Published
<1>3. EngineType'
  BY WokenType DEF EngineType
<1>4. EngineAgrees'
  BY WokenType DEF EngineType, EngineAgrees
<1> QED
  BY <1>1, <1>2, <1>3, <1>4

\* An admitted turn is one stream more; what was published stays.
LEMMA EngineAdmits ==
    ASSUME EngineType, EngineAgrees, outcome' = AdmitStream(Woken),
           UNCHANGED <<log, active, driven, outbox, notices, ringing>>
    PROVE  /\ EngineType' /\ EngineAgrees' /\ Admitted' <= Admitted + 1
           /\ \A s \in Stream : Published(s)' = Published(s)
<1> DEFINE x == Admitted + 1
<1>1. outcome' = [Woken EXCEPT ![x] = "open"] /\ "open" \in Outcome
  BY DEF AdmitStream, Outcome
<1> HIDE DEF x
<1>2. outcome' \in [Stream -> Outcome]
  BY <1>1, WokenType
<1>3. \A s \in Stream : outcome'[s] = IF s = x THEN "open" ELSE Woken[s]
  BY <1>1, WokenType
<1>4. \A s \in Stream : outcome'[s] # "absent" => outcome[s] # "absent" \/ s = x
  BY <1>3, WokenType
<1>5. Admitted' <= Admitted + 1
  BY <1>4, AdmittedGrows
<1>6. \A s \in Stream : Published(s)' = Published(s)
  BY DEF Published
<1>7. EngineType'
  BY <1>2 DEF EngineType
<1>8. EngineAgrees'
  BY <1>3, WokenType DEF EngineType, EngineAgrees
<1> QED
  BY <1>5, <1>6, <1>7, <1>8

\* Taking the turn up, an event more and the end leave what was broadcast as it is.
LEMMA StartTurnEngine ==
    ASSUME EngineType, EngineAgrees, StartTurn
    PROVE  /\ EngineType' /\ EngineAgrees' /\ Admitted' <= Admitted
           /\ \A s \in Stream : Published(s)' = Published(s)
<1>1. UNCHANGED <<log, outcome, outbox, notices, ringing>> /\ driven' = TRUE /\ active = None
  BY DEF StartTurn
<1>2. active' \in Stream /\ outcome[active'] = "open"
  BY DEF StartTurn
<1>3. Admitted' <= Admitted
  BY <1>1, AdmittedStays
<1>4. outbox = NoEvent
  BY <1>1 DEF EngineAgrees
<1>5. \A s \in Stream : Published(s)' = Published(s)
  BY <1>1, <1>4 DEF Published
<1>6. EngineType'
  BY <1>1, <1>2 DEF EngineType
<1>7. EngineAgrees'
  BY <1>1, <1>2, <1>4 DEF EngineAgrees
<1> QED
  BY <1>3, <1>5, <1>6, <1>7

\* An appended event is in the outbox: it is not published yet.
LEMMA AppendToLogEngine ==
    ASSUME EngineType, EngineAgrees, AppendToLog
    PROVE  /\ EngineType' /\ EngineAgrees' /\ Admitted' <= Admitted
           /\ \A s \in Stream : Published(s)' = Published(s)
<1>1. /\ UNCHANGED <<outcome, active, driven, notices, ringing>>
      /\ log' = [log EXCEPT ![active] = @ + 1] /\ outbox' = log[active]
      /\ driven /\ outbox = NoEvent /\ log[active] < MaxEvents
  BY DEF AppendToLog
<1>2. active \in Stream /\ log[active] \in 0..MaxEvents /\ log \in [Stream -> 0..MaxEvents]
  BY <1>1 DEF EngineType, EngineAgrees
<1>3. log[active] + 1 \in 0..MaxEvents /\ log[active] \in Cursor
  BY <1>1, <1>2, Bounds DEF Cursor
<1>4. /\ log' \in [Stream -> 0..MaxEvents]
      /\ \A s \in Stream : log'[s] = IF s = active THEN log[active] + 1 ELSE log[s]
  BY <1>1, <1>2, <1>3
<1>5. \A s \in Stream : Published(s)' = Published(s)
  BY <1>1, <1>2, <1>4 DEF Published
<1>6. Admitted' <= Admitted
  BY <1>1, AdmittedStays
<1>7. EngineType'
  BY <1>1, <1>3, <1>4 DEF EngineType
<1>8. EngineAgrees'
  BY <1>1, <1>2, <1>4 DEF EngineAgrees
<1> QED
  BY <1>5, <1>6, <1>7, <1>8

\* A turn ends with an empty outbox, so all its events are published.
LEMMA EndTurnEngine ==
    ASSUME EngineType, EngineAgrees, NEW status \in Terminal \cup {"interrupted"},
           EndTurn(status)
    PROVE  /\ EngineType' /\ EngineAgrees' /\ Admitted' <= Admitted
           /\ \A s \in Stream : Published(s)' = Published(s)
<1>1. /\ UNCHANGED <<log, outbox, ringing>> /\ driven /\ outbox = NoEvent /\ driven' = FALSE
      /\ outcome' = [outcome EXCEPT ![active] = status]
      /\ active' \in {active, None} /\ notices' = notices \cup {active}
  BY DEF EndTurn
<1>2. active \in Stream /\ status \in Outcome /\ status # "absent"
  BY <1>1 DEF EngineType, EngineAgrees, Terminal, Outcome
<1>3. /\ outcome' \in [Stream -> Outcome]
      /\ \A s \in Stream : outcome'[s] = IF s = active THEN status ELSE outcome[s]
  BY <1>1, <1>2 DEF EngineType
<1>4. outcome[active] # "absent"
  BY <1>1 DEF EngineAgrees
<1>5. Admitted' <= Admitted
  BY <1>3, <1>4, AdmittedStays
<1>6. \A s \in Stream : Published(s)' = Published(s)
  BY <1>1 DEF Published
<1>7. EngineType'
  BY <1>1, <1>2, <1>3 DEF EngineType
<1>8. EngineAgrees'
  BY <1>1, <1>2, <1>3 DEF EngineAgrees
<1> QED
  BY <1>5, <1>6, <1>7, <1>8

\* The alarm's recovery takes the interrupted turn up again, or wakes.
LEMMA RecoverEngine ==
    ASSUME EngineType, EngineAgrees, Recover
    PROVE  /\ EngineType' /\ EngineAgrees' /\ Admitted' <= Admitted
           /\ \A s \in Stream : Published(s)' = Published(s)
<1>1. UNCHANGED <<log, active, outbox>> /\ ringing' = None /\ ringing \in Stream
  BY DEF Recover, EngineType
<1>2. CASE outcome' = Woken /\ driven' = driven /\ notices' = notices \cup {ringing}
  <2>1. notices' \subseteq Stream
    BY <1>1, <1>2 DEF EngineType
  <2> QED
    BY <1>1, <1>2, <2>1, EngineWakes
<1>3. CASE /\ active = ringing /\ outcome' = [outcome EXCEPT ![active] = "open"]
           /\ driven' = TRUE /\ notices' = notices
  <2>1. active \in Stream /\ outcome[active] # "absent" /\ "open" \in Outcome
    BY <1>1, <1>3 DEF EngineType, EngineAgrees, Outcome
  <2>2. /\ outcome' \in [Stream -> Outcome]
        /\ \A s \in Stream : outcome'[s] = IF s = active THEN "open" ELSE outcome[s]
    BY <1>3, <2>1 DEF EngineType
  <2>3. Admitted' <= Admitted
    BY <2>1, <2>2, AdmittedStays
  <2>4. \A s \in Stream : Published(s)' = Published(s)
    BY <1>1 DEF Published
  <2>5. EngineType'
    BY <1>1, <1>3, <2>2 DEF EngineType
  <2>6. EngineAgrees'
    BY <1>1, <1>3, <2>1, <2>2 DEF EngineAgrees
  <2> QED
    BY <2>3, <2>4, <2>5, <2>6
<1> QED
  BY <1>2, <1>3 DEF Recover

\* A probe names a stream, or none.
LEMMA ProbedStreamType ==
    ASSUME EngineType
    PROVE  ProbedStream \in Stream \cup {None}
  BY AdmittedType DEF ProbedStream, EngineType

-----------------------------------------------------------------------------
(* The client *)

\* Every frame leaves a well-typed client and its socket alone.
LEMMA AppliedType ==
    ASSUME NEW c, c \in Showing(c.recent), NEW frame \in WireFrame
    PROVE  /\ Applied(c, frame) \in Showing(Applied(c, frame).recent)
           /\ Applied(c, frame).socket = c.socket
           /\ Applied(c, frame).attempts = c.attempts
           /\ Clamped(c, frame) \in Cursor
<1>1. /\ frame.stream \in Stream \cup {None} /\ frame.sequence \in Cursor
      /\ c.lastSequence \in Cursor /\ c.stream \in Stream \cup {None}
  BY DEF WireFrame, ServerFrame, Showing, Cursor
<1>2. Clamped(c, frame) \in Cursor
  BY <1>1, Bounds DEF Clamped
<1> DEFINE Good(d) == d \in Showing(d.recent) /\ d.socket = c.socket /\ d.attempts = c.attempts
<1>3. Good(c)
  OBVIOUS
<1>4. Good(Extended(c, frame))
  <2> DEFINE recent == Append(c.recent, <<frame.stream, frame.sequence>>)
             status == IF frame.info = "replay" THEN "replaying" ELSE "live"
  <2>1. Extended(c, frame) = [c EXCEPT
            !.status = status, !.stream = frame.stream, !.lastSequence = frame.sequence,
            !.inFlight = TRUE, !.recent = recent]
    BY DEF Extended
  <2>2. status \in ClientStatus
    BY DEF ClientStatus
  <2> HIDE DEF recent, status
  <2> QED
    BY <1>1, <2>1, <2>2 DEF Showing
<1>5. Good(OnEvent(c, frame))
  BY <1>3, <1>4 DEF OnEvent
<1>6. Good(OnProbe(c, frame))
  <2> DEFINE recent == Remembered(c, frame)
             active_ == frame.info = "active"
  <2>1. OnProbe(c, frame) = [c EXCEPT
            !.status = "replaying", !.stream = frame.stream,
            !.lastSequence = Clamped(c, frame), !.inFlight = active_, !.recent = recent]
    BY DEF OnProbe
  <2>2. active_ \in BOOLEAN
    OBVIOUS
  <2> HIDE DEF recent, active_
  <2> QED
    BY <1>1, <1>2, <2>1, <2>2 DEF Showing, ClientStatus
<1>7. Good(OnAccepted(c, frame))
  BY <1>1, Bounds DEF OnAccepted, Showing, ClientStatus
<1>8. Good(OnComplete(c, frame))
  <2> DEFINE status == IF c.status \in Terminal \cup {"interrupted"} THEN c.status ELSE "live"
  <2>1. OnComplete(c, frame) = [c EXCEPT
            !.status = status, !.stream = frame.stream, !.lastSequence = frame.sequence]
    BY DEF OnComplete
  <2>2. status \in ClientStatus
    BY DEF Showing, ClientStatus
  <2> HIDE DEF status
  <2> QED
    BY <1>1, <2>1, <2>2 DEF Showing
<1>9. Good(OnRecovering(c, frame))
  BY <1>1 DEF OnRecovering, Showing, ClientStatus
<1>10. frame.tag = "StreamTerminal" => Good(OnTerminal(c, frame))
  BY <1>1 DEF OnTerminal, WireFrame, Showing, ClientStatus, Told, Terminal
<1> HIDE DEF Good
<1>11. Good(Applied(c, frame))
  BY <1>3, <1>5, <1>6, <1>7, <1>8, <1>9, <1>10 DEF Applied
<1> QED
  BY <1>2, <1>11 DEF Good

-----------------------------------------------------------------------------
(* What the steps of the handoff have in common *)

\* Where the handler of a ResumeAck may leave a gate.
Holding == conn.resume.pc \in {"replay", "drain", "failed"}

\* GateHasResume in terms of the three places of a resume.
LEMMA GateHasResumeSets ==
    /\ GateHasResume <=>
          (conn.gate.stream # None => Holding \/ Acks # {} \/ Probes # {})
    /\ GateHasResume' <=>
          (conn'.gate.stream # None => Holding' \/ Acks' # {} \/ Probes' # {})
  BY DEF GateHasResume, Holding, Acks, Probes, IsProbe

\* The resume that is under way stays where it is, or is over.
LEMMA ResumeStays ==
    ASSUME OneResume,
           \A i, j \in Probes' : i = j, \A i, j \in Acks' : i = j,
           Probes' # {} => Probes # {}, Acks' # {} => Acks # {}, Serving' => Serving
    PROVE  OneResume'
  BY DEF OneResume

\* The connection stays as it is, and nothing about its stream is broadcast.
LEMMA HandoffSends ==
    ASSUME TypeInv, Handoff, NEW frames \in Seq(WireFrame), Send(frames),
           \A j \in DOMAIN frames : frames[j].tag # "ResumeProbe",
           conn' = conn, client'.socket = client.socket,
           \A i, j \in Acks' : i = j, Acks' = {} <=> Acks = {},
           conn.state # "open" => toServer' = toServer,
           conn.state = "open" /\ conn.resume.pc = "drain"
              => Published(conn.resume.stream)' = Published(conn.resume.stream)
    PROVE  Handoff'
<1>1. toClient \in Seq(WireFrame)
  BY DEF TypeInv, WireType
<1>2. Probes' = Probes /\ Serving' = Serving /\ Holding' = Holding
  BY <1>1, SendingProbes DEF Serving, Holding
<1>3. SocketAgrees'
  <2>1. conn.state = "open" => client.socket = "open"
    BY DEF Handoff, SocketAgrees
  <2>2. client.socket \in {"none", "connecting"} =>
           \A i \in DOMAIN toClient' : i \in DOMAIN toClient /\ toClient'[i] = toClient[i]
    BY <1>1, <2>1, Sending
  <2> QED
    BY <1>2, <2>2 DEF Handoff, SocketAgrees
<1>4. OneResume'
  BY <1>2, ResumeStays DEF Handoff, OneResume
<1>5. GateHasResume'
  BY <1>2, GateHasResumeSets DEF Handoff
<1>6. GateFollows'
  BY <1>2 DEF Handoff, GateFollows
<1>7. NothingMissed'
  BY DEF Handoff, NothingMissed
<1> QED
  BY <1>3, <1>4, <1>5, <1>6, <1>7 DEF Handoff

\* The same without a frame.
LEMMA HandoffKept ==
    ASSUME TypeInv, Handoff, UNCHANGED <<conn, toClient, toServer>>,
           client'.socket = client.socket,
           conn.state = "open" /\ conn.resume.pc = "drain"
              => Published(conn.resume.stream)' = Published(conn.resume.stream)
    PROVE  Handoff'
<1>1. Probes' = Probes /\ Acks' = Acks /\ Serving' = Serving /\ Holding' = Holding
  BY DEF Probes, Acks, Serving, Holding
<1>2. SocketAgrees'
  BY <1>1 DEF Handoff, SocketAgrees
<1>3. OneResume'
  BY <1>1 DEF Handoff, OneResume
<1>4. GateHasResume'
  BY <1>1, GateHasResumeSets DEF Handoff
<1>5. GateFollows'
  BY <1>1 DEF Handoff, GateFollows
<1>6. NothingMissed'
  BY DEF Handoff, NothingMissed
<1> QED
  BY <1>2, <1>3, <1>4, <1>5, <1>6 DEF Handoff

\* A connection that is closed has neither gate nor handoff.
LEMMA HandoffCloses ==
    ASSUME Handoff, OneResume', conn'.state = "closed", conn'.gate.stream = None,
           conn'.resume \in {conn.resume, NoResume},
           client'.socket \in {"none", "connecting"} =>
              \A i \in DOMAIN toClient' : toClient'[i].stale
    PROVE  Handoff'
<1>2. NoResume.pc = "none"
  BY DEF NoResume
<1>3. SocketAgrees'
  BY DEF SocketAgrees
<1>4. GateHasResume'
  BY DEF GateHasResume
<1>5. GateFollows'
  BY <1>2 DEF Handoff, GateFollows, Serving
<1>6. NothingMissed'
  BY DEF NothingMissed
<1> QED
  BY <1>3, <1>4, <1>5, <1>6 DEF Handoff

\* In every other place of a resume the two sides agree on what is under way.
LEMMA ServingAlone ==
    ASSUME Handoff, Serving
    PROVE  Probes = {} /\ Acks = {}
  BY DEF Handoff, OneResume

\* A handler of a ResumeAck serves a stream.
LEMMA ResumeStream ==
    ASSUME TypeInv, Handoff, Serving
    PROVE  conn.resume.stream \in Stream
  BY DEF TypeInv, EndsType, Connection, Resume, Handoff, GateFollows

\* Only the engine moves.
LEMMA EngineOnly ==
    ASSUME TypeInv, Handoff, EngineType', EngineAgrees', TurnsFit',
           \A s \in Stream : Published(s)' = Published(s),
           UNCHANGED <<conn, toClient, toServer, client, online, used>>
    PROVE  DeliveryInv'
<1>1. TypeInv'
  BY DEF TypeInv, WireType, EndsType
<1>2. Handoff'
  BY HandoffKept, ResumeStream DEF Serving
<1> QED
  BY <1>1, <1>2 DEF DeliveryInv

\* The engine's own steps touch neither the connection nor any frame.
LEMMA EngineActions ==
    ASSUME TypeInv, Handoff,
           \/ AdmitElsewhere \/ StartTurn \/ AppendToLog \/ Recover
           \/ \E status \in Terminal \cup {"interrupted"} : EndTurn(status)
    PROVE  DeliveryInv'
<1>1. EngineType /\ EngineAgrees /\ WireType /\ TurnsFit /\ toServer \in Seq(ClientFrame)
  BY DEF TypeInv, WireType
<1>2. CASE AdmitElsewhere
  <2>1. /\ EngineType' /\ EngineAgrees' /\ Admitted' <= Admitted + 1
        /\ \A s \in Stream : Published(s)' = Published(s)
        /\ UNCHANGED <<conn, toClient, toServer, client, online, used>>
    BY <1>1, <1>2, EngineAdmits DEF AdmitElsewhere
  <2>2. TurnsFit'
    <3>1. Admitted + Cardinality(SubmitsIn(toServer)) < MaxTurns
      BY <1>2 DEF AdmitElsewhere, Room, SubmitsIn
    <3>2. Admitted \in Nat /\ Admitted' \in Nat /\ Cardinality(SubmitsIn(toServer)) \in Nat
      BY <1>1, AdmittedNumber, SubmitsCount
    <3> QED
      BY <2>1, <3>1, <3>2, Bounds DEF TurnsFit
  <2> QED
    BY <2>1, <2>2, EngineOnly
<1>3. CASE \/ StartTurn \/ AppendToLog \/ Recover
           \/ \E status \in Terminal \cup {"interrupted"} : EndTurn(status)
  <2>1. /\ EngineType' /\ EngineAgrees' /\ Admitted' <= Admitted
        /\ \A s \in Stream : Published(s)' = Published(s)
    BY <1>1, <1>3, StartTurnEngine, AppendToLogEngine, RecoverEngine, EndTurnEngine
  <2>2. UNCHANGED <<conn, toClient, toServer, client, online, used>>
    BY <1>3 DEF StartTurn, AppendToLog, Recover, EndTurn
  <2>3. TurnsFit'
    <3>1. Cardinality(SubmitsIn(toServer)) \in Nat
      BY <1>1, SubmitsCount
    <3> QED
      BY <1>1, <2>1, <2>2, <3>1, StillFits
  <2> QED
    BY <2>1, <2>2, <2>3, EngineOnly
<1> QED
  BY <1>2, <1>3

-----------------------------------------------------------------------------
(* Broadcasts *)

\* What changes of the connection are made of: no gate, no handler, a new and a lost
\* one.
LEMMA ConnectionType ==
    ASSUME EndsType
    PROVE  /\ conn \in Connection /\ conn.gate \in Gate /\ conn.resume \in Resume
           /\ NoGate \in Gate /\ NoResume \in Resume /\ NewConnection \in Connection
           /\ Disconnected \in Connection
           /\ Disconnected.state = "closed" /\ Disconnected.gate = NoGate
           /\ Disconnected.resume = NoResume
           /\ FailedResume \in Resume /\ FailedResume.pc = "failed"
           /\ NewConnection.state = "dialing" /\ NewConnection.gate = NoGate
           /\ NewConnection.resume = NoResume
           /\ NoGate.stream = None /\ NoResume.pc = "none"
<1>1. NoGate \in Gate /\ NoGate.stream = None
  BY Bounds DEF NoGate, Gate, Cursor
<1>2. /\ NoResume \in Resume /\ NoResume.pc = "none"
      /\ FailedResume \in Resume /\ FailedResume.pc = "failed"
  BY Bounds DEF NoResume, FailedResume, Resume
<1>3. conn \in Connection /\ conn.gate \in Gate /\ conn.resume \in Resume
  BY DEF EndsType, Connection
<1>4. /\ NewConnection \in Connection /\ NewConnection.state = "dialing"
      /\ NewConnection.gate = NoGate /\ NewConnection.resume = NoResume
  BY <1>1, <1>2 DEF NewConnection, Connection
<1>5. /\ Disconnected \in Connection /\ Disconnected.state = "closed"
      /\ Disconnected.gate = NoGate /\ Disconnected.resume = NoResume
  BY <1>1, <1>2, <1>3 DEF Disconnected, Connection
<1> QED
  BY <1>1, <1>2, <1>3, <1>4, <1>5

\* The count of turns when nothing is sent to the server.
LEMMA FitsWithout ==
    ASSUME TypeInv, Admitted' <= Admitted, toServer' \in {toServer, << >>}
    PROVE  TurnsFit'
<1>1. toServer \in Seq(ClientFrame) /\ << >> \in Seq(ClientFrame)
  BY DEF TypeInv, WireType
<1>2. Cardinality(SubmitsIn(toServer)) \in Nat
  BY <1>1, SubmitsCount
<1>3. SubmitsIn(<< >>) = {} /\ Cardinality({}) = 0
  BY FS_EmptySet DEF SubmitsIn
<1>4. CASE toServer' = toServer
  BY <1>1, <1>2, <1>4, StillFits DEF TypeInv
<1>5. CASE toServer' = << >>
  <2>0. SubmitsIn(toServer') = {}
    BY <1>5 DEF SubmitsIn
  <2>1. Cardinality(SubmitsIn(toServer')) <= Cardinality(SubmitsIn(toServer))
    BY <1>2, <1>3, <2>0
  <2> QED
    BY <1>1, <1>5, <2>1, StillFits DEF TypeInv
<1> QED
  BY <1>4, <1>5

\* An alarm sends one frame, which is not a probe, or none.
LEMMA AlarmInv ==
    ASSUME TypeInv, Handoff, Alarm
    PROVE  DeliveryInv'
<1> DEFINE frame == Frame("Recovering", active, NoEvent, "")
           frames == IF active # None THEN <<frame>> ELSE << >>
<1>1. /\ Send(frames) /\ ringing' = ProbedStream
      /\ UNCHANGED <<engine, notices, conn, toServer, client, online>>
      /\ used' = [used EXCEPT !.alarms = @ + 1]
  BY DEF Alarm
<1>0. ringing' \in Stream \cup {None}
  BY <1>1, ProbedStreamType DEF TypeInv
<1>2. frames \in Seq(WireFrame) /\ \A j \in DOMAIN frames : frames[j].tag # "ResumeProbe"
  <2>1. CASE active # None
    <3>1. active \in Stream
      BY <2>1 DEF TypeInv, EngineType
    <3>2. frame \in WireFrame /\ frame.tag = "Recovering"
      BY <3>1, Bounds DEF Frame, WireFrame, ServerFrame, Cursor
    <3> HIDE DEF frame
    <3> QED
      BY <2>1, <3>2, OneFrame DEF frame
  <2>2. CASE active = None
    <3>1. frames = << >>
      BY <2>2
    <3>2. << >> \in Seq(WireFrame) /\ DOMAIN << >> = {}
      OBVIOUS
    <3> HIDE DEF frames
    <3> QED
      BY <3>1, <3>2
  <2> QED
    BY <2>1, <2>2
<1> HIDE DEF frames
<1>3. /\ EngineType' /\ EngineAgrees' /\ Admitted' <= Admitted
      /\ \A s \in Stream : Published(s)' = Published(s)
  BY <1>0, <1>1, EngineKept DEF TypeInv, EngineType
<1>4. toClient' \in Seq(WireFrame)
  BY <1>1, <1>2, Sending DEF TypeInv, WireType
<1>5. TypeInv'
  BY <1>1, <1>3, <1>4, FitsWithout DEF TypeInv, WireType, EndsType
<1>6. Handoff'
  <2>1. Acks' = Acks /\ \A i, j \in Acks : i = j
    BY <1>1 DEF Acks, Handoff, OneResume
  <2> QED
    BY <1>1, <1>2, <1>3, <2>1, HandoffSends, ResumeStream DEF Serving
<1> QED
  BY <1>5, <1>6 DEF DeliveryInv

\* broadcastTerminal sends one frame, or none.
LEMMA BroadcastTerminalInv ==
    ASSUME TypeInv, Handoff, BroadcastTerminal
    PROVE  DeliveryInv'
<1>1. PICK s \in notices :
          /\ notices' = notices \ {s}
          /\ IF outcome[s] \in Told /\ ~Gated(s)
             THEN Send(<<StreamTerminal(s)>>) ELSE UNCHANGED toClient
          /\ UNCHANGED <<engine, ringing, conn, toServer, client, online, used>>
  BY DEF BroadcastTerminal
<1>2. s \in Stream
  BY DEF TypeInv, EngineType
<1>3. /\ EngineType' /\ EngineAgrees' /\ Admitted' <= Admitted
      /\ \A t \in Stream : Published(t)' = Published(t)
  BY <1>1, EngineKept DEF TypeInv, EngineType
<1>4. CASE outcome[s] \in Told /\ ~Gated(s)
  <2> DEFINE frames == <<StreamTerminal(s)>>
  <2>1. StreamTerminal(s) \in WireFrame /\ StreamTerminal(s).tag = "StreamTerminal"
    BY <1>2, <1>4, TerminalFrame DEF TypeInv
  <2>2. frames \in Seq(WireFrame) /\ \A j \in DOMAIN frames : frames[j].tag # "ResumeProbe"
    BY <2>1, ShortSequences
  <2>3. Send(frames)
    BY <1>1, <1>4
  <2> HIDE DEF frames
  <2>4. toClient' \in Seq(WireFrame)
    BY <2>2, <2>3, Sending DEF TypeInv, WireType
  <2>5. TypeInv'
    BY <1>1, <1>3, <2>4, FitsWithout DEF TypeInv, WireType, EndsType
  <2>6. Acks' = Acks /\ \A i, j \in Acks : i = j
    BY <1>1 DEF Acks, Handoff, OneResume
  <2>7. Handoff'
    BY <1>1, <1>3, <2>2, <2>3, <2>6, HandoffSends, ResumeStream DEF Serving
  <2> QED
    BY <2>5, <2>7 DEF DeliveryInv
<1>5. CASE ~(outcome[s] \in Told /\ ~Gated(s))
  <2>1. TypeInv'
    BY <1>1, <1>3, <1>5, FitsWithout DEF TypeInv, WireType, EndsType
  <2>2. Handoff'
    BY <1>1, <1>3, <1>5, HandoffKept, ResumeStream DEF Serving
  <2> QED
    BY <2>1, <2>2 DEF DeliveryInv
<1> QED
  BY <1>4, <1>5

\* A broadcast that fails changes no gate and sends nothing.
LEMMA BroadcastFailsInv ==
    ASSUME TypeInv, Handoff, BroadcastFails
    PROVE  DeliveryInv'
<1>1. PICK s \in notices :
          /\ notices' = notices \ {s}
          /\ conn' = [conn EXCEPT !.missed = @ \/ (conn.state = "open" /\ ~Gated(s))]
  BY DEF BroadcastFails
<1>2. /\ UNCHANGED <<engine, ringing, toClient, toServer, client, online>>
      /\ used' = [used EXCEPT !.faults = @ + 1]
  BY DEF BroadcastFails, Fault
<1>3. /\ conn' \in Connection /\ conn'.state = conn.state /\ conn'.gate = conn.gate
      /\ conn'.resume = conn.resume
  <2>1. conn \in Connection
    BY DEF TypeInv, EndsType
  <2> QED
    BY <1>1, <2>1 DEF Connection
<1>4. /\ EngineType' /\ EngineAgrees' /\ Admitted' <= Admitted
      /\ \A t \in Stream : Published(t)' = Published(t)
  BY <1>1, <1>2, EngineKept DEF TypeInv, EngineType
<1>5. TypeInv'
  BY <1>2, <1>3, <1>4, FitsWithout DEF TypeInv, WireType, EndsType
<1>6. Probes' = Probes /\ Acks' = Acks /\ Serving' = Serving /\ Holding' = Holding
  BY <1>2, <1>3 DEF Probes, Acks, Serving, Holding
<1>7. SocketAgrees' /\ OneResume' /\ GateHasResume' /\ GateFollows'
  BY <1>2, <1>3, <1>6, GateHasResumeSets
     DEF Handoff, SocketAgrees, OneResume, GateFollows
<1>8. NothingMissed'
  BY <1>3, <1>4, ResumeStream DEF Handoff, NothingMissed, Serving
<1> QED
  BY <1>5, <1>7, <1>8 DEF DeliveryInv, Handoff

\* The event is sent, or parked behind the gate of its stream, or known already; or
\* there is no room for it and the connection is closed.
LEMMA PublishInv ==
    ASSUME TypeInv, Handoff, Publish
    PROVE  DeliveryInv'
<1> DEFINE n == outbox
           parked == parkLiveEvent(conn.gate, n, MaxPendingHandoffEvents)
<1>1. /\ n # NoEvent /\ BroadcastEvent(active, n) /\ outbox' = NoEvent
      /\ UNCHANGED <<log, outcome, active, driven, notices, ringing, toServer, client, online,
                     used>>
  BY DEF Publish
<1>2. driven /\ n = log[active] - 1 /\ active \in Stream /\ n \in Cursor /\ n \in 0..MaxEvents
  BY <1>1, Bounds DEF TypeInv, EngineType, EngineAgrees, Cursor
<1>3. /\ EngineType' /\ EngineAgrees' /\ Admitted' <= Admitted
      /\ \A s \in Stream \ {active} : Published(s)' = Published(s)
      /\ Published(active) = n - 1 /\ Published(active)' = n
  <2>1. Admitted' <= Admitted
    BY <1>1, AdmittedStays
  <2>2. \A s \in Stream \ {active} : Published(s)' = Published(s)
    BY <1>1 DEF Published
  <2>3. Published(active) = n - 1 /\ Published(active)' = n
    BY <1>1, <1>2 DEF Published
  <2>4. EngineType'
    BY <1>1, Bounds DEF TypeInv, EngineType
  <2>5. EngineAgrees'
    BY <1>1 DEF TypeInv, EngineAgrees
  <2> QED
    BY <2>1, <2>2, <2>3, <2>4, <2>5
<1>4. EndsType /\ conn \in Connection /\ conn.gate \in Gate /\ conn.gate.pending \in Seq(0..MaxEvents)
  BY ConnectionType DEF TypeInv, Gate
<1>5. Acks' = Acks /\ \A i, j \in Acks : i = j
  BY <1>1 DEF Acks, Handoff, OneResume
<1> HIDE DEF n
<1>6. CASE ~Gated(active)
  <2> DEFINE frames == <<Event(active, n)>>
  <2>1. Send(frames) /\ conn' = conn
    BY <1>1, <1>6 DEF BroadcastEvent
  <2>2. frames \in Seq(WireFrame) /\ \A j \in DOMAIN frames : frames[j].tag # "ResumeProbe"
    <3>1. Event(active, n) \in WireFrame /\ Event(active, n).tag = "StreamEvent"
      BY <1>2 DEF Event, Frame, WireFrame, ServerFrame, Cursor
    <3> QED
      BY <3>1, OneFrame
  <2> HIDE DEF frames
  <2>3. toClient' \in Seq(WireFrame)
    BY <2>1, <2>2, Sending DEF TypeInv, WireType
  <2>4. TypeInv'
    BY <1>1, <1>3, <2>1, <2>3, FitsWithout DEF TypeInv, WireType, EndsType
  <2>5. conn.state = "open" /\ conn.resume.pc = "drain"
           => Published(conn.resume.stream)' = Published(conn.resume.stream)
    <3>1. conn.state = "open" /\ conn.resume.pc = "drain" => conn.resume.stream # active
      BY <1>6 DEF Handoff, GateFollows, Gated
    <3> QED
      BY <1>1, <2>1, <3>1 DEF Published
  <2>6. Handoff'
    BY <1>1, <1>5, <2>1, <2>2, <2>5, HandoffSends
  <2> QED
    BY <2>4, <2>6 DEF DeliveryInv
<1>7. CASE Gated(active) /\ parked = "overflow"
  <2>1. conn' = [conn EXCEPT !.gate = NoGate, !.state = "closed"] /\ toClient' = toClient
    BY <1>1, <1>7 DEF BroadcastEvent
  <2>2. conn' \in Connection /\ conn'.state = "closed" /\ conn'.gate = NoGate
        /\ conn'.resume = conn.resume
    BY <1>4, <2>1, ConnectionType DEF Connection
  <2>3. TypeInv'
    BY <1>1, <1>3, <2>1, <2>2, FitsWithout DEF TypeInv, WireType, EndsType
  <2>4. OneResume'
    BY <1>1, <1>5, <2>1, <2>2 DEF Handoff, OneResume, Probes, Serving
  <2>5. Handoff'
    BY <1>1, <1>4, <2>1, <2>2, <2>4, ConnectionType, HandoffCloses DEF Handoff, SocketAgrees
  <2> QED
    BY <2>3, <2>5 DEF DeliveryInv
<1>8. CASE Gated(active) /\ parked = "duplicate"
  <2>1. conn' = conn /\ toClient' = toClient
    BY <1>1, <1>8 DEF BroadcastEvent
  <2>2. n <= conn.gate.highWater
    BY <1>8 DEF parkLiveEvent
  <2>3. TypeInv'
    BY <1>1, <1>3, <2>1, FitsWithout DEF TypeInv, WireType, EndsType
  <2>4. NothingMissed'
    <3> SUFFICES ASSUME conn.state = "open", conn.resume.pc = "drain", NEW m \in 0..MaxEvents,
                        conn.resume.through < m, m <= Published(conn.resume.stream)'
                 PROVE  \/ m <= conn.gate.highWater
                        \/ \E i \in DOMAIN conn.gate.pending : conn.gate.pending[i] = m
      BY <2>1 DEF NothingMissed
    <3>1. conn.resume.stream = active
      BY <1>8 DEF Handoff, GateFollows, Gated
    <3>2. CASE m = n
      BY <2>2, <3>2
    <3>3. CASE m # n
      <4>1. Published(conn.resume.stream)' = n
        BY <1>1, <1>2, <2>1, <3>1 DEF Published
      <4>2. m <= Published(active)
        BY <1>2, <1>3, <3>3, <4>1
      <4> QED
        BY <3>1, <4>2 DEF Handoff, NothingMissed
    <3> QED
      BY <3>2, <3>3
  <2>5. SocketAgrees' /\ OneResume' /\ GateHasResume' /\ GateFollows'
    BY <1>1, <2>1 DEF Handoff, SocketAgrees, OneResume, GateHasResume, GateFollows, Serving,
                      Probes, Acks
  <2> QED
    BY <2>3, <2>4, <2>5 DEF DeliveryInv, Handoff
<1>9. CASE Gated(active) /\ parked = "buffered"
  <2> DEFINE gate == [conn.gate EXCEPT !.pending = Append(conn.gate.pending, n)]
  <2>1. conn' = [conn EXCEPT !.gate = gate] /\ toClient' = toClient
    BY <1>1, <1>4, <1>9 DEF BroadcastEvent, Connection
  <2>2. /\ gate \in Gate /\ gate.stream = conn.gate.stream
        /\ gate.highWater = conn.gate.highWater
        /\ gate.pending = Append(conn.gate.pending, n)
    <3>1. Append(conn.gate.pending, n) \in Seq(0..MaxEvents)
      BY <1>2, <1>4, AppendProperties
    <3> QED
      BY <1>4, <3>1 DEF Gate
  <2>3. /\ \A m \in 0..MaxEvents :
              (\E i \in DOMAIN conn.gate.pending : conn.gate.pending[i] = m)
                => \E i \in DOMAIN gate.pending : gate.pending[i] = m
        /\ \E i \in DOMAIN gate.pending : gate.pending[i] = n
    <3> DEFINE old == conn.gate.pending
               new == gate.pending
    <3>1. /\ Len(old) \in Nat /\ DOMAIN old = 1..Len(old) /\ DOMAIN new = 1..(Len(old) + 1)
          /\ \A i \in 1..Len(old) : new[i] = old[i]
          /\ new[Len(old) + 1] = n
      BY <1>2, <1>4, <2>2, AppendProperties, LenProperties
    <3> HIDE DEF old, new
    <3> QED
      BY <3>1 DEF old, new
  <2> HIDE DEF gate
  <2>4. conn' \in Connection /\ conn'.state = conn.state /\ conn'.gate = gate
        /\ conn'.resume = conn.resume
    BY <1>4, <2>1, <2>2 DEF Connection
  <2>5. TypeInv'
    BY <1>1, <1>3, <2>1, <2>4, FitsWithout DEF TypeInv, WireType, EndsType
  <2>6. NothingMissed'
    <3> SUFFICES ASSUME conn.state = "open", conn.resume.pc = "drain", NEW m \in 0..MaxEvents,
                        conn.resume.through < m, m <= Published(conn.resume.stream)'
                 PROVE  \/ m <= gate.highWater
                        \/ \E i \in DOMAIN gate.pending : gate.pending[i] = m
      BY <2>4 DEF NothingMissed
    <3>1. conn.resume.stream = active
      BY <1>9 DEF Handoff, GateFollows, Gated
    <3>2. CASE m = n
      BY <2>3, <3>2
    <3>3. CASE m # n
      <4>1. Published(conn.resume.stream)' = n
        BY <1>1, <1>2, <2>4, <3>1 DEF Published
      <4>2. m <= Published(active)
        BY <1>2, <1>3, <3>3, <4>1
      <4>3. \/ m <= conn.gate.highWater
            \/ \E i \in DOMAIN conn.gate.pending : conn.gate.pending[i] = m
        BY <3>1, <4>2 DEF Handoff, NothingMissed
      <4> QED
        BY <2>2, <2>3, <4>3
    <3> QED
      BY <3>2, <3>3
  <2>7. SocketAgrees' /\ OneResume' /\ GateHasResume' /\ GateFollows'
    BY <1>1, <2>1, <2>2, <2>4 DEF Handoff, SocketAgrees, OneResume, GateHasResume, GateFollows,
                                  Serving, Probes, Acks
  <2> QED
    BY <2>5, <2>6, <2>7 DEF DeliveryInv, Handoff
<1>10. parked \in {"overflow", "duplicate", "buffered"}
  BY DEF parkLiveEvent
<1> QED
  BY <1>6, <1>7, <1>8, <1>9, <1>10

-----------------------------------------------------------------------------
(* Connections and resumes *)

\* No gate and no handler: what is left to keep is the socket and the resume.
LEMMA HandoffIdle ==
    ASSUME SocketAgrees', OneResume', conn'.gate.stream = None,
           conn'.resume.pc \in {"none", "failed"}
    PROVE  Handoff'
  BY DEF Handoff, GateHasResume, GateFollows, NothingMissed, Serving

\* Frames for an open connection do not touch what the ends know of the socket.
LEMMA SocketSends ==
    ASSUME TypeInv, Handoff, NEW frames \in Seq(WireFrame), Send(frames),
           conn.state = "open", conn'.state \in {"open", "closed"},
           client'.socket = client.socket
    PROVE  SocketAgrees'
  BY DEF Handoff, SocketAgrees

\* A dialing client has nothing of its own in flight.
LEMMA Dialing ==
    ASSUME TypeInv, Handoff, conn.state = "dialing"
    PROVE  Probes = {} /\ Acks = {} /\ ~Serving /\ toServer = << >>
<1>1. toServer = << >> /\ ~Serving /\ \A i \in DOMAIN toClient : toClient[i].stale
  BY DEF Handoff, SocketAgrees
<1>2. Probes = {}
  BY <1>1 DEF Probes, IsProbe
<1>3. Acks = {}
  BY <1>1 DEF Acks
<1> QED
  BY <1>1, <1>2, <1>3

\* The upgrade sets the gate and sends the probe that leads to its resume, the only one.
LEMMA UpgradeInv ==
    ASSUME TypeInv, Handoff, Upgrade
    PROVE  DeliveryInv'
<1> DEFINE s == ProbedStream
           n == IF s = None THEN NoEvent ELSE log[s] - 1
           info == IF active # None THEN "active" ELSE ""
           gate == IF s = None THEN NoGate ELSE [NoGate EXCEPT !.stream = s]
           frame == Frame("ResumeProbe", s, n, info)
<1>1. /\ conn.state = "dialing" /\ outcome' = Woken
      /\ conn' = [conn EXCEPT !.state = "open", !.probed = s, !.gate = gate]
      /\ client' = [client EXCEPT !.socket = "open"]
      /\ toClient' = Append(toClient, frame)
      /\ UNCHANGED <<log, active, driven, outbox, notices, ringing, toServer, online, used>>
  BY DEF Upgrade
<1>2. s \in Stream \cup {None}
  BY ProbedStreamType DEF TypeInv
<1>3. n \in Cursor
  BY <1>2, LastType, Bounds DEF TypeInv
<1>4. gate \in Gate
  <2>1. NoGate \in Gate
    BY ConnectionType DEF TypeInv
  <2> HIDE DEF s
  <2> QED
    BY <1>2, <2>1 DEF Gate
<1>5. info \in {"active", ""}
  OBVIOUS
<1> HIDE DEF s, n, info, gate
<1>6. frame \in WireFrame /\ IsProbe(frame)
  BY <1>2, <1>3, <1>5 DEF Frame, WireFrame, ServerFrame, IsProbe, Cursor
<1> HIDE DEF frame
<1>7. Probes = {} /\ Acks = {} /\ ~Serving /\ toServer = << >>
  BY <1>1, Dialing
<1>8. /\ toClient' \in Seq(WireFrame)
      /\ Probes' = {Len(toClient) + 1}
  <2>1. /\ Len(toClient) \in Nat /\ DOMAIN toClient = 1..Len(toClient)
        /\ toClient' \in Seq(WireFrame) /\ DOMAIN toClient' = 1..(Len(toClient) + 1)
        /\ \A i \in 1..Len(toClient) : toClient'[i] = toClient[i]
        /\ toClient'[Len(toClient) + 1] = frame
    BY <1>1, <1>6, AppendProperties, LenProperties DEF TypeInv, WireType
  <2> QED
    BY <1>6, <1>7, <2>1 DEF Probes
<1>9. /\ conn' \in Connection /\ conn'.state = "open" /\ conn'.resume = conn.resume
      /\ conn'.gate = gate
  BY <1>1, <1>2, <1>4 DEF TypeInv, EndsType, Connection
<1>10. client' \in Showing(client'.recent) /\ client'.socket = "open"
  BY <1>1 DEF TypeInv, EndsType, Showing
<1>11. EngineType' /\ EngineAgrees' /\ Admitted' <= Admitted
  BY <1>1, EngineWakes DEF TypeInv, EngineType
<1>12. TypeInv'
  BY <1>1, <1>8, <1>9, <1>10, <1>11, FitsWithout DEF TypeInv, WireType, EndsType
<1>13. SocketAgrees'
  BY <1>9, <1>10 DEF SocketAgrees
<1>14. OneResume'
  BY <1>1, <1>7, <1>8, <1>9 DEF OneResume, Acks, Serving
<1>15. GateHasResume'
  BY <1>8, GateHasResumeSets
<1>16. GateFollows' /\ NothingMissed'
  BY <1>7, <1>9 DEF GateFollows, NothingMissed, Serving
<1> QED
  BY <1>12, <1>13, <1>14, <1>15, <1>16 DEF DeliveryInv, Handoff

\* The frame taken: one submission or acknowledgement less, and an open connection.
LEMMA Taking ==
    ASSUME TypeInv, Handoff, Take
    PROVE  /\ toServer' \in Seq(ClientFrame) /\ conn.state = "open"
           /\ Head(toServer) \in ClientFrame
           /\ Cardinality(SubmitsIn(toServer')) \in Nat
           /\ Cardinality(SubmitsIn(toServer')) <= Cardinality(SubmitsIn(toServer))
           /\ Head(toServer).tag = "SubmitTurn" =>
                 /\ Cardinality(SubmitsIn(toServer')) + 1 <= Cardinality(SubmitsIn(toServer))
                 /\ Acks' = {} <=> Acks = {}
           /\ Head(toServer).tag = "ResumeAck" =>
                 Acks # {} /\ Acks' = {} /\ Probes = {} /\ ~Serving
           /\ \A i, j \in Acks' : i = j
<1>1. toServer # << >> /\ toServer' = Tail(toServer) /\ conn.state = "open"
      /\ toServer \in Seq(ClientFrame)
  BY DEF Take, TypeInv, WireType
<1>2. /\ toServer' \in Seq(ClientFrame)
      /\ \A i \in Acks' : i \in Int /\ i # 0 /\ i + 1 \in Acks
      /\ \A i \in Acks : i \in Nat /\ (i # 1 => i - 1 \in Acks')
      /\ 1 \in DOMAIN toServer /\ Head(toServer) = toServer[1]
      /\ Head(toServer) \in ClientFrame
  BY <1>1, TailAcks
<1>3. \A i, j \in Acks : i = j
  BY DEF Handoff, OneResume
<1>4. \A i, j \in Acks' : i = j
  <2> SUFFICES ASSUME NEW i \in Acks', NEW j \in Acks' PROVE i = j
    OBVIOUS
  <2>1. i \in Int /\ j \in Int /\ i + 1 = j + 1
    BY <1>2, <1>3
  <2> QED
    BY <2>1
<1>5. Head(toServer).tag = "ResumeAck" => 1 \in Acks
  BY <1>2 DEF Acks
<1>6. ASSUME 1 \in Acks PROVE Acks' = {}
  <2> SUFFICES ASSUME NEW i \in Acks' PROVE FALSE
    OBVIOUS
  <2>1. i \in Int /\ i # 0 /\ i + 1 = 1
    BY <1>2, <1>3, <1>6
  <2> QED
    BY <2>1
<1>7. Head(toServer).tag = "SubmitTurn" => 1 \notin Acks
  BY <1>2 DEF Acks
<1>8. 1 \notin Acks => (Acks' = {} <=> Acks = {})
  BY <1>2
<1>9. Acks # {} => Probes = {} /\ ~Serving
  BY DEF Handoff, OneResume
<1>10. /\ Cardinality(SubmitsIn(toServer')) <= Cardinality(SubmitsIn(toServer))
       /\ Head(toServer).tag = "SubmitTurn"
             => Cardinality(SubmitsIn(toServer')) + 1 <= Cardinality(SubmitsIn(toServer))
  BY <1>1, SubmitsInTail
<1>11. Cardinality(SubmitsIn(toServer')) \in Nat
  BY <1>2, SubmitsCount
<1> QED
  BY <1>1, <1>2, <1>4, <1>5, <1>6, <1>7, <1>8, <1>9, <1>10, <1>11

\* A submission takes the stream that TurnsFit kept for it.
LEMMA ReceiveSubmitInv ==
    ASSUME TypeInv, Handoff, ReceiveSubmit
    PROVE  DeliveryInv'
<1> DEFINE refused == active # None /\ Woken[active] = "interrupted"
           frame == IF refused THEN Frame("ProtocolError", None, NoEvent, "recoverable")
                    ELSE Frame("TurnAccepted", Admitted + 1, NoEvent, "")
<1>1. /\ Take /\ Head(toServer).tag = "SubmitTurn"
      /\ outcome' = IF refused THEN Woken ELSE AdmitStream(Woken)
      /\ Send(<<frame>>)
      /\ UNCHANGED <<log, active, driven, outbox, notices, ringing, conn, client, online, used>>
  BY DEF ReceiveSubmit
<1>2. /\ toServer' \in Seq(ClientFrame) /\ conn.state = "open"
      /\ Cardinality(SubmitsIn(toServer')) \in Nat
      /\ Cardinality(SubmitsIn(toServer')) + 1 <= Cardinality(SubmitsIn(toServer))
      /\ Acks' = {} <=> Acks = {}
      /\ \A i, j \in Acks' : i = j
  BY <1>1, Taking
<1>3. Admitted + 1 \in Stream
  <2>1. Admitted \in Nat /\ Cardinality(SubmitsIn(toServer)) \in Nat
    BY AdmittedNumber, SubmitsCount DEF TypeInv, WireType
  <2> QED
    BY <1>2, <2>1, Bounds DEF TypeInv, TurnsFit
<1>4. frame \in WireFrame /\ frame.tag # "ResumeProbe"
  <2>1. PICK s \in Stream : s = Admitted + 1
    BY <1>3
  <2>2. Frame("TurnAccepted", s, NoEvent, "") \in WireFrame
        /\ Frame("TurnAccepted", s, NoEvent, "").tag = "TurnAccepted"
    BY Bounds DEF Frame, WireFrame, ServerFrame, Cursor
  <2>3. Frame("ProtocolError", None, NoEvent, "recoverable") \in WireFrame
        /\ Frame("ProtocolError", None, NoEvent, "recoverable").tag = "ProtocolError"
    BY Bounds DEF Frame, WireFrame, ServerFrame, Cursor
  <2> QED
    BY <2>1, <2>2, <2>3
<1> HIDE DEF frame
<1>5. <<frame>> \in Seq(WireFrame) /\ \A j \in DOMAIN <<frame>> : <<frame>>[j].tag # "ResumeProbe"
  BY <1>4, OneFrame
<1>6. toClient' \in Seq(WireFrame)
  BY <1>1, <1>5, Sending DEF TypeInv, WireType
<1>7. EngineType' /\ EngineAgrees' /\ Admitted' <= Admitted + 1
      /\ \A s \in Stream : Published(s)' = Published(s)
  <2>1. Admitted' <= Admitted => Admitted' <= Admitted + 1
    BY AdmittedNumber
  <2> QED
    BY <1>1, <2>1, EngineWakes, EngineAdmits DEF TypeInv, EngineType
<1>8. TurnsFit'
  BY <1>2, <1>7, StillFits DEF TypeInv
<1>9. TypeInv'
  BY <1>1, <1>2, <1>6, <1>7, <1>8 DEF TypeInv, WireType, EndsType
<1>10. Handoff'
  <2>1. conn.state = "open" /\ conn.resume.pc = "drain"
           => Published(conn.resume.stream)' = Published(conn.resume.stream)
    BY <1>1, <1>7, ResumeStream DEF Serving
  <2> QED
    BY <1>1, <1>2, <1>5, <2>1, HandoffSends
<1> QED
  BY <1>9, <1>10 DEF DeliveryInv

\* The acknowledgement is used up: its handler has started, or the gate is gone.
LEMMA ReceiveResumeInv ==
    ASSUME TypeInv, Handoff, ReceiveResume
    PROVE  DeliveryInv'
<1> DEFINE ack == Head(toServer)
           s == IF ack.stream # None THEN ack.stream ELSE conn.probed
           pending == IF Gated(s) THEN conn.gate.pending ELSE << >>
           gate == [stream |-> s, highWater |-> ack.sequence, pending |-> pending]
           resume == [NoResume EXCEPT !.pc = "replay", !.stream = s, !.after = ack.sequence]
<1>1. /\ Take /\ ack.tag = "ResumeAck" /\ outcome' = Woken
      /\ UNCHANGED <<log, active, driven, outbox, notices, ringing, client, online, used>>
  BY DEF ReceiveResume
<1>2. /\ toServer' \in Seq(ClientFrame) /\ conn.state = "open" /\ ack \in ClientFrame
      /\ Cardinality(SubmitsIn(toServer')) \in Nat
      /\ Cardinality(SubmitsIn(toServer')) <= Cardinality(SubmitsIn(toServer))
      /\ Acks' = {} /\ Probes = {} /\ ~Serving
  BY <1>1, Taking
<1>3. /\ conn \in Connection /\ conn.gate \in Gate /\ conn.resume \in Resume
      /\ NoGate \in Gate /\ NoResume \in Resume /\ NoGate.stream = None /\ NoResume.pc = "none"
      /\ conn.resume.pc \in {"none", "failed"}
  BY <1>2, ConnectionType DEF TypeInv, Serving, Resume
<1>4. s \in Stream \cup {None} /\ ack.sequence \in Cursor
  BY <1>2, <1>3 DEF ClientFrame, Connection
<1>5. /\ EngineType' /\ EngineAgrees' /\ Admitted' <= Admitted
      /\ \A t \in Stream : Published(t)' = Published(t)
  BY <1>1, EngineWakes DEF TypeInv, EngineType
<1>6. TurnsFit'
  BY <1>2, <1>5, StillFits DEF TypeInv
<1> HIDE DEF s
\* What is left to show of each answer.
<1>7. ASSUME NEW frames \in Seq(WireFrame), Send(frames),
             \A j \in DOMAIN frames : frames[j].tag # "ResumeProbe",
             conn' \in Connection, conn'.state \in {"open", "closed"},
             \/ conn'.gate = NoGate /\ conn'.resume = conn.resume
             \/ conn'.state = "open" /\ s # None /\ conn'.gate = gate /\ conn'.resume = resume
      PROVE  DeliveryInv'
  <2>1. toClient' \in Seq(WireFrame) /\ Probes' = {}
    BY <1>2, <1>7, Sending, SendingProbes DEF TypeInv, WireType
  <2>2. TypeInv'
    BY <1>1, <1>2, <1>5, <1>6, <1>7, <2>1 DEF TypeInv, WireType, EndsType
  <2>3. SocketAgrees'
    BY <1>1, <1>2, <1>7, SocketSends
  <2>4. OneResume'
    BY <1>2, <2>1 DEF OneResume
  <2>5. CASE conn'.gate = NoGate /\ conn'.resume = conn.resume
    BY <1>3, <2>2, <2>3, <2>4, <2>5, HandoffIdle DEF DeliveryInv
  <2>6. CASE conn'.state = "open" /\ s # None /\ conn'.gate = gate /\ conn'.resume = resume
    <3>1. resume.pc = "replay" /\ resume.stream = s /\ gate.stream = s
      BY <1>3 DEF Resume
    <3>2. GateHasResume' /\ GateFollows' /\ NothingMissed'
      BY <2>6, <3>1 DEF GateHasResume, GateFollows, NothingMissed, Serving
    <3> QED
      BY <2>2, <2>3, <2>4, <3>2 DEF DeliveryInv, Handoff
  <2> QED
    BY <1>7, <2>5, <2>6
<1>12. s # None => (ack.sequence > log[s] - 1 <=> ~(ack.sequence <= log[s] - 1))
  <2>1. s # None => log[s] - 1 \in Int /\ ack.sequence \in Int
    BY <1>4, LastType DEF TypeInv, Cursor
  <2> QED
    BY <2>1
<1>8. CASE s = None
  <2> DEFINE frame == Frame("ResumeComplete", None, NoEvent, "")
  <2>1. conn' = [conn EXCEPT !.gate = NoGate] /\ Send(<<frame>>)
    BY <1>8 DEF ReceiveResume, s
  <2>2. frame \in WireFrame /\ frame.tag # "ResumeProbe"
    BY Bounds DEF Frame, WireFrame, ServerFrame, Cursor
  <2> HIDE DEF frame
  <2>3. <<frame>> \in Seq(WireFrame) /\ \A j \in DOMAIN <<frame>> : <<frame>>[j].tag # "ResumeProbe"
    BY <2>2, OneFrame
  <2>4. /\ conn' \in Connection /\ conn'.state = "open" /\ conn'.gate = NoGate
        /\ conn'.resume = conn.resume
    BY <1>2, <1>3, <2>1 DEF Connection
  <2> QED
    BY <1>7, <2>1, <2>3, <2>4
<1>9. CASE s # None /\ outcome[s] = "completed" /\ ack.sequence > log[s] - 1
  <2> DEFINE frame == Frame("ProtocolError", s, NoEvent, "close")
  <2>1. conn' = [conn EXCEPT !.gate = NoGate, !.state = "closed"] /\ Send(<<frame>>)
    BY <1>9, <1>12 DEF ReceiveResume, s
  <2>2. frame \in WireFrame /\ frame.tag # "ResumeProbe"
    BY <1>4, Bounds DEF Frame, WireFrame, ServerFrame, Cursor
  <2> HIDE DEF frame
  <2>3. <<frame>> \in Seq(WireFrame) /\ \A j \in DOMAIN <<frame>> : <<frame>>[j].tag # "ResumeProbe"
    BY <2>2, OneFrame
  <2>4. /\ conn' \in Connection /\ conn'.state = "closed" /\ conn'.gate = NoGate
        /\ conn'.resume = conn.resume
    BY <1>3, <2>1 DEF Connection
  <2> QED
    BY <1>7, <2>1, <2>3, <2>4
<1>10. CASE s # None /\ outcome[s] = "completed" /\ ack.sequence <= log[s] - 1
  <2> DEFINE one == Frame("ResumeComplete", s, log[s] - 1, "")
             two == StreamTerminal(s)
  <2>1. conn' = [conn EXCEPT !.gate = NoGate] /\ Send(<<one, two>>)
    BY <1>10, <1>12 DEF ReceiveResume, s
  <2>2. one \in WireFrame /\ one.tag # "ResumeProbe"
    <3>1. log[s] - 1 \in Cursor
      BY <1>4, <1>10, LastType DEF TypeInv
    <3> QED
      BY <1>4, <3>1 DEF Frame, WireFrame, ServerFrame, Cursor
  <2>3. two \in WireFrame /\ two.tag # "ResumeProbe"
    BY <1>4, <1>10, TerminalFrame DEF Told, Terminal, TypeInv
  <2> HIDE DEF one, two
  <2>4. <<one, two>> \in Seq(WireFrame)
        /\ \A j \in DOMAIN <<one, two>> : <<one, two>>[j].tag # "ResumeProbe"
    BY <2>2, <2>3, ShortSequences
  <2>5. /\ conn' \in Connection /\ conn'.state = "open" /\ conn'.gate = NoGate
        /\ conn'.resume = conn.resume
    BY <1>2, <1>3, <2>1 DEF Connection
  <2> QED
    BY <1>7, <2>1, <2>4, <2>5
<1>11. CASE s # None /\ outcome[s] # "completed"
  <2>1. conn' = [conn EXCEPT !.gate = gate, !.resume = resume] /\ toClient' = toClient
    BY <1>11 DEF ReceiveResume, s
  <2>2. gate \in Gate /\ resume \in Resume
    <3>1. pending \in Seq(0..MaxEvents)
      <4>1. conn.gate.pending \in Seq(0..MaxEvents) /\ << >> \in Seq(0..MaxEvents)
        BY <1>3 DEF Gate
      <4> QED
        BY <4>1
    <3> HIDE DEF pending, ack
    <3> QED
      BY <1>3, <1>4, <3>1 DEF Gate, Resume, Cursor
  <2>3. /\ Send(<< >>) /\ << >> \in Seq(WireFrame)
        /\ \A j \in DOMAIN << >> : << >>[j].tag # "ResumeProbe"
    BY <2>1, ConcatEmptySeq DEF Send, TypeInv, WireType
  <2> HIDE DEF gate, resume
  <2>4. /\ conn' \in Connection /\ conn'.state = "open" /\ conn'.gate = gate
        /\ conn'.resume = resume
    BY <1>2, <1>3, <2>1, <2>2 DEF Connection
  <2> QED
    BY <1>7, <1>11, <2>3, <2>4
<1> QED
  BY <1>8, <1>9, <1>10, <1>11, <1>12

\* The frame is used up; of an acknowledgement, a handler that failed is left.
LEMMA ReceiveFailsInv ==
    ASSUME TypeInv, Handoff, ReceiveFails
    PROVE  DeliveryInv'
<1> DEFINE acked == Head(toServer).tag = "ResumeAck"
           told == Frame("ProtocolError", None, NoEvent, "recoverable")
<1>1. /\ Take /\ used' = [used EXCEPT !.faults = @ + 1] /\ outcome' \in {outcome, Woken}
      /\ toClient' = toClient \/ Send(<<told>>)
      /\ conn' = IF acked THEN [conn EXCEPT !.resume = FailedResume] ELSE conn
      /\ UNCHANGED <<log, active, driven, outbox, notices, ringing, client, online>>
  BY DEF ReceiveFails, Fault
<1>2. /\ toServer' \in Seq(ClientFrame) /\ conn.state = "open"
      /\ Head(toServer).tag \in {"ResumeAck", "SubmitTurn"}
      /\ Cardinality(SubmitsIn(toServer')) \in Nat
      /\ Cardinality(SubmitsIn(toServer')) <= Cardinality(SubmitsIn(toServer))
      /\ ~acked => (Acks' = {} <=> Acks = {})
      /\ acked => Acks' = {} /\ Probes = {} /\ ~Serving
      /\ \A i, j \in Acks' : i = j
  <2>1. Head(toServer) \in ClientFrame
    BY <1>1, Taking
  <2>2. Head(toServer).tag \in {"ResumeAck", "SubmitTurn"}
    BY <2>1 DEF ClientFrame
  <2> QED
    BY <1>1, <2>2, Taking
<1>3. PICK frames \in Seq(WireFrame) :
          Send(frames) /\ \A j \in DOMAIN frames : frames[j].tag # "ResumeProbe"
  <2>1. CASE toClient' = toClient
    <3>1. /\ Send(<< >>) /\ << >> \in Seq(WireFrame)
          /\ \A j \in DOMAIN << >> : << >>[j].tag # "ResumeProbe"
      BY <2>1, ConcatEmptySeq DEF Send, TypeInv, WireType
    <3> QED
      BY <3>1
  <2>2. CASE Send(<<told>>)
    <3>1. told \in WireFrame /\ told.tag = "ProtocolError"
      BY Bounds DEF Frame, WireFrame, ServerFrame, Cursor
    <3> HIDE DEF told
    <3>2. <<told>> \in Seq(WireFrame) /\ \A j \in DOMAIN <<told>> : <<told>>[j].tag # "ResumeProbe"
      BY <3>1, OneFrame
    <3> QED
      BY <2>2, <3>2
  <2> QED
    BY <1>1, <2>1, <2>2
<1>4. /\ EngineType' /\ EngineAgrees' /\ Admitted' <= Admitted
      /\ \A t \in Stream : Published(t)' = Published(t)
  <2>1. CASE outcome' = Woken
    BY <1>1, <2>1, EngineWakes DEF TypeInv, EngineType
  <2>2. CASE outcome' = outcome
    BY <1>1, <2>2, EngineKept DEF TypeInv, EngineType, engine
  <2> QED
    BY <1>1, <2>1, <2>2
<1>5. TurnsFit'
  BY <1>2, <1>4, StillFits DEF TypeInv
<1>6. toClient' \in Seq(WireFrame) /\ Probes' = Probes
  BY <1>3, Sending, SendingProbes DEF TypeInv, WireType
<1>7. used' \in [submits : Nat, alarms : Nat, faults : Nat]
  BY <1>1 DEF TypeInv, EndsType
<1>8. CASE acked
  <2>1. /\ conn' \in Connection /\ conn'.state = "open" /\ conn'.gate = conn.gate
        /\ conn'.resume = FailedResume /\ FailedResume.pc = "failed"
    BY <1>1, <1>2, <1>8, ConnectionType DEF TypeInv, Connection
  <2>2. TypeInv'
    BY <1>1, <1>2, <1>4, <1>5, <1>6, <1>7, <2>1 DEF TypeInv, WireType, EndsType
  <2>3. SocketAgrees' /\ OneResume'
    BY <1>1, <1>2, <1>3, <1>6, <1>8, <2>1, SocketSends DEF OneResume
  <2>4. GateHasResume' /\ GateFollows' /\ NothingMissed'
    BY <1>2, <2>1 DEF GateHasResume, GateFollows, NothingMissed, Serving, Handoff
  <2> QED
    BY <2>2, <2>3, <2>4 DEF DeliveryInv, Handoff
<1>9. CASE ~acked
  <2>1. conn' = conn
    BY <1>1, <1>9
  <2>2. TypeInv'
    BY <1>1, <1>2, <1>4, <1>5, <1>6, <1>7, <2>1 DEF TypeInv, WireType, EndsType
  <2>3. conn.state = "open" /\ conn.resume.pc = "drain"
           => Published(conn.resume.stream)' = Published(conn.resume.stream)
    BY <1>4, <2>1, ResumeStream DEF Serving
  <2>4. Handoff'
    BY <1>1, <1>2, <1>3, <1>9, <2>1, <2>3, HandoffSends
  <2> QED
    BY <2>2, <2>4 DEF DeliveryInv
<1> QED
  BY <1>8, <1>9

\* A failing replay takes its gate along; behind the handoff there is none.
LEMMA ResumeFailsInv ==
    ASSUME TypeInv, Handoff, ResumeFails
    PROVE  DeliveryInv'
<1> DEFINE told == Frame("ProtocolError", None, NoEvent, "recoverable")
<1>1. /\ conn.state = "open" /\ Serving /\ Send(<<told>>)
      /\ conn' = [conn EXCEPT !.gate = NoGate, !.resume = FailedResume]
      /\ used' = [used EXCEPT !.faults = @ + 1]
      /\ UNCHANGED <<engine, notices, ringing, toServer, client, online>>
  BY DEF ResumeFails, Resuming, Fault, Serving
<1>2. Probes = {} /\ Acks = {}
  BY <1>1, ServingAlone
<1>3. told \in WireFrame /\ told.tag = "ProtocolError"
  BY Bounds DEF Frame, WireFrame, ServerFrame, Cursor
<1> HIDE DEF told
<1>4. <<told>> \in Seq(WireFrame) /\ \A j \in DOMAIN <<told>> : <<told>>[j].tag # "ResumeProbe"
  BY <1>3, OneFrame
<1>5. EngineType' /\ EngineAgrees' /\ Admitted' <= Admitted
  BY <1>1, EngineKept DEF TypeInv, EngineType
<1>6. Acks' = {} /\ TurnsFit'
  BY <1>1, <1>2, <1>5, FitsWithout DEF Acks
<1>7. /\ conn' \in Connection /\ conn'.state = "open" /\ conn'.gate.stream = None
      /\ conn'.resume.pc = "failed"
  BY <1>1, ConnectionType DEF TypeInv, Connection
<1>8. toClient' \in Seq(WireFrame) /\ Probes' = {}
  BY <1>1, <1>2, <1>4, Sending, SendingProbes DEF TypeInv, WireType
<1>9. TypeInv'
  BY <1>1, <1>5, <1>6, <1>7, <1>8 DEF TypeInv, WireType, EndsType
<1>10. SocketAgrees' /\ OneResume'
  BY <1>1, <1>4, <1>6, <1>7, <1>8, SocketSends DEF OneResume
<1> QED
  BY <1>7, <1>9, <1>10, HandoffIdle DEF DeliveryInv

\* The backlog is read: behind it, nothing was broadcast yet.
LEMMA ReadBacklogInv ==
    ASSUME TypeInv, Handoff, ReadBacklog
    PROVE  DeliveryInv'
<1> DEFINE r == conn.resume
           s == r.stream
<1>1. /\ conn.state = "open" /\ r.pc = "replay"
      /\ UNCHANGED <<engine, notices, ringing, toServer, client, online, used>>
  BY DEF ReadBacklog, Resuming
<1>2. Serving /\ Probes = {} /\ Acks = {} /\ s \in Stream
  BY <1>1, ServingAlone, ResumeStream DEF Serving
<1>3. /\ conn \in Connection /\ conn.resume \in Resume
      /\ NoGate \in Gate /\ NoResume \in Resume /\ NoGate.stream = None /\ NoResume.pc = "none"
  BY ConnectionType DEF TypeInv
<1>4. /\ EngineType' /\ EngineAgrees' /\ Admitted' <= Admitted
      /\ \A t \in Stream : Published(t)' = Published(t)
  BY <1>1, EngineKept DEF TypeInv, EngineType
<1>5. log[s] - 1 \in Cursor
  BY <1>2, LastType DEF TypeInv
<1>6. Acks' = {}
  BY <1>1, <1>2 DEF Acks
<1>7. TurnsFit'
  BY <1>1, <1>4, FitsWithout
<1>8. CASE r.after > log[s] - 1
  <2> DEFINE frame == Frame("ProtocolError", s, NoEvent, "close")
  <2>1. /\ conn' = [conn EXCEPT !.gate = NoGate, !.resume = NoResume, !.state = "closed"]
        /\ Send(<<frame>>)
    BY <1>8 DEF ReadBacklog
  <2>2. frame \in WireFrame /\ frame.tag # "ResumeProbe"
    BY <1>2, Bounds DEF Frame, WireFrame, ServerFrame, Cursor
  <2> HIDE DEF frame
  <2>3. <<frame>> \in Seq(WireFrame) /\ \A j \in DOMAIN <<frame>> : <<frame>>[j].tag # "ResumeProbe"
    BY <2>2, OneFrame
  <2>4. /\ conn' \in Connection /\ conn'.state = "closed" /\ conn'.gate = NoGate
        /\ conn'.resume = NoResume
    BY <1>3, <2>1 DEF Connection
  <2>5. toClient' \in Seq(WireFrame) /\ Probes' = {}
    BY <1>2, <2>1, <2>3, Sending, SendingProbes DEF TypeInv, WireType
  <2>6. TypeInv'
    BY <1>1, <1>4, <1>7, <2>4, <2>5 DEF TypeInv, WireType, EndsType
  <2>7. SocketAgrees' /\ OneResume'
    BY <1>1, <1>6, <2>1, <2>3, <2>4, <2>5, SocketSends DEF OneResume
  <2> QED
    BY <1>3, <2>4, <2>6, <2>7, HandoffIdle DEF DeliveryInv
<1>9. CASE ~(r.after > log[s] - 1)
  <2> DEFINE resume == [r EXCEPT !.pc = "drain", !.through = log[s] - 1]
  <2>1. conn' = [conn EXCEPT !.resume = resume] /\ toClient' = toClient
    BY <1>3, <1>9 DEF ReadBacklog, Connection
  <2>2. /\ resume \in Resume /\ resume.pc = "drain" /\ resume.stream = s
        /\ resume.through = log[s] - 1
    BY <1>3, <1>5 DEF Resume
  <2> HIDE DEF resume
  <2>3. /\ conn' \in Connection /\ conn'.state = conn.state /\ conn'.gate = conn.gate
        /\ conn'.resume = resume
    BY <1>3, <2>1, <2>2 DEF Connection
  <2>4. TypeInv'
    BY <1>1, <1>4, <1>7, <2>1, <2>3 DEF TypeInv, WireType, EndsType
  <2>5. Probes' = {}
    BY <1>2, <2>1 DEF Probes
  <2>6. SocketAgrees' /\ OneResume'
    BY <1>1, <1>6, <2>1, <2>3, <2>5 DEF Handoff, SocketAgrees, OneResume
  <2>7. GateHasResume' /\ GateFollows'
    BY <1>1, <1>2, <2>2, <2>3 DEF Handoff, GateHasResume, GateFollows, Serving
  <2>8. NothingMissed'
    <3>1. Published(s) <= log[s] - 1 /\ Published(s) \in Int
      BY <1>2, <1>5 DEF Published, TypeInv, EngineType, EngineAgrees, Cursor
    <3>2. Published(conn.resume.stream)' = Published(s)
      BY <1>1, <2>2, <2>3 DEF Published, engine
    <3> QED
      BY <1>5, <2>2, <2>3, <3>1, <3>2 DEF NothingMissed, Cursor
  <2> QED
    BY <2>4, <2>6, <2>7, <2>8 DEF DeliveryInv, Handoff
<1> QED
  BY <1>8, <1>9

\* How far a handoff has let the client see when it opens the gate.
LEMMA HandoffReaches ==
    ASSUME TypeInv, Handoff, Resuming("drain"),
           NEW sent, sent = HandedOff(conn.gate, conn.resume.through),
           NEW high, high = IF sent = << >> THEN conn.gate.highWater ELSE sent[Len(sent)]
    PROVE  sent \in Seq(0..MaxEvents) /\ high \in Cursor /\ high >= Published(conn.resume.stream)
<1> DEFINE gate == conn.gate
           through == conn.resume.through
           p == Published(conn.resume.stream)
<1>1. gate \in Gate /\ through \in Cursor /\ gate.highWater \in Cursor
  BY ConnectionType DEF TypeInv, Resume, Gate, Cursor
<1>2. /\ conn.state = "open" /\ conn.resume.pc = "drain" /\ conn.resume.stream \in Stream
  BY ResumeStream DEF Resuming, Serving
<1>3. p \in Cursor
  <2>1. log[conn.resume.stream] \in 0..MaxEvents /\ log[conn.resume.stream] - 1 \in Cursor
    BY <1>2, LastType DEF TypeInv
  <2>2. active = conn.resume.stream /\ outbox # NoEvent
           => outbox = log[conn.resume.stream] - 1 /\ outbox \in Cursor
    BY DEF TypeInv, EngineType, EngineAgrees
  <2> QED
    BY <2>1, <2>2, Bounds DEF Published, Cursor
<1>4. /\ sent \in Seq(0..MaxEvents)
      /\ \A n \in ToSend(gate, through) : sent # << >> /\ n <= sent[Len(sent)]
      /\ sent # << >> => sent[Len(sent)] > gate.highWater
  BY <1>1, HandedOffLast
<1>5. sent # << >> => sent[Len(sent)] \in 0..MaxEvents
  <2>1. Len(sent) \in Nat /\ DOMAIN sent = 1..Len(sent) /\ (sent # << >> => Len(sent) # 0)
    BY <1>4, LenProperties, EmptySeq
  <2>2. sent # << >> => Len(sent) \in DOMAIN sent
    BY <2>1
  <2>3. \A i \in DOMAIN sent : sent[i] \in 0..MaxEvents
    BY <1>4, LenProperties
  <2> QED
    BY <2>2, <2>3
<1>6. high \in Cursor /\ high >= gate.highWater
  BY <1>1, <1>4, <1>5, Bounds DEF Cursor
<1>7. ASSUME p # NoEvent, p > gate.highWater PROVE p \in ToSend(gate, through)
  <2>1. p \in 0..MaxEvents
    BY <1>3, <1>7, Bounds DEF Cursor
  <2>2. CASE p <= through
    BY <1>1, <1>7, <2>1, <2>2 DEF ToSend, Cursor
  <2>3. CASE through < p
    <3>1. \/ p <= gate.highWater
          \/ \E i \in DOMAIN gate.pending : gate.pending[i] = p
      BY <1>1, <1>2, <1>3, <2>1, <2>3 DEF Handoff, NothingMissed, Cursor
    <3> QED
      BY <1>1, <1>3, <1>7, <3>1 DEF ToSend, Cursor
  <2> QED
    BY <1>1, <1>3, <2>2, <2>3 DEF Cursor
<1> HIDE DEF p, gate, through
<1>8. high >= p
  <2>1. CASE p = NoEvent \/ p <= gate.highWater
    BY <1>1, <1>3, <1>6, <2>1 DEF Cursor
  <2>2. CASE p # NoEvent /\ p > gate.highWater
    BY <1>1, <1>3, <1>4, <1>6, <1>7, <2>2 DEF Cursor
  <2> QED
    BY <1>1, <1>3, <2>1, <2>2 DEF Cursor
<1> QED
  BY <1>4, <1>6, <1>8 DEF p

\* The frames of a backlog are well typed, none of them a probe.
LEMMA BacklogFrames ==
    ASSUME NEW sent \in Seq(0..MaxEvents), NEW s \in Stream, NEW frames,
           frames = [i \in DOMAIN sent |-> Frame("StreamEvent", s, sent[i], "replay")]
    PROVE  /\ frames \in Seq(WireFrame)
           /\ \A j \in DOMAIN frames : frames[j].tag # "ResumeProbe"
<1>1. Len(sent) \in Nat /\ DOMAIN sent = 1..Len(sent) /\ \A i \in DOMAIN sent : sent[i] \in 0..MaxEvents
  BY LenProperties
<1>2. ASSUME NEW i \in DOMAIN sent
      PROVE  frames[i] \in WireFrame /\ frames[i].tag # "ResumeProbe"
  <2>1. PICK n \in 0..MaxEvents : n = sent[i]
    BY <1>1
  <2>2. frames[i] = Frame("StreamEvent", s, n, "replay") /\ n \in Cursor
    BY <2>1, Bounds DEF Cursor
  <2> QED
    BY <2>2 DEF Frame, WireFrame, ServerFrame, Cursor
<1>3. frames \in [1..Len(sent) -> WireFrame] /\ DOMAIN frames = DOMAIN sent
  BY <1>1, <1>2
<1> QED
  BY <1>1, <1>2, <1>3, SeqDef

\* They still are with one frame behind them.
LEMMA FramesAndOne ==
    ASSUME NEW frames \in Seq(WireFrame), NEW frame \in WireFrame, frame.tag # "ResumeProbe",
           \A j \in DOMAIN frames : frames[j].tag # "ResumeProbe"
    PROVE  /\ frames \o <<frame>> \in Seq(WireFrame)
           /\ \A j \in DOMAIN (frames \o <<frame>>) : (frames \o <<frame>>)[j].tag # "ResumeProbe"
<1>1. frames \o <<frame>> = Append(frames, frame)
  BY AppendIsConcat
<1>2. /\ Append(frames, frame) \in Seq(WireFrame) /\ Len(frames) \in Nat
      /\ DOMAIN frames = 1..Len(frames) /\ DOMAIN Append(frames, frame) = 1..(Len(frames) + 1)
      /\ \A i \in 1..Len(frames) : Append(frames, frame)[i] = frames[i]
      /\ Append(frames, frame)[Len(frames) + 1] = frame
  BY AppendProperties, LenProperties
<1>3. \A i \in 1..(Len(frames) + 1) : i \in 1..Len(frames) \/ i = Len(frames) + 1
  BY <1>2
<1> QED
  BY <1>1, <1>2, <1>3

\* The gate goes with the frames it held back, and HandoffReaches says how far these go.
LEMMA DrainHandoffInv ==
    ASSUME TypeInv, Handoff, DrainHandoff
    PROVE  DeliveryInv' /\ conn'.resume.through >= Published(conn.resume.stream)
<1> DEFINE s == conn.resume.stream
           sent == HandedOff(conn.gate, conn.resume.through)
           high == IF sent = << >> THEN conn.gate.highWater ELSE sent[Len(sent)]
           events == [i \in DOMAIN sent |-> Frame("StreamEvent", s, sent[i], "replay")]
           last == Frame("ResumeComplete", s, high, "")
           frames == events \o <<last>>
           resume == [conn.resume EXCEPT !.pc = "terminal", !.through = high]
<1>1. /\ Resuming("drain") /\ conn.state = "open" /\ conn.resume.pc = "drain"
      /\ Send(frames)
      /\ conn' = [conn EXCEPT !.gate = NoGate, !.resume.pc = "terminal", !.resume.through = high]
      /\ UNCHANGED <<engine, notices, ringing, toServer, client, online, used>>
  BY DEF DrainHandoff, Resuming
<1>2. Serving /\ Probes = {} /\ Acks = {} /\ s \in Stream
  BY <1>1, ServingAlone, ResumeStream DEF Serving
<1>3. /\ conn \in Connection /\ conn.resume \in Resume
      /\ NoGate \in Gate /\ NoGate.stream = None
  BY ConnectionType DEF TypeInv
<1>4. /\ EngineType' /\ EngineAgrees' /\ Admitted' <= Admitted
  BY <1>1, EngineKept DEF TypeInv, EngineType
<1>5. Acks' = {} /\ TurnsFit'
  BY <1>1, <1>2, <1>4, FitsWithout DEF Acks
<1>6. sent \in Seq(0..MaxEvents) /\ high \in Cursor /\ high >= Published(s)
  BY <1>1, HandoffReaches
<1>7. conn' = [conn EXCEPT !.gate = NoGate, !.resume = resume]
  BY <1>1, <1>3 DEF Connection, Resume
<1> HIDE DEF sent, high
<1>8. frames \in Seq(WireFrame) /\ \A j \in DOMAIN frames : frames[j].tag # "ResumeProbe"
  <2>1. events \in Seq(WireFrame) /\ \A j \in DOMAIN events : events[j].tag # "ResumeProbe"
    BY <1>2, <1>6, BacklogFrames
  <2>2. last \in WireFrame /\ last.tag # "ResumeProbe"
    <3>1. PICK t \in Stream : t = s
      BY <1>2
    <3> QED
      BY <1>6, <3>1 DEF Frame, WireFrame, ServerFrame, Cursor
  <2> HIDE DEF events, last
  <2> QED
    BY <2>1, <2>2, FramesAndOne
<1> HIDE DEF frames
<1>9. /\ resume \in Resume /\ resume.pc = "terminal" /\ resume.stream = s
      /\ resume.through = high
  BY <1>3, <1>6 DEF Resume
<1> HIDE DEF resume
<1>10. /\ conn' \in Connection /\ conn'.state = "open" /\ conn'.gate = NoGate
       /\ conn'.resume = resume
  BY <1>1, <1>3, <1>7, <1>9 DEF Connection
<1>11. toClient' \in Seq(WireFrame) /\ Probes' = {}
  BY <1>1, <1>2, <1>8, Sending, SendingProbes DEF TypeInv, WireType
<1>12. TypeInv'
  BY <1>1, <1>4, <1>5, <1>10, <1>11 DEF TypeInv, WireType, EndsType
<1>13. SocketAgrees'
  BY <1>1, <1>8, <1>10, SocketSends
<1>14. OneResume'
  BY <1>5, <1>11 DEF OneResume
<1>15. GateHasResume' /\ GateFollows' /\ NothingMissed'
  BY <1>2, <1>3, <1>9, <1>10 DEF GateHasResume, GateFollows, NothingMissed, Serving
<1>16. conn'.resume.through >= Published(conn.resume.stream)
  BY <1>6, <1>9, <1>10
<1> QED
  BY <1>12, <1>13, <1>14, <1>15, <1>16 DEF DeliveryInv, Handoff

\* The handler ends after its gate has gone.
LEMMA AnswerTerminalInv ==
    ASSUME TypeInv, Handoff, AnswerTerminal
    PROVE  DeliveryInv'
<1> DEFINE s == conn.resume.stream
           frames == IF outcome[s] \in Told THEN <<StreamTerminal(s)>> ELSE << >>
<1>1. /\ conn.state = "open" /\ conn.resume.pc = "terminal"
      /\ conn' = [conn EXCEPT !.resume = NoResume]
      /\ UNCHANGED <<engine, notices, ringing, toServer, client, online, used>>
  BY DEF AnswerTerminal, Resuming
<1>2. Serving /\ Probes = {} /\ Acks = {} /\ s \in Stream
  BY <1>1, ServingAlone, ResumeStream DEF Serving
<1>3. /\ conn \in Connection /\ NoResume \in Resume /\ NoResume.pc = "none"
      /\ conn.gate.stream = None
  BY <1>1, ConnectionType DEF TypeInv, Handoff, GateFollows
<1>4. EngineType' /\ EngineAgrees' /\ Admitted' <= Admitted
  BY <1>1, EngineKept DEF TypeInv, EngineType
<1>5. Acks' = {} /\ TurnsFit'
  BY <1>1, <1>2, <1>4, FitsWithout DEF Acks
<1>6. frames \in Seq(WireFrame) /\ \A j \in DOMAIN frames : frames[j].tag # "ResumeProbe"
  BY <1>2, TerminalFrame, OneFrame DEF TypeInv
<1>7. Send(frames)
  BY ConcatEmptySeq DEF AnswerTerminal, Send, TypeInv, WireType
<1> HIDE DEF frames
<1>8. /\ conn' \in Connection /\ conn'.state = "open" /\ conn'.gate = conn.gate
      /\ conn'.resume = NoResume
  BY <1>1, <1>3 DEF Connection
<1>9. toClient' \in Seq(WireFrame) /\ Probes' = {}
  BY <1>2, <1>6, <1>7, Sending, SendingProbes DEF TypeInv, WireType
<1>10. TypeInv'
  BY <1>1, <1>4, <1>5, <1>8, <1>9 DEF TypeInv, WireType, EndsType
<1>11. SocketAgrees' /\ OneResume'
  BY <1>1, <1>5, <1>6, <1>7, <1>8, <1>9, SocketSends DEF OneResume
<1> QED
  BY <1>3, <1>8, <1>10, <1>11, HandoffIdle DEF DeliveryInv

-----------------------------------------------------------------------------
(* The browser, and losses *)

\* A frame sent to the server is an acknowledgement more, if it is one.
LEMMA AppendAcks ==
    ASSUME toServer \in Seq(ClientFrame), NEW frame \in ClientFrame,
           toServer' = Append(toServer, frame)
    PROVE  /\ toServer' \in Seq(ClientFrame)
           /\ Acks' = IF frame.tag = "ResumeAck" THEN Acks \cup {Len(toServer) + 1} ELSE Acks
<1>1. /\ toServer' \in Seq(ClientFrame) /\ Len(toServer) \in Nat
      /\ DOMAIN toServer = 1..Len(toServer) /\ DOMAIN toServer' = 1..(Len(toServer) + 1)
      /\ \A i \in 1..Len(toServer) : toServer'[i] = toServer[i]
      /\ toServer'[Len(toServer) + 1] = frame
  BY AppendProperties, LenProperties
<1>2. \A i : i \in 1..(Len(toServer) + 1) <=> i \in 1..Len(toServer) \/ i = Len(toServer) + 1
  BY <1>1
<1>3. \A i : i \in Acks' <=> i \in Acks \/ (i = Len(toServer) + 1 /\ frame.tag = "ResumeAck")
  BY <1>1, <1>2 DEF Acks
<1> QED
  BY <1>1, <1>3

\* The frames of an old socket.
LEMMA Staling ==
    ASSUME toClient \in Seq(WireFrame), toClient' = Staled
    PROVE  /\ toClient' \in Seq(WireFrame) /\ Probes' = {}
           /\ \A i \in DOMAIN toClient' : toClient'[i].stale
<1>1. Len(toClient) \in Nat /\ DOMAIN toClient = 1..Len(toClient)
      /\ \A i \in DOMAIN toClient : toClient[i] \in WireFrame
  BY LenProperties
<1>2. ASSUME NEW i \in DOMAIN toClient
      PROVE  toClient'[i] \in WireFrame /\ toClient'[i].stale
  <2>1. PICK frame \in WireFrame : frame = toClient[i]
    BY <1>1
  <2>2. toClient'[i] = [frame EXCEPT !.stale = TRUE]
    BY <2>1 DEF Staled
  <2> QED
    BY <2>2 DEF WireFrame, ServerFrame
<1>3. toClient' \in [1..Len(toClient) -> WireFrame] /\ DOMAIN toClient' = DOMAIN toClient
  BY <1>1, <1>2 DEF Staled
<1>4. toClient' \in Seq(WireFrame)
  BY <1>1, <1>3, SeqDef
<1>5. Probes' = {}
  BY <1>2, <1>3 DEF Probes, IsProbe
<1> QED
  BY <1>2, <1>3, <1>4, <1>5

\* Nothing but the client, its timers and the network's state moves.
LEMMA ClientOnly ==
    ASSUME TypeInv, Handoff,
           client' \in Showing(client'.recent), client'.socket = client.socket,
           online' \in BOOLEAN,
           UNCHANGED <<engine, notices, ringing, conn, toClient, toServer, used>>
    PROVE  DeliveryInv'
<1>1. /\ EngineType' /\ EngineAgrees' /\ Admitted' <= Admitted
      /\ \A s \in Stream : Published(s)' = Published(s)
  BY EngineKept DEF TypeInv, EngineType
<1>2. TypeInv'
  BY <1>1, FitsWithout DEF TypeInv, WireType, EndsType
<1>3. Handoff'
  BY <1>1, HandoffKept, ResumeStream DEF Serving
<1> QED
  BY <1>2, <1>3 DEF DeliveryInv

\* A refilled budget is within its limit.
LEMMA NoAttempts == 0 \in 0..MaxReconnectAttempts
  BY Bounds

\* A client that connects is well typed and keeps its socket.
LEMMA ConnectedType ==
    ASSUME NEW c, c \in Showing(c.recent)
    PROVE  /\ Connected(c) \in Showing(Connected(c).recent)
           /\ Connected(c).socket = c.socket
  BY DEF Connected, Showing, ClientStatus

\* The retry timer sets the timer of a connection; the socket is opened later.
LEMMA ReconnectTimerInv ==
    ASSUME TypeInv, Handoff, ReconnectTimer
    PROVE  DeliveryInv'
<1> DEFINE c == [client EXCEPT !.reconnectTimer = FALSE]
<1>1. c \in Showing(c.recent) /\ c.socket = client.socket
  BY DEF TypeInv, EndsType, Showing
<1>2. client' = Connected(c)
  BY DEF ReconnectTimer
<1> HIDE DEF c
<1>3. client' \in Showing(client'.recent) /\ client'.socket = client.socket
  BY <1>1, <1>2, ConnectedType
<1> QED
  BY <1>3, ClientOnly DEF ReconnectTimer, TypeInv, EndsType

\* The online event refills the budget and may set the timer.
LEMMA OnlineInv ==
    ASSUME TypeInv, Handoff, Online
    PROVE  DeliveryInv'
<1> DEFINE c == [client EXCEPT !.attempts = 0, !.reconnectTimer = FALSE]
<1>1. c \in Showing(c.recent) /\ c.socket = client.socket
  BY NoAttempts DEF TypeInv, EndsType, Showing
<1>2. client' = IF client.closed THEN client ELSE Connected(c)
  BY DEF Online
<1> HIDE DEF c
<1>3. client' \in Showing(client'.recent) /\ client'.socket = client.socket
  BY <1>1, <1>2, ConnectedType DEF TypeInv, EndsType
<1> QED
  BY <1>3, ClientOnly DEF Online

\* A manual connect sets the timer, if there is no socket.
LEMMA ConnectInv ==
    ASSUME TypeInv, Handoff, Connect
    PROVE  DeliveryInv'
<1>1. client' \in Showing(client'.recent) /\ client'.socket = client.socket
  BY ConnectedType DEF Connect, TypeInv, EndsType
<1> QED
  BY <1>1, ClientOnly DEF Connect, TypeInv, EndsType

\* A new connection starts without gate, and finds only frames of old sockets.
LEMMA ConnectTimerInv ==
    ASSUME TypeInv, Handoff, ConnectTimer
    PROVE  DeliveryInv'
<1>1. /\ client' = [client EXCEPT !.connectTimer = FALSE,
                         !.socket = IF client.socket = "none" THEN "connecting" ELSE client.socket]
      /\ UNCHANGED <<engine, notices, ringing, toClient, online, used>>
  BY DEF ConnectTimer
<1>2. client' \in Showing(client'.recent)
  BY <1>1 DEF TypeInv, EndsType, Showing
<1>3. CASE client.socket # "none"
  <2>1. client'.socket = client.socket /\ UNCHANGED <<conn, toServer>>
    BY <1>1, <1>3 DEF ConnectTimer, TypeInv, EndsType, Showing
  <2> QED
    BY <1>1, <1>2, <2>1, ClientOnly DEF TypeInv, EndsType
<1>4. CASE client.socket = "none"
  <2>1. client'.socket = "connecting" /\ conn' = NewConnection /\ toServer' = << >>
    BY <1>1, <1>4 DEF ConnectTimer, TypeInv, EndsType, Showing
  <2>2. /\ NewConnection \in Connection /\ NewConnection.state = "dialing"
        /\ NewConnection.gate.stream = None /\ NewConnection.resume.pc = "none"
    BY ConnectionType DEF TypeInv
  <2>3. EngineType' /\ EngineAgrees' /\ Admitted' <= Admitted
    BY <1>1, EngineKept DEF TypeInv, EngineType
  <2>4. TypeInv'
    BY <1>1, <1>2, <2>1, <2>2, <2>3, FitsWithout DEF TypeInv, WireType, EndsType
  <2>5. \A i \in DOMAIN toClient' : toClient'[i].stale
    BY <1>1, <1>4 DEF Handoff, SocketAgrees
  <2>6. Probes' = {} /\ Acks' = {}
    BY <2>1, <2>5 DEF Probes, IsProbe, Acks
  <2>7. SocketAgrees' /\ OneResume'
    BY <2>1, <2>2, <2>5, <2>6 DEF SocketAgrees, OneResume, Serving
  <2> QED
    BY <2>1, <2>2, <2>4, <2>7, HandoffIdle DEF DeliveryInv
<1> QED
  BY <1>3, <1>4

\* The close event makes the frames in the queue stale, a probe among them; the gate
\* went before.
LEMMA CloseEventInv ==
    ASSUME TypeInv, Handoff, CloseEvent
    PROVE  DeliveryInv'
<1> DEFINE c == [client EXCEPT !.socket = "none"]
<1>1. /\ conn.state = "closed" /\ client' = Rescheduled(c) /\ toClient' = Staled
      /\ UNCHANGED <<engine, notices, ringing, conn, toServer, online, used>>
  BY DEF CloseEvent
<1>2. client' \in Showing(client'.recent) /\ client'.socket = "none"
  <2>1. c \in Showing(c.recent) /\ c.socket = "none" /\ c.attempts \in 0..MaxReconnectAttempts
    BY DEF TypeInv, EndsType, Showing
  <2>2. c.attempts < MaxReconnectAttempts => c.attempts + 1 \in 0..MaxReconnectAttempts
    BY <2>1, Bounds
  <2>3. c.attempts \in Int /\ MaxReconnectAttempts \in Int
    BY <2>1, Bounds
  <2> DEFINE waits == [c EXCEPT !.attempts = c.attempts + 1, !.status = "connecting",
                                !.reconnectTimer = TRUE]
             stops(status) == [c EXCEPT !.status = status]
  <2>4. \A status \in ClientStatus :
           stops(status) \in Showing(stops(status).recent) /\ stops(status).socket = "none"
    BY <2>1 DEF Showing
  <2>5. c.attempts < MaxReconnectAttempts => waits \in Showing(waits.recent) /\ waits.socket = "none"
    BY <2>1, <2>2 DEF Showing, ClientStatus
  <2>6. \/ client' = waits /\ c.attempts < MaxReconnectAttempts
        \/ client' = stops("interrupted") \/ client' = stops("disconnected")
    BY <1>1, <2>3 DEF Rescheduled
  <2> HIDE DEF c, waits, stops
  <2> QED
    BY <2>4, <2>5, <2>6 DEF ClientStatus
<1>3. toClient' \in Seq(WireFrame) /\ Probes' = {} /\ \A i \in DOMAIN toClient' : toClient'[i].stale
  BY <1>1, Staling DEF TypeInv, WireType
<1>4. EngineType' /\ EngineAgrees' /\ Admitted' <= Admitted
  BY <1>1, EngineKept DEF TypeInv, EngineType
<1>5. TypeInv'
  BY <1>1, <1>2, <1>3, <1>4, FitsWithout DEF TypeInv, WireType, EndsType
<1>6. OneResume'
  BY <1>1, <1>3 DEF Handoff, OneResume, Acks, Serving
<1>7. conn'.state = "closed" /\ conn'.gate.stream = None /\ conn'.resume = conn.resume
  BY <1>1 DEF Handoff, GateFollows
<1>8. Handoff'
  BY <1>3, <1>6, <1>7, HandoffCloses
<1> QED
  BY <1>5, <1>8 DEF DeliveryInv

\* The composer's turn fits, as there was room for it.
LEMMA SubmitInv ==
    ASSUME TypeInv, Handoff, Submit
    PROVE  DeliveryInv'
<1> DEFINE frame == Frame("SubmitTurn", None, NoEvent, "")
<1>1. /\ Room /\ used' = [used EXCEPT !.submits = @ + 1]
      /\ toServer' = IF conn.state = "open" THEN Append(toServer, frame) ELSE toServer
      /\ UNCHANGED <<engine, notices, ringing, conn, toClient, client, online>>
  BY DEF Submit
<1>2. frame \in ClientFrame /\ frame.tag = "SubmitTurn"
  BY Bounds DEF Frame, ClientFrame
<1> HIDE DEF frame
<1>3. /\ EngineType' /\ EngineAgrees' /\ Admitted' <= Admitted
      /\ \A s \in Stream : Published(s)' = Published(s)
  BY <1>1, EngineKept DEF TypeInv, EngineType
<1>4. /\ toServer' \in Seq(ClientFrame) /\ Acks' = Acks
      /\ Cardinality(SubmitsIn(toServer')) <= Cardinality(SubmitsIn(toServer)) + 1
  <2>1. toServer \in Seq(ClientFrame) /\ Cardinality(SubmitsIn(toServer)) \in Nat
    BY SubmitsCount DEF TypeInv, WireType
  <2>2. CASE conn.state = "open"
    BY <1>1, <1>2, <2>1, <2>2, AppendAcks, SubmitsInAppend
  <2>3. CASE conn.state # "open"
    BY <1>1, <2>1, <2>3 DEF Acks
  <2> QED
    BY <2>2, <2>3
<1>5. TurnsFit'
  <2>1. Admitted + Cardinality(SubmitsIn(toServer)) < MaxTurns
    BY <1>1 DEF Room, SubmitsIn
  <2>2. /\ Cardinality(SubmitsIn(toServer)) \in Nat /\ Cardinality(SubmitsIn(toServer')) \in Nat
        /\ Admitted \in Nat /\ Admitted' \in Nat
    BY <1>4, SubmitsCount, AdmittedNumber DEF TypeInv, WireType
  <2> QED
    BY <1>3, <1>4, <2>1, <2>2, Bounds DEF TurnsFit
<1>6. TypeInv'
  BY <1>1, <1>3, <1>4, <1>5 DEF TypeInv, WireType, EndsType
<1>7. Handoff'
  <2>1. /\ Send(<< >>) /\ << >> \in Seq(WireFrame)
        /\ \A j \in DOMAIN << >> : << >>[j].tag # "ResumeProbe"
    BY <1>1, ConcatEmptySeq DEF Send, TypeInv, WireType
  <2>2. \A i, j \in Acks : i = j
    BY DEF Handoff, OneResume
  <2>3. conn.state # "open" => toServer' = toServer
    BY <1>1
  <2> QED
    BY <1>1, <1>3, <1>4, <2>1, <2>2, <2>3, HandoffSends, ResumeStream DEF Serving
<1> QED
  BY <1>6, <1>7 DEF DeliveryInv

\* Leaving takes the connection, its gate and everything in flight along.
LEMMA CloseInv ==
    ASSUME TypeInv, Handoff, Close
    PROVE  DeliveryInv'
<1>1. /\ client' = [client EXCEPT !.closed = TRUE, !.socket = "none", !.status = "disconnected",
                         !.connectTimer = FALSE, !.reconnectTimer = FALSE, !.attempts = 0]
      /\ conn' = Disconnected /\ toClient' = Staled /\ toServer' = << >>
      /\ used' = [used EXCEPT !.faults = @ + 1]
      /\ UNCHANGED <<engine, notices, ringing, online>>
  BY DEF Close
<1>2. client' \in Showing(client'.recent)
  BY <1>1, NoAttempts DEF TypeInv, EndsType, Showing, ClientStatus
<1>3. toClient' \in Seq(WireFrame) /\ Probes' = {} /\ \A i \in DOMAIN toClient' : toClient'[i].stale
  BY <1>1, Staling DEF TypeInv, WireType
<1>4. EngineType' /\ EngineAgrees' /\ Admitted' <= Admitted
  BY <1>1, EngineKept DEF TypeInv, EngineType
<1>5. /\ conn' \in Connection /\ conn'.state = "closed"
      /\ conn'.gate.stream = None /\ conn'.resume = NoResume /\ conn'.resume.pc = "none"
  BY <1>1, ConnectionType DEF TypeInv
<1>6. TypeInv'
  BY <1>1, <1>2, <1>3, <1>4, <1>5, FitsWithout DEF TypeInv, WireType, EndsType
<1>7. OneResume'
  BY <1>1, <1>3, <1>5 DEF OneResume, Acks, Serving
<1>8. Handoff'
  BY <1>3, <1>5, <1>7, HandoffCloses
<1> QED
  BY <1>6, <1>8 DEF DeliveryInv

\* The connection goes, with what is on the way to the server.
LEMMA Losing ==
    ASSUME TypeInv, Handoff, conn' = Disconnected, toServer' = << >>,
           UNCHANGED <<toClient, client>>,
           EngineType', EngineAgrees', Admitted' <= Admitted,
           online' \in BOOLEAN, used' \in [submits : Nat, alarms : Nat, faults : Nat]
    PROVE  DeliveryInv'
<1>1. /\ conn' \in Connection /\ conn'.state = "closed"
      /\ conn'.gate.stream = None /\ conn'.resume = NoResume /\ conn'.resume.pc = "none"
  BY ConnectionType DEF TypeInv
<1>2. TypeInv'
  BY <1>1, FitsWithout DEF TypeInv, WireType, EndsType
<1>3. OneResume'
  BY <1>1 DEF Handoff, OneResume, Probes, Acks, Serving
<1>4. Handoff'
  BY <1>1, <1>3, HandoffCloses DEF Handoff, SocketAgrees
<1> QED
  BY <1>2, <1>4 DEF DeliveryInv

\* A lost connection takes gate, handler and acknowledgements along.
LEMMA DropInv ==
    ASSUME TypeInv, Handoff, Drop
    PROVE  DeliveryInv'
<1>1. /\ conn' = Disconnected /\ toServer' = << >> /\ online' \in BOOLEAN
      /\ used' = [used EXCEPT !.faults = @ + 1]
      /\ UNCHANGED <<engine, notices, ringing, toClient, client>>
  BY DEF Drop
<1>2. EngineType' /\ EngineAgrees' /\ Admitted' <= Admitted
  BY <1>1, EngineKept DEF TypeInv, EngineType
<1>3. used' \in [submits : Nat, alarms : Nat, faults : Nat]
  BY <1>1 DEF TypeInv, EndsType
<1> QED
  BY <1>1, <1>2, <1>3, Losing

\* A lost isolate publishes an event that was never broadcast, but takes the connection
\* along.
LEMMA RestartInv ==
    ASSUME TypeInv, Handoff, Restart
    PROVE  DeliveryInv'
<1>1. /\ driven' = FALSE /\ outbox' = NoEvent /\ notices' = {} /\ ringing' = None
      /\ conn' = IF conn.state = "open" THEN Disconnected ELSE conn
      /\ toServer' = IF conn.state = "open" THEN << >> ELSE toServer
      /\ used' = [used EXCEPT !.faults = @ + 1]
      /\ UNCHANGED <<log, outcome, active, toClient, client, online>>
  BY DEF Restart
<1>2. EngineType' /\ EngineAgrees' /\ Admitted' <= Admitted
  <2>1. Admitted' <= Admitted
    BY <1>1, AdmittedStays
  <2> QED
    BY <1>1, <2>1, Bounds DEF TypeInv, EngineType, EngineAgrees
<1>3. used' \in [submits : Nat, alarms : Nat, faults : Nat] /\ online' \in BOOLEAN
  BY <1>1 DEF TypeInv, EndsType
<1>4. CASE conn.state = "open"
  BY <1>1, <1>2, <1>3, <1>4, Losing
<1>5. CASE conn.state # "open"
  <2>1. TypeInv'
    BY <1>1, <1>2, <1>3, <1>5, FitsWithout DEF TypeInv, WireType, EndsType
  <2>2. Handoff'
    BY <1>1, <1>5, HandoffKept
  <2> QED
    BY <2>1, <2>2 DEF DeliveryInv
<1> QED
  BY <1>4, <1>5

\* Hibernation forgets the gate when no handler is at work.
LEMMA HibernateInv ==
    ASSUME TypeInv, Handoff, Hibernate
    PROVE  DeliveryInv'
<1>1. /\ conn.resume.pc \in {"none", "failed"} /\ conn' = [conn EXCEPT !.gate = NoGate]
      /\ used' = [used EXCEPT !.faults = @ + 1]
      /\ UNCHANGED <<engine, notices, ringing, toClient, toServer, client, online>>
  BY DEF Hibernate
<1>2. EngineType' /\ EngineAgrees' /\ Admitted' <= Admitted
  BY <1>1, EngineKept DEF TypeInv, EngineType
<1>3. /\ conn' \in Connection /\ conn'.state = conn.state /\ conn'.gate.stream = None
      /\ conn'.resume = conn.resume /\ conn'.resume.pc \in {"none", "failed"}
  <2>1. conn \in Connection /\ NoGate \in Gate /\ NoGate.stream = None
    BY ConnectionType DEF TypeInv
  <2> QED
    BY <1>1, <2>1 DEF Connection
<1>4. TypeInv'
  BY <1>1, <1>2, <1>3, FitsWithout DEF TypeInv, WireType, EndsType
<1>5. SocketAgrees' /\ OneResume'
  BY <1>1, <1>3 DEF Handoff, SocketAgrees, OneResume, Probes, Acks, Serving
<1> QED
  BY <1>3, <1>4, <1>5, HandoffIdle DEF DeliveryInv

\* What is left of the handoff when a frame was taken that is no awaited probe.
LEMMA HandoffTakes ==
    ASSUME TypeInv, Handoff, toClient # << >>, toClient' = Tail(toClient),
           IsProbe(Head(toClient)) => conn.state # "open",
           UNCHANGED <<engine, conn, toServer>>, client'.socket = client.socket
    PROVE  Handoff'
<1>1. /\ \A i \in Probes' : i \in Int /\ i # 0 /\ i + 1 \in Probes
      /\ \A i \in Probes : i \in Nat /\ (i # 1 => i - 1 \in Probes')
      /\ Head(toClient) = toClient[1]
      /\ \A i \in DOMAIN toClient' : i + 1 \in DOMAIN toClient /\ toClient'[i] = toClient[i + 1]
  BY TailProbes DEF TypeInv, WireType
<1>2. /\ \A i, j \in Probes : i = j
      /\ \A i, j \in Acks : i = j
      /\ Acks' = Acks /\ Serving' = Serving /\ Holding' = Holding
  BY DEF Handoff, OneResume, Acks, Serving, Holding
<1>3. \A i, j \in Probes' : i = j
  <2> SUFFICES ASSUME NEW i \in Probes', NEW j \in Probes' PROVE i = j
    OBVIOUS
  <2>1. i \in Int /\ j \in Int /\ i + 1 = j + 1
    BY <1>1, <1>2
  <2> QED
    BY <2>1
<1>4. Probes' # {} => Probes # {}
  BY <1>1
<1>5. conn.state = "open" => (Probes' = {} <=> Probes = {})
  <2>1. conn.state = "open" => 1 \notin Probes
    BY <1>1 DEF Probes
  <2> QED
    BY <1>1, <1>4, <2>1
<1>6. OneResume'
  BY <1>2, <1>3, <1>4, ResumeStays DEF Handoff
<1>7. SocketAgrees'
  BY <1>1, <1>2 DEF Handoff, SocketAgrees
<1>8. GateHasResume'
  <2>1. conn.gate.stream # None => conn.state = "open"
    BY DEF Handoff, GateFollows
  <2> QED
    BY <1>2, <1>5, <2>1, GateHasResumeSets DEF Handoff
<1>9. GateFollows'
  BY <1>2 DEF Handoff, GateFollows
<1>10. NothingMissed'
  <2>1. Published(conn.resume.stream)' = Published(conn.resume.stream)
    BY DEF Published, engine
  <2> QED
    BY <2>1 DEF Handoff, NothingMissed
<1> QED
  BY <1>6, <1>7, <1>8, <1>9, <1>10 DEF Handoff

\* A frame of the current socket is applied: the probe is acknowledged, a gap or an
\* unrecoverable error closes the socket.  A stale frame is dropped.
LEMMA ApplyInv ==
    ASSUME TypeInv, Handoff, Apply
    PROVE  DeliveryInv'
<1> DEFINE frame == Head(toClient)
           closes == Gap(client, frame) \/ frame.info = "close"
           attempts == IF frame.tag = "ResumeComplete" THEN 0 ELSE client.attempts
           ack == Frame("ResumeAck", frame.stream, Clamped(client, frame), "")
<1>1. /\ toClient # << >> /\ toClient' = Tail(toClient)
      /\ UNCHANGED <<engine, notices, ringing, online, used>>
  BY DEF Apply
<1>2. /\ toClient' \in Seq(WireFrame) /\ frame \in WireFrame
      /\ \A i \in Probes' : i \in Int /\ i # 0 /\ i + 1 \in Probes
      /\ 1 \in DOMAIN toClient /\ frame = toClient[1]
      /\ \A i \in DOMAIN toClient' : i + 1 \in DOMAIN toClient /\ toClient'[i] = toClient[i + 1]
  BY <1>1, TailProbes DEF TypeInv, WireType
<1>3. EngineType' /\ EngineAgrees' /\ Admitted' <= Admitted
  BY <1>1, EngineKept DEF TypeInv, EngineType
<1>4. \A i, j \in Probes : i = j
  BY DEF Handoff, OneResume
<1>5. \A i, j \in Probes' : i = j
  <2> SUFFICES ASSUME NEW i \in Probes', NEW j \in Probes' PROVE i = j
    OBVIOUS
  <2>1. i \in Int /\ j \in Int /\ i + 1 = j + 1
    BY <1>2, <1>4
  <2> QED
    BY <2>1
<1>6. client \in Showing(client.recent) /\ client.attempts \in 0..MaxReconnectAttempts
  BY DEF TypeInv, EndsType, Showing
<1>7. attempts \in 0..MaxReconnectAttempts
  BY <1>6, NoAttempts
<1>8. CASE frame.stale
  <2>1. UNCHANGED <<client, conn, toServer>>
    BY <1>8 DEF Apply
  <2>2. TypeInv'
    BY <1>1, <1>2, <1>3, <2>1, FitsWithout DEF TypeInv, WireType, EndsType
  <2>3. Handoff'
    BY <1>1, <1>8, <2>1, HandoffTakes DEF IsProbe
  <2> QED
    BY <2>2, <2>3 DEF DeliveryInv
<1>9. CASE ~frame.stale
  <2>1. /\ client' = [Applied(client, frame) EXCEPT
               !.attempts = IF frame.tag = "ResumeComplete" THEN 0
                            ELSE Applied(client, frame).attempts,
               !.socket = IF closes THEN "closing" ELSE Applied(client, frame).socket]
        /\ conn' = IF closes THEN Disconnected ELSE conn
        /\ toServer' =
             IF closes THEN << >>
             ELSE IF frame.tag = "ResumeProbe" /\ client.socket = "open"
             THEN Append(toServer, ack) ELSE toServer
    BY <1>9 DEF Apply
  <2>2. /\ client' \in Showing(client'.recent)
        /\ client'.socket = IF closes THEN "closing" ELSE client.socket
        /\ Clamped(client, frame) \in Cursor
    <3> DEFINE c == Applied(client, frame)
               socket == IF closes THEN "closing" ELSE client.socket
    <3>1. /\ c \in Showing(c.recent) /\ c.socket = client.socket /\ c.attempts = client.attempts
          /\ Clamped(client, frame) \in Cursor
      BY <1>2, <1>6, AppliedType
    <3> HIDE DEF c, closes
    <3>2. client' = [c EXCEPT !.attempts = attempts, !.socket = socket]
      BY <2>1, <3>1 DEF c
    <3>3. socket \in {"none", "connecting", "open", "closing"}
      BY <1>6 DEF Showing
    <3> HIDE DEF attempts, socket
    <3>4. client' \in Showing(client'.recent) /\ client'.socket = socket
      BY <1>7, <3>1, <3>2, <3>3 DEF Showing
    <3> QED
      BY <3>1, <3>4 DEF socket, closes
  <2> HIDE DEF closes
  <2>3. client.socket \in {"open", "closing"} /\ conn.state # "dialing"
    <3>1. client.socket \notin {"none", "connecting"}
      BY <1>2, <1>9 DEF Handoff, SocketAgrees
    <3> QED
      BY <1>6, <3>1 DEF Handoff, SocketAgrees, Showing
  <2>4. CASE closes
    <3>1. /\ conn' \in Connection /\ conn'.state = "closed" /\ conn'.gate.stream = None
          /\ conn'.resume = NoResume /\ conn'.resume.pc = "none"
          /\ toServer' = << >> /\ client'.socket = "closing"
      BY <2>1, <2>2, <2>4, ConnectionType DEF TypeInv
    <3>2. TypeInv'
      BY <1>1, <1>2, <1>3, <2>2, <3>1, FitsWithout DEF TypeInv, WireType, EndsType
    <3>3. OneResume'
      BY <1>5, <3>1 DEF OneResume, Acks, Serving
    <3>4. Handoff'
      BY <3>1, <3>3, HandoffCloses
    <3> QED
      BY <3>2, <3>4 DEF DeliveryInv
  <2>5. CASE ~closes /\ frame.tag = "ResumeProbe" /\ client.socket = "open"
    <3>1. conn' = conn /\ client'.socket = "open" /\ toServer' = Append(toServer, ack)
      BY <2>1, <2>2, <2>5
    <3>2. ack \in ClientFrame /\ ack.tag = "ResumeAck"
      <4>1. PICK s \in Stream \cup {None} : s = frame.stream
        BY <1>2 DEF WireFrame, ServerFrame
      <4> QED
        BY <2>2, <4>1 DEF Frame, ClientFrame
    <3> HIDE DEF ack
    <3>3. 1 \in Probes
      BY <1>2, <1>9, <2>5 DEF Probes, IsProbe
    <3>4. Acks = {} /\ ~Serving
      BY <3>3 DEF Handoff, OneResume
    <3>5. Probes' = {}
      <4> SUFFICES ASSUME NEW i \in Probes' PROVE FALSE
        OBVIOUS
      <4>1. i \in Int /\ i # 0 /\ i + 1 = 1
        BY <1>2, <1>4, <3>3
      <4> QED
        BY <4>1
    <3>6. toServer' \in Seq(ClientFrame) /\ Acks' = {Len(toServer) + 1}
      BY <3>1, <3>2, <3>4, AppendAcks DEF TypeInv, WireType
    <3>7. TurnsFit'
      <4>1. SubmitsIn(toServer') = SubmitsIn(toServer) /\ Cardinality(SubmitsIn(toServer)) \in Nat
        BY <3>1, <3>2, SubmitsInAppend, SubmitsCount DEF TypeInv, WireType
      <4> QED
        BY <1>3, <3>6, <4>1, StillFits DEF TypeInv
    <3>8. TypeInv'
      BY <1>1, <1>2, <1>3, <2>2, <3>1, <3>6, <3>7 DEF TypeInv, WireType, EndsType
    <3>9. /\ Serving' = Serving /\ ~Serving' /\ Holding' = Holding
          /\ conn.resume.pc \in {"none", "failed"}
      BY <3>1, <3>4 DEF Serving, Holding, TypeInv, EndsType, Connection, Resume
    <3>10. SocketAgrees' /\ OneResume'
      BY <2>3, <3>1, <3>4, <3>5, <3>6, <3>9 DEF SocketAgrees, OneResume
    <3>11. GateHasResume'
      BY <3>6, GateHasResumeSets
    <3>12. GateFollows' /\ NothingMissed'
      BY <3>1, <3>9 DEF Handoff, GateFollows, NothingMissed, Serving
    <3> QED
      BY <3>8, <3>10, <3>11, <3>12 DEF DeliveryInv, Handoff
  <2>6. CASE ~closes /\ ~(frame.tag = "ResumeProbe" /\ client.socket = "open")
    <3>1. UNCHANGED <<conn, toServer>> /\ client'.socket = client.socket
      BY <2>1, <2>2, <2>6
    <3>2. TypeInv'
      BY <1>1, <1>2, <1>3, <2>2, <3>1, FitsWithout DEF TypeInv, WireType, EndsType
    <3>3. IsProbe(frame) => conn.state # "open"
      BY <2>6 DEF IsProbe, Handoff, SocketAgrees
    <3>4. Handoff'
      BY <1>1, <3>1, <3>3, HandoffTakes
    <3> QED
      BY <3>2, <3>4 DEF DeliveryInv
  <2> QED
    BY <2>4, <2>5, <2>6
<1> QED
  BY <1>8, <1>9

-----------------------------------------------------------------------------
(* The invariant, and the theorems *)

\* Nothing is admitted or in flight, and the connection is closed.
LEMMA InitInv ==
    ASSUME Init
    PROVE  DeliveryInv
<1>1. EngineType /\ EngineAgrees
  BY Bounds DEF Init, EngineType, EngineAgrees, Outcome
<1>2. WireType
  BY DEF Init, WireType
<1>3. EndsType
  <2>1. NewConnection \in Connection
    BY Bounds DEF NewConnection, NoGate, NoResume, Connection, Gate, Resume, Cursor
  <2>2. conn \in Connection
    BY <2>1 DEF Init, Connection
  <2>3. client \in Showing(client.recent)
    BY Bounds, NoAttempts DEF Init, Showing, ClientStatus
  <2> QED
    BY <2>2, <2>3 DEF Init, EndsType
<1>4. TurnsFit
  <2>1. {s \in Stream : outcome[s] # "absent"} = {} /\ SubmitsIn(toServer) = {}
    BY DEF Init, SubmitsIn
  <2>2. Admitted = 0 /\ Cardinality(SubmitsIn(toServer)) = 0
    BY <2>1, FS_EmptySet DEF Admitted
  <2> QED
    BY <2>2, Bounds DEF TurnsFit
<1>5. /\ conn.state = "closed" /\ conn.gate.stream = None /\ conn.resume.pc = "none"
      /\ toClient = << >> /\ toServer = << >>
  BY DEF Init, NewConnection, NoGate, NoResume
<1>6. Handoff
  BY <1>5 DEF Handoff, SocketAgrees, OneResume, GateHasResume, GateFollows, NothingMissed,
              Probes, Acks, Serving
<1> QED
  BY <1>1, <1>2, <1>3, <1>4, <1>6 DEF DeliveryInv, TypeInv

\* Stuttering keeps the invariant.
LEMMA StutterInv ==
    ASSUME TypeInv, Handoff, UNCHANGED vars
    PROVE  DeliveryInv'
  BY ClientOnly DEF vars, TypeInv, EndsType

\* Every step keeps it.
LEMMA StepInv ==
    ASSUME DeliveryInv, [Next]_vars
    PROVE  DeliveryInv'
<1>1. TypeInv /\ Handoff
  BY DEF DeliveryInv
<1>2. CASE \/ AdmitElsewhere \/ StartTurn \/ AppendToLog \/ Recover
           \/ \E status \in Terminal \cup {"interrupted"} : EndTurn(status)
  BY <1>1, <1>2, EngineActions
<1>3. CASE Alarm \/ Publish \/ BroadcastTerminal
  BY <1>1, <1>3, AlarmInv, PublishInv, BroadcastTerminalInv
<1>4. CASE BroadcastFails \/ ReceiveFails \/ ResumeFails
  BY <1>1, <1>4, BroadcastFailsInv, ReceiveFailsInv, ResumeFailsInv
<1>5. CASE \/ Upgrade \/ ReceiveSubmit \/ ReceiveResume
           \/ ReadBacklog \/ DrainHandoff \/ AnswerTerminal
  BY <1>1, <1>5, UpgradeInv, ReceiveSubmitInv, ReceiveResumeInv, ReadBacklogInv,
     DrainHandoffInv, AnswerTerminalInv
<1>6. CASE Browser \/ Submit \/ Close \/ Connect
  BY <1>1, <1>6, ApplyInv, ConnectTimerInv, CloseEventInv, ReconnectTimerInv, OnlineInv,
     SubmitInv, CloseInv, ConnectInv DEF Browser
<1>7. CASE Drop \/ Restart \/ Hibernate
  BY <1>1, <1>7, DropInv, RestartInv, HibernateInv
<1>8. CASE UNCHANGED vars
  BY <1>1, <1>8, StutterInv
<1> QED
  BY <1>2, <1>3, <1>4, <1>5, <1>6, <1>7, <1>8 DEF Next, Server

\* It holds in every reachable state.
LEMMA Invariance == Spec => []DeliveryInv
<1>1. Init => DeliveryInv
  BY InitInv
<1>2. DeliveryInv /\ [Next]_vars => DeliveryInv'
  BY StepInv
<1> QED
  BY <1>1, <1>2, PTL DEF Spec, Safe

\* The streams, both ends and every frame between them stay well typed: no cursor,
\* reconnect attempt or sequence of a frame leaves its range, whatever is lost.
THEOREM TypeCorrect == Spec => []TypeOK
<1>1. DeliveryInv => TypeOK
  <2> SUFFICES ASSUME DeliveryInv PROVE TypeOK
    OBVIOUS
  <2>1. EngineType /\ WireType /\ EndsType
    BY DEF DeliveryInv, TypeInv
  <2>2. toClient \in Seq(ServerFrame)
    <3>1. toClient \in [1..Len(toClient) -> WireFrame] /\ Len(toClient) \in Nat
      BY <2>1, LenProperties DEF WireType
    <3>2. toClient \in [1..Len(toClient) -> ServerFrame]
      BY <3>1 DEF WireFrame
    <3> QED
      BY <3>1, <3>2, SeqDef
  <2>3. \A i \in DOMAIN toServer : toServer[i].tag \in {"ResumeAck", "SubmitTurn"}
    <3>1. \A i \in DOMAIN toServer : toServer[i] \in ClientFrame
      BY <2>1, LenProperties DEF WireType
    <3> QED
      BY <3>1 DEF ClientFrame
  <2>4. /\ conn.state \in {"dialing", "open", "closed"} /\ conn.gate \in Gate
        /\ conn.resume.pc \in {"none", "replay", "drain", "terminal", "failed"}
    BY <2>1 DEF EndsType, Connection, Resume
  <2>5. /\ client.socket \in {"none", "connecting", "open", "closing"}
        /\ client.status \in ClientStatus /\ client.lastSequence \in Cursor
        /\ client.attempts \in 0..MaxReconnectAttempts
    BY <2>1 DEF EndsType, Showing
  <2> QED
    BY <2>1, <2>2, <2>3, <2>4, <2>5 DEF TypeOK, EngineType, EndsType, Cursor, ClientStatus
<1> QED
  BY <1>1, Invariance, PTL

\* Whatever is lost and in whatever order frames, acknowledgements and broadcasts are
\* handled, a gate has its resume, and the events it parks do not wait for ever; unless
\* storage failed ahead of the resume, which leaves the gate as long as its connection.
THEOREM NoGateOutlives == Spec => []GateHasResume
<1>1. DeliveryInv => GateHasResume
  BY DEF DeliveryInv, Handoff
<1> QED
  BY <1>1, Invariance, PTL

\* A handoff has let through all that was broadcast when it opens its gate: parking
\* from before the backlog is read leaves no event between replay and live.
THEOREM HandoffComplete == Spec => HandoffCatchesUp
<1> DEFINE Complete == Resuming("drain") /\ conn'.resume.pc = "terminal"
                          => conn'.resume.through >= Published(conn.resume.stream)
<1>1. DeliveryInv /\ [Next]_vars => [Complete]_vars
  <2> SUFFICES ASSUME DeliveryInv, Next, Resuming("drain"), conn'.resume.pc = "terminal"
               PROVE  conn'.resume.through >= Published(conn.resume.stream)
    OBVIOUS
  <2>1. TypeInv /\ Handoff /\ conn.state = "open" /\ conn.resume.pc = "drain"
    BY DEF DeliveryInv, Resuming
  <2>2. conn \in Connection /\ conn.resume \in Resume /\ NewConnection.resume.pc = "none"
        /\ NoResume.pc = "none" /\ Disconnected.resume.pc = "none"
    BY <2>1, ConnectionType DEF TypeInv
  <2>3. CASE DrainHandoff
    BY <2>1, <2>3, DrainHandoffInv
  <2>4. CASE ~DrainHandoff
    <3>1. Acks = {}
      BY <2>1, ServingAlone DEF Serving
    <3>2. ~ReceiveResume
      BY <2>1, <3>1, Taking DEF ReceiveResume, Serving
    <3>3. conn'.resume.pc # "terminal"
      <4>1. ASSUME conn'.resume = conn.resume PROVE conn'.resume.pc # "terminal"
        BY <2>1, <4>1
      <4>2. ASSUME Publish PROVE conn'.resume = conn.resume
        <5>1. \/ conn' = conn
              \/ conn' = [conn EXCEPT !.gate.pending = Append(@, outbox)]
              \/ conn' = [conn EXCEPT !.gate = NoGate, !.state = "closed"]
          BY <4>2 DEF Publish, BroadcastEvent
        <5> QED
          BY <2>2, <5>1 DEF Connection
      <4>3. ~Upgrade /\ ~ReadBacklog /\ ~AnswerTerminal /\ ~Hibernate
        BY <2>1, <2>2 DEF Upgrade, ReadBacklog, AnswerTerminal, Hibernate, Resuming
      <4>4. ASSUME Apply \/ ConnectTimer \/ Close \/ Drop \/ Restart
            PROVE  conn' \in {conn, Disconnected, NewConnection}
        BY <4>4 DEF Apply, ConnectTimer, Close, Drop, Restart
      <4>5. ASSUME \/ AdmitElsewhere \/ StartTurn \/ AppendToLog \/ Recover
                   \/ \E status \in Terminal \cup {"interrupted"} : EndTurn(status)
                   \/ Alarm \/ BroadcastTerminal \/ ReceiveSubmit
                   \/ CloseEvent \/ ReconnectTimer \/ Online \/ Submit \/ Connect
            PROVE  conn' = conn
        BY <4>5 DEF AdmitElsewhere, StartTurn, AppendToLog, Recover, EndTurn, Alarm,
                    BroadcastTerminal, ReceiveSubmit, CloseEvent, ReconnectTimer, Online,
                    Submit, Connect
      <4>6. ASSUME BroadcastFails PROVE conn'.resume = conn.resume
        <5>1. PICK s \in notices :
                  conn' = [conn EXCEPT !.missed = @ \/ (conn.state = "open" /\ ~Gated(s))]
          BY <4>6 DEF BroadcastFails
        <5> QED
          BY <2>2, <5>1 DEF Connection
      <4>7. ASSUME ReceiveFails PROVE conn' \in {conn, [conn EXCEPT !.resume = FailedResume]}
        BY <4>7 DEF ReceiveFails
      <4>8. ASSUME ResumeFails
            PROVE  conn' \in {[conn EXCEPT !.gate = NoGate, !.resume = FailedResume],
                              [conn EXCEPT !.resume = FailedResume]}
        BY <4>8 DEF ResumeFails
      <4>9. ASSUME conn' \in {[conn EXCEPT !.gate = NoGate, !.resume = FailedResume],
                              [conn EXCEPT !.resume = FailedResume]}
            PROVE  conn'.resume.pc # "terminal"
        BY <2>2, <4>9 DEF Connection, FailedResume, NoResume
      <4> QED
        BY <2>2, <2>4, <3>2, <4>1, <4>2, <4>3, <4>4, <4>5, <4>6, <4>7, <4>8, <4>9
        DEF Next, Server, Browser
    <3> QED
      BY <3>3
  <2> QED
    BY <2>3, <2>4
<1>2. [][DeliveryInv /\ [Next]_vars]_vars => HandoffCatchesUp
  BY <1>1, PTL DEF HandoffCatchesUp
<1> QED
  BY <1>2, Invariance, PTL DEF Spec, Safe
===============================================================================
