------------------------ MODULE SessionTranscriptProofs ------------------------
(***************************************************************************)
(* Theorems about SessionTranscript, for every value of its constants.     *)
(*                                                                         *)
(* Every save replaces the whole record by a copy, so the argument starts  *)
(* with the copies: whoever saves has the record as it is (Copies), which  *)
(* rests on one turn holding the session at a time (OneTurn).  A save then *)
(* is one of three things: an update, a summary, or messages of the active *)
(* turn added or rewritten under their ids (SessionSteps).  Messages keep  *)
(* the order of their turns and their ids apart, and overlays end at       *)
(* messages of turns that are over, in front of the active turn's.         *)
(***************************************************************************)
EXTENDS SessionTranscript, FiniteSetTheorems, SequenceTheorems, WellFoundedInduction, TLAPS

USE DEF Turn, None, Ended

\* Every id a message can have, however many are drawn.
MessageId ==
    {UserId(t) : t \in Turn} \cup {AssistantId(t) : t \in Turn} \cup {FreshId(n) : n \in Nat}

\* What a turn keeps of the session.
Snapshot == [context : Nat, history : SUBSET MessageId, compactions : SUBSET MessageId]

\* The runtime's record of a turn.
TurnRecord == [
    status : {"absent", "queued", "started"} \cup Ended,
    checkpoint : {"admitted", "preparing", "streaming", "partial-persisted"},
    snapshot : Snapshot,
    kind : {"none", "pre-stream-retry", "partial-continuation", "unrecoverable"},
    opened : BOOLEAN, tool : BOOLEAN, partial : BOOLEAN]

\* Where an attempt is while it holds the lock.
Holding == {"compact", "question", "start", "respond"}

\* An attempt, a request, whatever their copies of the session are.
CallOf(copy) == [
    pc : {"none", "capture", "partial", "written", "mark", "load"} \cup Holding,
    mode : {"fresh", "continue"}, round : Nat, preferred : BOOLEAN,
    offered : {"none", "tool", "text"}, kept : {"none", "tool", "text"}, copy : {copy}]

RequestOf(copy) == [
    pc : {"none", "checked", "loaded"}, op : {"none", "update", "compact"}, copy : {copy}]

\* TypeOK, completed.
TypeInv ==
    /\ session \in Stored
    /\ ids \in Nat /\ requests \in Nat /\ losses \in Nat
    /\ turns \in [Turn -> TurnRecord]
    /\ \A t \in Turn : turns[t].snapshot.history \subseteq MessageIds(session)
    /\ active \in {None} \cup Turn
    /\ call \in CallOf(call.copy)
    /\ request \in RequestOf(request.copy)
    /\ lock \in {"free", "turn", "request"}
    /\ lock = "turn" <=> call.pc \in Holding
    /\ lock = "request" <=> request.pc = "loaded"

\* A turn that has been started, and one that is over; the same after a step.
Begun(t) == turns[t].status \in {"started"} \cup Ended
Over(t) == turns[t].status \in Ended
BegunNext(t) == turns'[t].status \in {"started"} \cup Ended
OverNext(t) == turns'[t].status \in Ended

\* The started turn is the active one, the turns before it are over, and no request
\* is pending once it has captured the session.
OneTurn ==
    /\ call.pc # "none" => active # None
    /\ active # None /\ call.pc # "capture" => request.pc = "none"
    /\ \A t \in Turn : turns[t].status = "started" <=> t = active
    /\ \A t \in Turn : Begun(t) => \A u \in 1..(t - 1) : Over(u)

\* Whoever will save the session has it as it is, and a fresh attempt shows all of it.
Copies ==
    /\ lock = "turn" => call.copy = session
    /\ request.pc = "loaded" =>
          /\ request.copy = session
          /\ request.op = "compact" => PlanEnd(session) # 0
    /\ call.pc \in {"partial", "written", "mark", "load"} =>
          turns[active].snapshot.context = session.context
    /\ call.pc \in {"mark", "load"} /\ call.mode = "fresh" => turns[active].snapshot = Captured
    /\ call.pc \in {"partial", "written"} => call.mode = "continue"
    /\ call.pc \in {"compact", "question"} => ~HasQuestion(session)
    /\ call.pc = "compact" => PlanEnd(session) # 0

\* A turn that has opened its stream has its question in the transcript.
QuestionFirst ==
    /\ \A t \in Turn :
          /\ turns[t].kind = "partial-continuation" => turns[t].opened
          /\ turns[t].opened => UserId(t) \in MessageIds(session)
    /\ call.pc # "none" /\ call.mode = "continue" => turns[active].opened
    /\ call.pc \in {"start", "respond"} => HasQuestion(session)

\* The turn a message was written for has begun and put its question first.
Written ==
    \A i \in DOMAIN session.messages : LET m == session.messages[i] IN
        /\ Begun(m.turn)
        /\ request.pc # "none" => Over(m.turn)
        /\ UserId(m.turn) \in MessageIds(session)

\* The ids of a turn are for its own messages.
Named(messages) ==
    \A i \in DOMAIN messages : \A t \in Turn :
        messages[i].id \in {UserId(t), AssistantId(t)} => messages[i].turn = t

\* A message under an id that is taken was added for a response without content.
OnlyLaterBlank(messages) ==
    \A i, j \in DOMAIN messages :
        i < j /\ messages[i].id = messages[j].id => messages[j].blank

\* OverlaysAdvance, inductive: overlays end at messages of turns that are over, so that a
\* message of the active turn under an id that is taken does not disturb them.
OverlaysBehind ==
    LET m == session.messages
        end(k) == Position(session, session.compactions[k])
    IN
    /\ \A k \in DOMAIN session.compactions : Over(m[end(k)].turn)
    /\ (\A i, j \in DOMAIN m : m[i].id = m[j].id /\ Over(m[i].turn) => i = j) =>
       \A k \in DOMAIN session.compactions :
        /\ end(k) \in 2..(Len(m) - 1)
        /\ SafeCut(m, end(k))
        /\ k > 1 => end(k - 1) < end(k)

\* The inductive invariant.
TranscriptInv ==
    /\ TypeInv /\ OneTurn /\ Copies /\ QuestionFirst
    /\ Written /\ Named(session.messages) /\ OnlyLaterBlank(session.messages)
    /\ TurnsInOrder /\ OverlaysBehind

\* n is m with messages of turn t rewritten, under the same ids, and others added.
Extends(m, n, t) ==
    /\ Len(m) <= Len(n)
    /\ \A i \in DOMAIN m :
          /\ n[i].id = m[i].id /\ n[i].turn = m[i].turn
          /\ m[i].turn # t => n[i] = m[i]
          /\ n[i].role = "tool" => m[i].role = "tool"
    /\ \A i \in DOMAIN n : i \in DOMAIN m \/ n[i].turn = t

-----------------------------------------------------------------------------
(* Numbers, sequences and ids *)

\* A set of natural numbers with a member has a least one.
LEMMA Least ==
    ASSUME NEW S \in SUBSET Nat, NEW x \in S
    PROVE  \E n \in S : \A y \in S : n <= y
<1> DEFINE R == OpToRel(<, Nat)
<1>1. IsWellFoundedOn(R, Nat)
  BY NatLessThanWellFounded
<1>2. \A a, b \in Nat : <<a, b>> \in R <=> a < b
  BY DEF OpToRel
<1> HIDE DEF R
<1>3. PICK n \in S : \A y \in S : ~ (<<y, n>> \in R)
  BY <1>1, WFMin
<1>4. ASSUME NEW y \in S PROVE n <= y
  <2>1. y \in Nat /\ n \in Nat /\ ~ (<<y, n>> \in R)
    BY <1>3
  <2>2. ~(y < n)
    BY <1>2, <2>1
  <2> QED
    BY <2>1, <2>2
<1> QED
  BY <1>4

\* Min is that member.
LEMMA MinLeast ==
    ASSUME NEW S \in SUBSET Nat, NEW x \in S
    PROVE  /\ Min(S) \in S
           /\ \A y \in S : Min(S) <= y
  BY Least DEF Min

\* Max is the greatest of a set of numbers up to a bound.
LEMMA MaxGreatest ==
    ASSUME NEW b \in Nat, NEW S \in SUBSET (0..b), NEW x \in S
    PROVE  /\ Max(S) \in S
           /\ \A y \in S : y <= Max(S)
<1> DEFINE T == {b - n : n \in S}
<1>1. T \in SUBSET Nat /\ b - x \in T
  OBVIOUS
<1>2. PICK n \in T : \A y \in T : n <= y
  BY <1>1, Least
<1>3. PICK g \in S : n = b - g
  BY <1>2
<1>4. ASSUME NEW y \in S PROVE y <= g
  <2>1. b - g <= b - y
    BY <1>2, <1>3
  <2> QED
    BY <2>1
<1> QED
  BY <1>3, <1>4 DEF Max

\* Whoever takes every entry has the sequence again.
LEMMA AllEntries ==
    ASSUME NEW S, NEW q \in Seq(S)
    PROVE  EntriesAt(q, DOMAIN q) = q
<1> DEFINE D == DOMAIN q
           rank(i) == Cardinality({j \in D : j <= i})
<1>1. Len(q) \in Nat /\ D = 1..Len(q) /\ q \in [1..Len(q) -> S]
  BY LenProperties
<1>2. Cardinality(D) = Len(q)
  BY <1>1, FS_Interval
<1>3. \A i \in D : rank(i) = i
  <2> TAKE i \in D
  <2>1. {j \in D : j <= i} = 1..i /\ i \in Nat
    BY <1>1
  <2>2. Cardinality(1..i) = i
    BY <2>1, FS_Interval
  <2> QED
    BY <2>1, <2>2
<1>4. \A k \in 1..Len(q) : (CHOOSE i \in D : rank(i) = k) = k
  BY <1>1, <1>3
<1>5. EntriesAt(q, D) = [k \in 1..Len(q) |-> q[CHOOSE i \in D : rank(i) = k]]
  BY <1>2 DEF EntriesAt
<1>6. EntriesAt(q, D) = [k \in 1..Len(q) |-> q[k]]
  BY <1>4, <1>5
<1> QED
  BY <1>1, <1>6

\* The three kinds of ids are apart, and each tells its turn or its number.
LEMMA IdsApart ==
    /\ \A t, u : (UserId(t) = UserId(u) => t = u) /\ (AssistantId(t) = AssistantId(u) => t = u)
    /\ \A t, u : (FreshId(t) = FreshId(u) => t = u)
    /\ \A t, u : UserId(t) # AssistantId(u) /\ UserId(t) # FreshId(u) /\ AssistantId(t) # FreshId(u)
  BY DEF UserId, AssistantId, FreshId

\* The position of an id is the first message that has it, 0 if none has.
LEMMA PositionFirst ==
    ASSUME NEW S, NEW s, s.messages \in Seq(S), NEW id
    PROVE  /\ Position(s, id) = 0 <=> \A i \in DOMAIN s.messages : s.messages[i].id # id
           /\ Position(s, id) # 0 =>
                 /\ Position(s, id) \in DOMAIN s.messages
                 /\ s.messages[Position(s, id)].id = id
                 /\ \A i \in DOMAIN s.messages :
                       s.messages[i].id = id => Position(s, id) <= i
<1> DEFINE at == {i \in DOMAIN s.messages : s.messages[i].id = id}
<1>1. at \in SUBSET Nat /\ 0 \notin at
  BY LenProperties
<1>2. CASE at = {}
  BY <1>2 DEF Position
<1>3. CASE at # {}
  <2>1. Position(s, id) = Min(at)
    BY <1>3 DEF Position
  <2>2. Min(at) \in at /\ \A y \in at : Min(at) <= y
    BY <1>1, <1>3, MinLeast
  <2> QED
    BY <1>1, <2>1, <2>2
<1> QED
  BY <1>2, <1>3

\* The only message with an id is at its position.
LEMMA PositionOnly ==
    ASSUME NEW S, NEW s, s.messages \in Seq(S), NEW i \in DOMAIN s.messages,
           \A j \in DOMAIN s.messages : s.messages[j].id = s.messages[i].id => j = i
    PROVE  Position(s, s.messages[i].id) = i
  BY PositionFirst

\* An id keeps its position when messages are added, or rewritten under their ids.
LEMMA PositionStays ==
    ASSUME NEW S, NEW T, NEW m \in Seq(S), NEW n \in Seq(T), NEW t, Extends(m, n, t),
           NEW s, NEW r, s.messages = m, r.messages = n, NEW id, Position(s, id) # 0
    PROVE  Position(r, id) = Position(s, id)
<1>1. /\ DOMAIN s.messages = 1..Len(s.messages) /\ Len(s.messages) \in Nat
      /\ DOMAIN r.messages = 1..Len(r.messages) /\ Len(r.messages) \in Nat
      /\ Len(s.messages) <= Len(r.messages)
  BY LenProperties DEF Extends
<1>2. /\ Position(s, id) \in DOMAIN s.messages
      /\ s.messages[Position(s, id)].id = id
      /\ \A i \in DOMAIN s.messages : s.messages[i].id = id => Position(s, id) <= i
  BY PositionFirst
<1>3. r.messages[Position(s, id)].id = id /\ Position(s, id) \in DOMAIN r.messages
  BY <1>1, <1>2 DEF Extends
<1>4. /\ Position(r, id) \in DOMAIN r.messages
      /\ r.messages[Position(r, id)].id = id
      /\ \A i \in DOMAIN r.messages : r.messages[i].id = id => Position(r, id) <= i
  BY <1>3, PositionFirst
<1>5. Position(r, id) <= Position(s, id)
  BY <1>3, <1>4
<1>6. Position(r, id) \in DOMAIN s.messages
  BY <1>1, <1>2, <1>4, <1>5
<1>7. Position(s, id) <= Position(r, id)
  BY <1>2, <1>4, <1>6 DEF Extends
<1> QED
  BY <1>1, <1>2, <1>4, <1>5, <1>7

\* Extension is reflexive ...
LEMMA ExtendsItself ==
    ASSUME NEW S, NEW m \in Seq(S), NEW t
    PROVE  Extends(m, m, t)
  BY LenProperties DEF Extends

\* ... and transitive.
LEMMA ExtendsTransitive ==
    ASSUME NEW S, NEW m \in Seq(S), NEW n \in Seq(S), NEW p \in Seq(S), NEW t,
           Extends(m, n, t), Extends(n, p, t)
    PROVE  Extends(m, p, t)
<1>1. /\ DOMAIN m = 1..Len(m) /\ DOMAIN n = 1..Len(n) /\ DOMAIN p = 1..Len(p)
      /\ Len(m) \in Nat /\ Len(n) \in Nat /\ Len(p) \in Nat
      /\ Len(m) <= Len(n) /\ Len(n) <= Len(p)
  BY LenProperties DEF Extends
<1>2. DOMAIN m \subseteq DOMAIN n /\ DOMAIN n \subseteq DOMAIN p
  BY <1>1
<1>3. \A i \in DOMAIN m :
          /\ p[i].id = m[i].id /\ p[i].turn = m[i].turn
          /\ m[i].turn # t => p[i] = m[i]
          /\ p[i].role = "tool" => m[i].role = "tool"
  BY <1>2 DEF Extends
<1>4. \A i \in DOMAIN p : i \in DOMAIN m \/ p[i].turn = t
  BY <1>2 DEF Extends
<1> QED
  BY <1>1, <1>3, <1>4 DEF Extends

\* A message behind the others: its id is new, or it is one without content.
LEMMA Adding ==
    ASSUME NEW S, NEW m \in Seq(S), NEW x \in S, NEW t, x.turn = t,
           OnlyLaterBlank(m), Named(m),
           \A u \in Turn : x.id \in {UserId(u), AssistantId(u)} => t = u,
           x.blank \/ \A i \in DOMAIN m : m[i].id # x.id
    PROVE  /\ Append(m, x) \in Seq(S)
           /\ Extends(m, Append(m, x), t)
           /\ OnlyLaterBlank(Append(m, x)) /\ Named(Append(m, x))
           /\ \E i \in DOMAIN Append(m, x) : Append(m, x)[i] = x
           /\ \A i \in DOMAIN Append(m, x) :
                 Append(m, x)[i] = x \/ (i \in DOMAIN m /\ Append(m, x)[i] = m[i])
<1> DEFINE n == Append(m, x)
<1>1. /\ n \in Seq(S) /\ Len(m) \in Nat /\ Len(n) = Len(m) + 1
      /\ DOMAIN m = 1..Len(m) /\ DOMAIN n = 1..(Len(m) + 1)
      /\ \A i \in 1..Len(m) : n[i] = m[i]
      /\ n[Len(m) + 1] = x
  BY AppendProperties, LenProperties
<1> HIDE DEF n
<1>2. Extends(m, n, t)
  BY <1>1 DEF Extends
<1>3. OnlyLaterBlank(n)
  <2> SUFFICES ASSUME NEW i \in DOMAIN n, NEW j \in DOMAIN n, i < j, n[i].id = n[j].id
               PROVE  n[j].blank
    BY DEF OnlyLaterBlank
  <2>1. i \in DOMAIN m /\ n[i] = m[i]
    BY <1>1
  <2>2. CASE j \in DOMAIN m
    BY <1>1, <2>1, <2>2 DEF OnlyLaterBlank
  <2>3. CASE j = Len(m) + 1
    BY <1>1, <2>1, <2>3
  <2> QED
    BY <1>1, <2>2, <2>3
<1>4. Named(n)
  BY <1>1 DEF Named
<1>5. \E i \in DOMAIN n : n[i] = x
  <2>1. Len(m) + 1 \in DOMAIN n /\ n[Len(m) + 1] = x
    BY <1>1
  <2> QED
    BY <2>1
<1>6. ASSUME NEW i \in DOMAIN n PROVE n[i] = x \/ (i \in DOMAIN m /\ n[i] = m[i])
  <2>1. i \in 1..Len(m) \/ i = Len(m) + 1
    BY <1>1
  <2> QED
    BY <1>1, <2>1
<1> QED
  BY <1>1, <1>2, <1>3, <1>4, <1>5, <1>6 DEF n

\* The messages with an id, all of one turn, rewritten.
LEMMA Rewriting ==
    ASSUME NEW m \in Seq(Message'), NEW x \in Message', x.role # "tool",
           \A i \in DOMAIN m : m[i].id = x.id => m[i].turn = x.turn,
           OnlyLaterBlank(m), Named(m)
    PROVE  LET n == Rewritten(m, x) IN
           /\ n \in Seq(Message')
           /\ Extends(m, n, x.turn)
           /\ OnlyLaterBlank(n) /\ Named(n)
           /\ \A i \in DOMAIN n : i \in DOMAIN m /\ n[i].id = m[i].id
<1> DEFINE n == Rewritten(m, x)
           again(i) == [x EXCEPT !.blank = m[i].blank]
<1>1. Len(m) \in Nat /\ DOMAIN m = 1..Len(m) /\ \A i \in 1..Len(m) : m[i] \in Message'
  BY LenProperties, ElementOfSeq
<1>2. ASSUME NEW i \in DOMAIN m
      PROVE  /\ again(i) \in Message'
             /\ again(i).id = x.id /\ again(i).turn = x.turn
             /\ again(i).role = x.role /\ again(i).blank = m[i].blank
  BY <1>1 DEF Message
<1>3. /\ DOMAIN n = 1..Len(m)
      /\ \A i \in 1..Len(m) : n[i] = IF m[i].id = x.id THEN again(i) ELSE m[i]
  BY <1>1 DEF Rewritten
<1>4. n \in Seq(Message') /\ Len(n) = Len(m)
  <2>1. n = [i \in 1..Len(m) |-> n[i]]
    BY <1>1 DEF Rewritten
  <2>2. \A i \in 1..Len(m) : n[i] \in Message'
    BY <1>1, <1>2, <1>3
  <2> HIDE DEF n
  <2>3. n \in [1..Len(m) -> Message']
    BY <2>1, <2>2
  <2>4. n \in Seq(Message')
    BY <1>1, <2>3, IsASeq
  <2>5. DOMAIN n = 1..Len(n) /\ Len(n) \in Nat
    BY <2>4, LenProperties
  <2> QED
    BY <1>1, <1>3, <2>4, <2>5
<1> HIDE DEF n
<1>5. \A i \in DOMAIN m : n[i].id = m[i].id /\ n[i].turn = m[i].turn /\ n[i].blank = m[i].blank
  BY <1>1, <1>2, <1>3
<1>6. Extends(m, n, x.turn)
  <2>1. \A i \in DOMAIN m : m[i].turn # x.turn => n[i] = m[i]
    BY <1>1, <1>3
  <2>2. \A i \in DOMAIN m : n[i].role = "tool" => m[i].role = "tool"
    BY <1>1, <1>2, <1>3
  <2> QED
    BY <1>1, <1>3, <1>4, <1>5, <2>1, <2>2 DEF Extends
<1>7. OnlyLaterBlank(n) /\ Named(n)
  BY <1>1, <1>3, <1>5 DEF OnlyLaterBlank, Named
<1> QED
  BY <1>1, <1>3, <1>4, <1>5, <1>6, <1>7 DEF n

-----------------------------------------------------------------------------
(* What a step does to the record *)

\* The record as it was,
Kept == session' = session

\* ... with the context of an update,
Updated ==
    /\ session' = [session EXCEPT !.context = requests]
    /\ request.pc = "loaded"
    /\ UNCHANGED <<turns, active, call, ids, requests>>

\* ... with one overlay more, while all messages are of turns that are over,
Summarised ==
    /\ session' = Compacted(session)
    /\ PlanEnd(session) # 0
    /\ \A i \in DOMAIN session.messages : Over(session.messages[i].turn)
    /\ UNCHANGED <<turns, active, ids, requests>>

\* ... or with messages of the active turn, whose question is there.
Wrote ==
    /\ active \in Turn
    /\ UNCHANGED <<turns, active, request, requests>>
    /\ request.pc = "none"
    /\ ids' \in Nat /\ ids <= ids'
    /\ session' = [session EXCEPT !.messages = session'.messages]
    /\ session'.messages \in Seq(Message')
    /\ Extends(session.messages, session'.messages, active)
    /\ OnlyLaterBlank(session'.messages) /\ Named(session'.messages)
    /\ UserId(active) \in MessageIds(session')

\* The record, part by part.
LEMMA SessionType ==
    ASSUME TypeInv
    PROVE  /\ session = [context |-> session.context, messages |-> session.messages,
                         compactions |-> session.compactions]
           /\ session.context \in 0..requests
           /\ session.messages \in Seq(Message)
           /\ session.compactions \in Seq(MessageIds(session))
           /\ Len(session.messages) \in Nat /\ DOMAIN session.messages = 1..Len(session.messages)
           /\ Len(session.compactions) \in Nat
           /\ DOMAIN session.compactions = 1..Len(session.compactions)
           /\ \A i \in DOMAIN session.messages : session.messages[i] \in Message
           /\ \A k \in DOMAIN session.compactions :
                 session.compactions[k] \in MessageIds(session)
<1>1. /\ session.messages \in Seq(Message)
      /\ session.compactions \in Seq(MessageIds(session))
      /\ session.context \in 0..requests
      /\ session = [context |-> session.context, messages |-> session.messages,
                    compactions |-> session.compactions]
  BY DEF TypeInv, Stored
<1> QED
  BY <1>1, LenProperties, ElementOfSeq

\* More ids drawn, more messages may be written.
LEMMA MessagesGrow ==
    ASSUME ids \in Nat, ids' \in Nat, ids <= ids'
    PROVE  Message \subseteq Message'
<1>1. 1..ids \subseteq 1..ids'
  OBVIOUS
<1> QED
  BY <1>1 DEF Message

\* So the transcript stays one of messages.
LEMMA TranscriptStays ==
    ASSUME TypeInv, ids' \in Nat, ids <= ids'
    PROVE  session.messages \in Seq(Message')
<1>1. session.messages \in Seq(Message) /\ ids \in Nat
  BY SessionType DEF TypeInv
<1> QED
  BY <1>1, MessagesGrow, SeqMonotonic

\* What a turn says under an id it may use is a message.
LEMMA SaysType ==
    ASSUME NEW t \in Turn, NEW role \in {"user", "assistant", "tool"}, NEW id, NEW tool \in BOOLEAN,
           \/ id \in {UserId(t), AssistantId(t)}
           \/ \E n \in 1..ids' : id = FreshId(n)
    PROVE  /\ Says(id, role, t) \in Message'
           /\ [Says(id, role, t) EXCEPT !.call = tool] \in Message'
           /\ [Says(id, role, t) EXCEPT !.blank = TRUE] \in Message'
<1>1. id \in {UserId(u) : u \in Turn} \cup {AssistantId(u) : u \in Turn} \cup {FreshId(n) : n \in 1..ids'}
  OBVIOUS
<1> QED
  BY <1>1 DEF Says, Message

\* Ids of messages that are there, and not of any other.
LEMMA NoFreshId ==
    ASSUME TypeInv, NEW n \in Nat, n > ids, NEW i \in DOMAIN session.messages
    PROVE  session.messages[i].id # FreshId(n)
<1>1. session.messages[i].id \in
          {UserId(t) : t \in Turn} \cup {AssistantId(t) : t \in Turn} \cup {FreshId(k) : k \in 1..ids}
  <2>1. session.messages[i] \in Message
    BY SessionType
  <2> QED
    BY <2>1 DEF Message
<1>2. ASSUME session.messages[i].id = FreshId(n) PROVE FALSE
  <2>1. PICK k \in 1..ids : session.messages[i].id = FreshId(k)
    BY <1>1, <1>2, IdsApart
  <2>2. k = n
    BY <1>2, <2>1, IdsApart
  <2> QED
    BY <2>1, <2>2 DEF TypeInv
<1> QED
  BY <1>2

\* The partial answer of a continuation.
LEMMA PartialWrites ==
    ASSUME TranscriptInv, WritePartial, ~turns[active].partial
    PROVE  Wrote
<1> DEFINE m == session.messages
           partial == Says(AssistantId(active), "assistant", active)
           at == Position(session, AssistantId(active))
           n == IF at = 0 THEN Append(m, partial) ELSE Rewritten(m, partial)
<1>1. /\ call.pc = "partial" /\ active \in Turn /\ request.pc = "none"
      /\ ids \in Nat /\ ids' = ids /\ call.mode = "continue"
      /\ UNCHANGED <<turns, active, request, requests>>
  BY DEF TranscriptInv, TypeInv, OneTurn, Copies, WritePartial
<1>2. m \in Seq(Message') /\ partial \in Message'
  <2>1. m \in Seq(Message')
    BY <1>1, TranscriptStays DEF TranscriptInv
  <2> QED
    BY <1>1, <2>1, SaysType
<1>3. session' = [session EXCEPT !.messages = n]
  BY <1>1, SessionType DEF WritePartial, TranscriptInv
<1>4. session'.messages = n
  BY <1>3, SessionType DEF TranscriptInv
<1>5. UserId(active) \in MessageIds(session)
  BY <1>1 DEF TranscriptInv, QuestionFirst
<1>6. PICK i \in DOMAIN m : m[i].id = UserId(active)
  BY <1>5 DEF MessageIds
<1>7. OnlyLaterBlank(m) /\ Named(m)
  BY DEF TranscriptInv
<1>8. /\ partial.id = AssistantId(active) /\ partial.turn = active /\ partial.role = "assistant"
  BY DEF Says
<1>9. /\ n \in Seq(Message') /\ Extends(m, n, active) /\ OnlyLaterBlank(n) /\ Named(n)
  <2>1. CASE at = 0
    <3>1. \A j \in DOMAIN m : m[j].id # partial.id
      BY <1>8, <2>1, SessionType, PositionFirst DEF TranscriptInv
    <3>2. \A u \in Turn : partial.id \in {UserId(u), AssistantId(u)} => active = u
      BY <1>8, IdsApart
    <3> HIDE DEF m, partial, at
    <3> QED
      BY <1>2, <1>7, <1>8, <2>1, <3>1, <3>2, Adding
  <2>2. CASE at # 0
    <3>1. \A j \in DOMAIN m : m[j].id = partial.id => m[j].turn = partial.turn
      BY <1>1, <1>7, <1>8 DEF Named
    <3>2. n = Rewritten(m, partial)
      BY <2>2
    <3> HIDE DEF m, partial, at, n
    <3> QED
      BY <1>2, <1>7, <1>8, <3>1, <3>2, Rewriting
  <2> QED
    BY <2>1, <2>2
<1>10. UserId(active) \in MessageIds(session')
  <2>1. i \in DOMAIN n /\ n[i].id = UserId(active)
    <3>1. DOMAIN m = 1..Len(m) /\ DOMAIN n = 1..Len(n) /\ Len(m) \in Nat /\ Len(n) \in Nat
      BY <1>2, <1>9, LenProperties
    <3> QED
      BY <1>6, <1>9, <3>1 DEF Extends
  <2> QED
    BY <1>4, <2>1 DEF MessageIds
<1> QED
  BY <1>1, <1>3, <1>4, <1>9, <1>10 DEF Wrote

\* The question of the turn.
LEMMA QuestionWrites ==
    ASSUME TranscriptInv, SaveQuestion
    PROVE  Wrote
<1> DEFINE m == session.messages
           question == Says(UserId(active), "user", active)
           n == Append(m, question)
<1>1. /\ call.pc = "question" /\ active \in Turn /\ request.pc = "none" /\ call.copy = session
      /\ ids \in Nat /\ ids' = ids /\ ~HasQuestion(session)
      /\ UNCHANGED <<turns, active, request, requests>>
  BY DEF TranscriptInv, TypeInv, OneTurn, Copies, SaveQuestion, Saved, Holding
<1>2. m \in Seq(Message') /\ question \in Message'
  <2>1. m \in Seq(Message')
    BY <1>1, TranscriptStays DEF TranscriptInv
  <2> QED
    BY <1>1, <2>1, SaysType
<1>3. session' = [session EXCEPT !.messages = n]
  BY <1>1, SessionType DEF SaveQuestion, Saved, TranscriptInv
<1>4. session'.messages = n
  BY <1>3, SessionType DEF TranscriptInv
<1>5. /\ question.id = UserId(active) /\ question.turn = active
  BY DEF Says
<1>6. \A j \in DOMAIN m : m[j].id # question.id
  BY <1>1, <1>5 DEF HasQuestion, MessageIds
<1>7. \A u \in Turn : question.id \in {UserId(u), AssistantId(u)} => active = u
  BY <1>5, IdsApart
<1>8. /\ n \in Seq(Message') /\ Extends(m, n, active) /\ OnlyLaterBlank(n) /\ Named(n)
      /\ \E i \in DOMAIN n : n[i] = question
  <2>1. OnlyLaterBlank(m) /\ Named(m)
    BY DEF TranscriptInv
  <2> HIDE DEF m, question
  <2> QED
    BY <1>2, <1>5, <1>6, <1>7, <2>1, Adding
<1>9. UserId(active) \in MessageIds(session')
  BY <1>4, <1>5, <1>8 DEF MessageIds
<1> QED
  BY <1>1, <1>3, <1>4, <1>8, <1>9 DEF Wrote

\* The message of a response: under the turn's own id, or behind the others.
LEMMA AssistantWrites ==
    ASSUME TranscriptInv, active \in Turn, HasQuestion(session), NEW kind \in {"tool", "text"},
           ids' = ids + 2
    PROVE  LET n == WithAssistant(session.messages, kind) IN
           /\ n \in Seq(Message') /\ Extends(session.messages, n, active)
           /\ OnlyLaterBlank(n) /\ Named(n)
           /\ \A i \in DOMAIN n : n[i].id # FreshId(ids + 2)
<1> DEFINE m == session.messages
           id == IF call.preferred THEN AssistantId(active) ELSE FreshId(ids + 1)
           at == Position([messages |-> m], id)
           said == [Says(id, "assistant", active) EXCEPT !.call = kind = "tool"]
           again == [said EXCEPT !.call = @ \/ m[at].call]
           n == IF at = 0 THEN Append(m, said) ELSE Rewritten(m, again)
<1>1. ids \in Nat /\ ids' \in Nat /\ ids <= ids' /\ ids + 1 \in 1..ids' /\ ids + 2 \in Nat
      /\ ids + 1 \in Nat
  BY DEF TranscriptInv, TypeInv
<1>2. m \in Seq(Message') /\ m \in Seq(Message) /\ OnlyLaterBlank(m) /\ Named(m)
  BY <1>1, TranscriptStays, SessionType DEF TranscriptInv
<1>3. said \in Message' /\ said.id = id /\ said.turn = active
  <2>1. \/ id \in {UserId(active), AssistantId(active)}
        \/ \E k \in 1..ids' : id = FreshId(k)
    BY <1>1
  <2>2. said \in Message'
    BY <2>1, SaysType
  <2> QED
    BY <2>2 DEF Says
<1>4. \A i \in DOMAIN m : m[i].id # FreshId(ids + 1) /\ m[i].id # FreshId(ids + 2)
  BY <1>1, NoFreshId DEF TranscriptInv
<1>5. WithAssistant(m, kind) = n
  BY DEF WithAssistant
<1>6. id # FreshId(ids + 2)
  BY <1>1, IdsApart
<1>7. CASE at = 0
  <2>1. \A j \in DOMAIN m : m[j].id # said.id
    <3>1. [messages |-> m].messages = m
      OBVIOUS
    <3> QED
      BY <1>2, <1>3, <1>7, <3>1, PositionFirst
  <2>2. \A u \in Turn : said.id \in {UserId(u), AssistantId(u)} => active = u
    BY <1>3, IdsApart
  <2>3. n = Append(m, said)
    BY <1>7
  <2> HIDE DEF m, said, at, n, id
  <2>4. /\ n \in Seq(Message') /\ Extends(m, n, active) /\ OnlyLaterBlank(n) /\ Named(n)
        /\ \A i \in DOMAIN n : n[i] = said \/ (i \in DOMAIN m /\ n[i] = m[i])
    BY <1>2, <1>3, <2>1, <2>2, <2>3, Adding
  <2>5. \A i \in DOMAIN n : n[i].id # FreshId(ids + 2)
    BY <1>3, <1>4, <1>6, <2>4
  <2> QED
    BY <1>5, <2>4, <2>5 DEF m
<1>8. CASE at # 0
  <2>1. at \in DOMAIN m /\ m[at].id = id /\ \A j \in DOMAIN m : m[j].id = id => at <= j
    <3>1. [messages |-> m].messages = m
      OBVIOUS
    <3> QED
      BY <1>2, <1>8, <3>1, PositionFirst
  <2>2. \A j \in DOMAIN m : m[j].id = id => m[j].turn = active
    <3>1. id = AssistantId(active)
      BY <1>4, <2>1
    <3> QED
      BY <1>2, <3>1 DEF Named
  <2>3. m[at] \in Message'
    BY <1>2, <2>1, LenProperties, ElementOfSeq
  <2>4. /\ again \in Message' /\ again.id = id /\ again.turn = active /\ again.role # "tool"
    <3>1. said.role = "assistant"
      BY DEF Says
    <3>2. m[at].call \in BOOLEAN
      BY <2>3 DEF Message
    <3> HIDE DEF said, m, at
    <3> QED
      BY <1>3, <3>1, <3>2 DEF Message
  <2>5. n = Rewritten(m, again)
    BY <1>8
  <2> HIDE DEF m, again, at, n, id
  <2>6. /\ n \in Seq(Message') /\ Extends(m, n, active) /\ OnlyLaterBlank(n) /\ Named(n)
        /\ \A i \in DOMAIN n : i \in DOMAIN m /\ n[i].id = m[i].id
    BY <1>2, <2>2, <2>4, <2>5, Rewriting
  <2>7. \A i \in DOMAIN n : n[i].id # FreshId(ids + 2)
    BY <1>4, <2>6
  <2> QED
    BY <1>5, <2>6, <2>7 DEF m
<1> QED
  BY <1>7, <1>8

\* A message that was there when another was added or rewritten still is.
LEMMA IdStays ==
    ASSUME NEW S, NEW T, NEW m \in Seq(S), NEW n \in Seq(T), NEW t, Extends(m, n, t),
           NEW i \in DOMAIN m
    PROVE  i \in DOMAIN n /\ n[i].id = m[i].id
<1>1. DOMAIN m = 1..Len(m) /\ DOMAIN n = 1..Len(n) /\ Len(m) \in Nat /\ Len(n) \in Nat
  BY LenProperties
<1> QED
  BY <1>1 DEF Extends

\* A response, with the result of its tool call if it has one.
LEMMA ResponseWrites ==
    ASSUME TranscriptInv, NEW kind \in Response, KeepResponse(kind)
    PROVE  Wrote
<1> DEFINE m == session.messages
           a == WithAssistant(m, kind)
           result == Says(FreshId(ids + 2), "tool", active)
           n == WithResponse(m, kind)
<1>1. /\ call.pc = "respond" /\ active \in Turn /\ request.pc = "none" /\ call.copy = session
      /\ ids \in Nat /\ ids' = ids + 2 /\ HasQuestion(session)
      /\ UNCHANGED <<turns, active, request, requests>>
  BY DEF TranscriptInv, TypeInv, OneTurn, Copies, QuestionFirst, KeepResponse, Holding
<1>2. kind \in {"tool", "text"}
  BY DEF Response
<1>3. session' = [session EXCEPT !.messages = n]
  BY <1>1, SessionType DEF KeepResponse, TranscriptInv
<1>4. session'.messages = n
  BY <1>3, SessionType DEF TranscriptInv
<1>5. /\ a \in Seq(Message') /\ Extends(m, a, active)
      /\ OnlyLaterBlank(a) /\ Named(a)
      /\ \A i \in DOMAIN a : a[i].id # FreshId(ids + 2)
  BY <1>1, <1>2, AssistantWrites
<1>6. m \in Seq(Message') /\ ids' \in Nat /\ ids <= ids'
  BY <1>1, TranscriptStays DEF TranscriptInv
<1>7. n \in Seq(Message') /\ Extends(m, n, active) /\ OnlyLaterBlank(n) /\ Named(n)
  <2>1. CASE kind = "text"
    <3>1. n = a \o << >>
      BY <2>1 DEF WithResponse
    <3>2. n = a
      BY <1>5, <3>1, ConcatEmptySeq
    <3> QED
      BY <1>5, <3>2
  <2>2. CASE kind = "tool"
    <3>1. n = a \o <<result>>
      BY <2>2 DEF WithResponse
    <3>2. result \in Message' /\ result.id = FreshId(ids + 2) /\ result.turn = active
      <4>1. result \in Message'
        <5>1. ids + 2 \in 1..ids'
          BY <1>1
        <5> QED
          BY <1>1, <5>1, SaysType
      <4> QED
        BY <4>1 DEF Says
    <3>3. \A u \in Turn : result.id \in {UserId(u), AssistantId(u)} => active = u
      BY <3>2, IdsApart
    <3> HIDE DEF m, a, result, n
    <3>4. n = Append(a, result)
      BY <1>5, <3>1, <3>2, AppendIsConcat
    <3>5. \A i \in DOMAIN a : a[i].id # result.id
      BY <1>5, <3>2
    <3>6. n \in Seq(Message') /\ Extends(a, n, active) /\ OnlyLaterBlank(n) /\ Named(n)
      BY <1>5, <3>2, <3>3, <3>4, <3>5, Adding
    <3>7. Extends(m, n, active)
      BY <1>5, <1>6, <3>6, ExtendsTransitive
    <3> QED
      BY <3>6, <3>7
  <2> QED
    BY <1>2, <2>1, <2>2
<1>8. UserId(active) \in MessageIds(session')
  <2>1. PICK i \in DOMAIN m : m[i].id = UserId(active)
    BY <1>1 DEF HasQuestion, MessageIds
  <2>2. i \in DOMAIN n /\ n[i].id = UserId(active)
    <3> HIDE DEF m, n
    <3> QED
      BY <1>6, <1>7, <2>1, IdStays
  <2> QED
    BY <1>4, <2>2 DEF MessageIds
<1> QED
  BY <1>1, <1>3, <1>4, <1>6, <1>7, <1>8 DEF Wrote

\* The empty message of a response without content.
LEMMA NothingWrites ==
    ASSUME TranscriptInv, KeepNothing
    PROVE  Wrote
<1> DEFINE m == session.messages
           nothing == [Says(AssistantId(active), "assistant", active) EXCEPT !.blank = TRUE]
           n == Append(m, nothing)
<1>1. /\ call.pc = "respond" /\ active \in Turn /\ request.pc = "none" /\ call.copy = session
      /\ ids \in Nat /\ ids' = ids /\ HasQuestion(session)
      /\ UNCHANGED <<turns, active, request, requests>>
  BY DEF TranscriptInv, TypeInv, OneTurn, Copies, QuestionFirst, KeepNothing, Holding
<1>2. m \in Seq(Message') /\ nothing \in Message'
  <2>1. m \in Seq(Message')
    BY <1>1, TranscriptStays DEF TranscriptInv
  <2> QED
    BY <1>1, <2>1, SaysType
<1>3. session' = [session EXCEPT !.messages = n]
  BY <1>1, SessionType DEF KeepNothing, TranscriptInv
<1>4. session'.messages = n
  BY <1>3, SessionType DEF TranscriptInv
<1>5. nothing.id = AssistantId(active) /\ nothing.turn = active /\ nothing.blank
  BY DEF Says
<1>6. \A u \in Turn : nothing.id \in {UserId(u), AssistantId(u)} => active = u
  BY <1>5, IdsApart
<1>7. n \in Seq(Message') /\ Extends(m, n, active) /\ OnlyLaterBlank(n) /\ Named(n)
  <2>1. OnlyLaterBlank(m) /\ Named(m)
    BY DEF TranscriptInv
  <2> HIDE DEF m, nothing
  <2> QED
    BY <1>2, <1>5, <1>6, <2>1, Adding
<1>8. UserId(active) \in MessageIds(session')
  <2>1. PICK i \in DOMAIN m : m[i].id = UserId(active)
    BY <1>1 DEF HasQuestion, MessageIds
  <2>2. i \in DOMAIN n /\ n[i].id = UserId(active)
    <3> HIDE DEF m, n
    <3> QED
      BY <1>2, <1>7, <2>1, IdStays
  <2> QED
    BY <1>4, <2>2 DEF MessageIds
<1> QED
  BY <1>1, <1>3, <1>4, <1>7, <1>8 DEF Wrote

\* A plan ends behind the last overlay, at a safe cut, and leaves a message.
LEMMA PlanCut ==
    ASSUME TypeInv, PlanEnd(session) # 0
    PROVE  /\ PlanEnd(session) \in 2..(Len(session.messages) - 1)
           /\ PlanEnd(session) \in DOMAIN session.messages
           /\ PlanEnd(session) > OverlayEnd(session)
           /\ SafeCut(session.messages, PlanEnd(session))
<1> DEFINE m == session.messages
           b == Len(m) - RetainRecentMessages
           cuts == {e \in 1..b : SafeCut(m, e)}
<1>1. Len(m) \in Nat /\ DOMAIN m = 1..Len(m) /\ b \in Int /\ b <= Len(m) - 1
  BY SessionType, TranscriptAssumption
<1>2. cuts # {} /\ PlanEnd(session) = Max(cuts)
      /\ Max(cuts) >= 2 /\ Max(cuts) > OverlayEnd(session)
  <2>1. CASE cuts = {}
    <3>1. PlanEnd(session) = 0
      BY <2>1 DEF PlanEnd
    <3> QED
      BY <3>1
  <2>2. CASE cuts # {}
    BY <2>2 DEF PlanEnd
  <2> QED
    BY <2>1, <2>2
<1>3. Max(cuts) \in cuts
  <2>1. PICK x \in cuts : TRUE
    BY <1>2
  <2>2. b \in Nat /\ cuts \in SUBSET (0..b)
    BY <1>1, <2>1
  <2> HIDE DEF cuts, b
  <2> QED
    BY <2>1, <2>2, MaxGreatest
<1>4. Max(cuts) \in 1..b /\ SafeCut(m, Max(cuts))
  BY <1>3
<1> QED
  BY <1>1, <1>2, <1>4

\* Without the question of the active turn there is no message of it.
LEMMA AllOver ==
    ASSUME TranscriptInv, active \in Turn, ~HasQuestion(session)
    PROVE  \A i \in DOMAIN session.messages : Over(session.messages[i].turn)
<1> TAKE i \in DOMAIN session.messages
<1> DEFINE t == session.messages[i].turn
<1>1. t \in Turn
  <2>1. session.messages[i] \in Message
    BY SessionType DEF TranscriptInv
  <2> QED
    BY <2>1 DEF Message
<1>2. Begun(t) /\ UserId(t) \in MessageIds(session)
  BY DEF TranscriptInv, Written
<1>3. t # active
  BY <1>2 DEF HasQuestion
<1>4. turns[t].status # "started"
  BY <1>1, <1>3 DEF TranscriptInv, OneTurn
<1> QED
  BY <1>2, <1>4 DEF Begun, Over

\* A request's save is an update or a summary of the record as it is.
LEMMA RequestSaves ==
    ASSUME TranscriptInv, SaveRequest
    PROVE  Updated \/ Summarised
<1>1. request.pc = "loaded" /\ request.copy = session
  BY DEF SaveRequest, TranscriptInv, Copies
<1>2. UNCHANGED <<turns, active, call, ids, requests>>
  BY DEF SaveRequest
<1>3. CASE request.op = "compact"
  <2>1. session' = Compacted(session) /\ PlanEnd(session) # 0
    BY <1>1, <1>3 DEF SaveRequest, TranscriptInv, Copies
  <2>2. \A i \in DOMAIN session.messages : Over(session.messages[i].turn)
    BY <1>1 DEF TranscriptInv, Written
  <2> QED
    BY <1>2, <2>1, <2>2 DEF Summarised
<1>4. CASE request.op # "compact"
  BY <1>1, <1>2, <1>4 DEF SaveRequest, Updated
<1> QED
  BY <1>3, <1>4

\* So is a turn's overlay.
LEMMA OverlaySaves ==
    ASSUME TranscriptInv, SaveOverlay
    PROVE  Summarised
<1>1. /\ call.pc = "compact" /\ active \in Turn /\ call.copy = session
      /\ ~HasQuestion(session) /\ PlanEnd(session) # 0
      /\ UNCHANGED <<turns, active, ids, requests>>
  BY DEF TranscriptInv, TypeInv, OneTurn, Copies, SaveOverlay, Holding
<1>2. session' = Compacted(session)
  BY <1>1 DEF SaveOverlay, Saved
<1> QED
  BY <1>1, <1>2, AllOver DEF Summarised

\* Every step keeps the record or replaces it by what follows from it.
LEMMA SessionSteps ==
    ASSUME TranscriptInv, Next
    PROVE  Kept \/ Updated \/ Summarised \/ Wrote
<1>1. ASSUME NEW op \in {"update", "compact"}, Check(op) PROVE Kept
  BY <1>1 DEF Check, Kept
<1>2. CASE LoadForRequest \/ RequestFails
  BY <1>2 DEF LoadForRequest, RequestFails, Kept
<1>3. CASE SaveRequest
  BY <1>3, RequestSaves
<1>4. ASSUME NEW t \in Turn, Admit(t) \/ Claim(t) PROVE Kept
  BY <1>4 DEF Admit, Claim, Kept
<1>5. CASE Capture \/ CompletePartial \/ MarkStreaming \/ LoadForTurn \/ OfferStart \/ NextRound
  BY <1>5 DEF Capture, CompletePartial, MarkStreaming, LoadForTurn, OfferStart, NextRound, Kept
<1>6. CASE WritePartial
  BY <1>6, PartialWrites DEF WritePartial, Kept
<1>7. CASE SaveOverlay
  BY <1>7, OverlaySaves
<1>8. CASE SaveQuestion
  BY <1>8, QuestionWrites
<1>9. ASSUME NEW kind \in Response, OfferResponse(kind) PROVE Kept
  BY <1>9 DEF OfferResponse, Kept
<1>10. ASSUME NEW kind \in Response, KeepResponse(kind) PROVE Wrote
  BY <1>10, ResponseWrites
<1>11. CASE KeepNothing
  BY <1>11, NothingWrites
<1>12. CASE Answered \/ ToolLoopLimit \/ AttemptGivesUp \/ Reconcile \/ Exhaust
  BY <1>12 DEF Answered, ToolLoopLimit, AttemptGivesUp, Reconcile, Exhaust, End, Kept
<1>13. CASE AttemptFails \/ IsolateLost \/ Attempt
  BY <1>13 DEF AttemptFails, IsolateLost, Attempt, Kept
<1> QED
  BY <1>1, <1>2, <1>3, <1>4, <1>5, <1>6, <1>7, <1>8, <1>9, <1>10, <1>11, <1>12, <1>13 DEF Next

\* What a summary leaves, and what it adds.
LEMMA SummaryAdds ==
    ASSUME TranscriptInv, Summarised
    PROVE  /\ session'.messages = session.messages /\ session'.context = session.context
           /\ session'.compactions =
                 Append(session.compactions, session.messages[PlanEnd(session)].id)
           /\ session.messages[PlanEnd(session)].id \in MessageIds(session)
           /\ session' = [context |-> session'.context, messages |-> session'.messages,
                          compactions |-> session'.compactions]
<1>1. /\ session = [context |-> session.context, messages |-> session.messages,
                    compactions |-> session.compactions]
      /\ PlanEnd(session) \in DOMAIN session.messages
  BY SessionType, PlanCut DEF TranscriptInv, Summarised
<1>2. session' = [session EXCEPT !.compactions =
                      Append(@, session.messages[PlanEnd(session)].id)]
  BY DEF Summarised, Compacted
<1> QED
  BY <1>1, <1>2 DEF MessageIds

\* Numbers are drawn upwards.
LEMMA CountersGrow ==
    ASSUME TypeInv, Next
    PROVE  /\ ids' \in Nat /\ ids <= ids'
           /\ requests' \in Nat /\ requests <= requests'
           /\ losses' \in Nat
<1>1. ids \in Nat /\ requests \in Nat /\ losses \in Nat
  BY DEF TypeInv
<1>2. /\ ids' = ids \/ ids' = ids + 2
      /\ requests' = requests \/ requests' = requests + 1
      /\ losses' = losses \/ losses' = losses + 1
  BY DEF Next, Check, LoadForRequest, SaveRequest, RequestFails, Admit, Claim, Capture,
         WritePartial, CompletePartial, MarkStreaming, LoadForTurn, SaveOverlay, SaveQuestion,
         OfferStart, OfferResponse, KeepResponse, KeepNothing, NextRound, Answered, ToolLoopLimit,
         AttemptFails, AttemptGivesUp, IsolateLost, Reconcile, Attempt, Exhaust, End, Loss
<1> QED
  BY <1>1, <1>2

\* No step loses a message.
LEMMA IdsStay ==
    ASSUME TranscriptInv, Next
    PROVE  MessageIds(session) \subseteq MessageIds(session')
<1>1. CASE Kept
  BY <1>1 DEF Kept
<1>2. CASE Updated
  <2>1. session'.messages = session.messages
    BY <1>2, SessionType DEF Updated, TranscriptInv
  <2> QED
    BY <2>1 DEF MessageIds
<1>3. CASE Summarised
  BY <1>3, SummaryAdds DEF MessageIds
<1>4. CASE Wrote
  <2>1. ASSUME NEW i \in DOMAIN session.messages
        PROVE  session.messages[i].id \in MessageIds(session')
    <3>1. /\ session.messages \in Seq(Message) /\ session'.messages \in Seq(Message')
          /\ Extends(session.messages, session'.messages, active)
      BY <1>4, SessionType DEF Wrote, TranscriptInv
    <3>2. /\ i \in DOMAIN session'.messages
          /\ session'.messages[i].id = session.messages[i].id
      BY <3>1, IdStays
    <3> QED
      BY <3>2 DEF MessageIds
  <2> QED
    BY <2>1 DEF MessageIds
<1> QED
  BY <1>1, <1>2, <1>3, <1>4, SessionSteps

\* The record after a step is well typed.
LEMMA SessionStepsType ==
    ASSUME TranscriptInv, Next
    PROVE  (session \in Stored)'
<1>1. /\ session = [context |-> session.context, messages |-> session.messages,
                    compactions |-> session.compactions]
      /\ session.context \in 0..requests /\ session.context \in 0..requests'
      /\ requests \in 0..requests'
  BY SessionType, CountersGrow DEF TranscriptInv, TypeInv
<1>2. session.messages \in Seq(Message')
  BY TranscriptStays, CountersGrow DEF TranscriptInv
<1>3. session.compactions \in Seq(MessageIds(session'))
  BY IdsStay, SessionType, SeqMonotonic DEF TranscriptInv
<1>4. CASE Kept
  <2>1. session' = session
    BY <1>4 DEF Kept
  <2> QED
    BY <1>1, <1>2, <1>3, <2>1 DEF Stored
<1>5. CASE Updated
  <2>1. session' = [context |-> requests, messages |-> session.messages,
                    compactions |-> session.compactions]
    BY <1>1, <1>5 DEF Updated
  <2> QED
    BY <1>1, <1>2, <1>3, <2>1 DEF Stored
<1>6. CASE Summarised
  <2>1. session'.compactions \in Seq(MessageIds(session'))
    <3>1. /\ session.messages[PlanEnd(session)].id \in MessageIds(session')
          /\ session'.compactions =
                Append(session.compactions, session.messages[PlanEnd(session)].id)
      BY <1>6, IdsStay, SummaryAdds
    <3> QED
      BY <1>3, <3>1, AppendProperties
  <2>2. /\ session'.messages = session.messages /\ session'.context = session.context
        /\ session' = [context |-> session'.context, messages |-> session'.messages,
                       compactions |-> session'.compactions]
    BY <1>6, SummaryAdds
  <2> QED
    BY <1>1, <1>2, <2>1, <2>2 DEF Stored
<1>7. CASE Wrote
  <2>1. session' = [session EXCEPT !.messages = session'.messages]
        /\ session'.messages \in Seq(Message')
    BY <1>7 DEF Wrote
  <2>2. session' = [context |-> session.context, messages |-> session'.messages,
                    compactions |-> session.compactions]
    BY <1>1, <2>1
  <2> QED
    BY <1>1, <1>3, <2>1, <2>2 DEF Stored
<1> QED
  BY <1>4, <1>5, <1>6, <1>7, SessionSteps

-----------------------------------------------------------------------------
(* What a step does to the turns *)

\* No turn enters or leaves the session.
SameStatus ==
    /\ active' = active
    /\ \A t \in Turn : turns'[t].status = turns[t].status

\* What the session shows is a snapshot.
LEMMA CapturedType ==
    ASSUME TypeInv
    PROVE  /\ Captured \in Snapshot
           /\ Captured.history = MessageIds(session) /\ Captured.context = session.context
<1>1. MessageIds(session) \subseteq MessageId
  <2>1. ASSUME NEW i \in DOMAIN session.messages PROVE session.messages[i].id \in MessageId
    <3>1. session.messages[i] \in Message
      BY SessionType
    <3>2. ids \in Nat
      BY DEF TypeInv
    <3> QED
      BY <3>1, <3>2 DEF Message, MessageId
  <2> QED
    BY <2>1 DEF MessageIds
<1>2. ToSet(session.compactions) \subseteq MessageIds(session)
  BY SessionType DEF ToSet
<1>3. session.context \in Nat
  BY SessionType DEF TypeInv
<1> QED
  BY <1>1, <1>2, <1>3 DEF Captured, Snapshot

\* A turn's record is replaced by another.
LEMMA RecordType ==
    ASSUME TypeInv, NEW t \in Turn, NEW changes \in TurnRecord, Record(t, changes)
    PROVE  /\ turns' \in [Turn -> TurnRecord]
           /\ \A u \in Turn : turns'[u] = IF u = t THEN changes ELSE turns[u]
  BY DEF TypeInv, Record

\* An attempt at a turn is at the one that has started.
LEMMA ActiveTurn ==
    ASSUME TranscriptInv, call.pc # "none" \/ active # None
    PROVE  /\ active \in Turn /\ turns[active] \in TurnRecord
           /\ turns[active].status = "started"
           /\ turns[active].snapshot.history \subseteq MessageIds(session)
  BY DEF TranscriptInv, TypeInv, OneTurn

\* The record of the active turn is replaced by one in the same status, with the same
\* snapshot or that of the moment.
LEMMA RecordActive ==
    ASSUME TranscriptInv, active \in Turn, NEW changes \in TurnRecord, Record(active, changes),
           changes.status = "started",
           changes.snapshot \in {turns[active].snapshot, Captured},
           active' = active
    PROVE  /\ SameStatus
           /\ turns' \in [Turn -> TurnRecord]
           /\ \A t \in Turn : turns'[t].snapshot.history \subseteq MessageIds(session)
<1>1. /\ turns' \in [Turn -> TurnRecord]
      /\ \A u \in Turn : turns'[u] = IF u = active THEN changes ELSE turns[u]
  BY RecordType DEF TranscriptInv
<1>2. turns[active].status = "started"
  BY ActiveTurn
<1>3. changes.snapshot.history \subseteq MessageIds(session)
  BY ActiveTurn, CapturedType DEF TranscriptInv
<1>4. \A t \in Turn : turns[t].snapshot.history \subseteq MessageIds(session)
  BY DEF TranscriptInv, TypeInv
<1> QED
  BY <1>1, <1>2, <1>3, <1>4 DEF SameStatus

\* A turn that ends keeps the rest of its record.
LEMMA EndTurns ==
    ASSUME TranscriptInv, NEW outcome \in Ended, active \in Turn, End(outcome)
    PROVE  /\ turns' \in [Turn -> TurnRecord]
           /\ turns'[active] = [turns[active] EXCEPT !.status = outcome, !.kind = "none"]
           /\ turns'[active].status = outcome /\ turns'[active].kind = "none"
           /\ turns'[active].opened = turns[active].opened
           /\ \A t \in Turn : t # active => turns'[t] = turns[t]
           /\ \A t \in Turn : turns'[t].snapshot.history \subseteq MessageIds(session)
<1> DEFINE changes == [turns[active] EXCEPT !.status = outcome, !.kind = "none"]
<1>0. turns[active] \in TurnRecord
  BY ActiveTurn
<1>1. /\ changes \in TurnRecord /\ changes.status = outcome /\ changes.kind = "none"
      /\ changes.opened = turns[active].opened /\ changes.snapshot = turns[active].snapshot
  BY <1>0 DEF TurnRecord
<1>2. Record(active, changes)
  BY DEF End
<1> HIDE DEF changes
<1>3. /\ turns' \in [Turn -> TurnRecord]
      /\ \A u \in Turn : turns'[u] = IF u = active THEN changes ELSE turns[u]
  BY <1>1, <1>2, RecordType DEF TranscriptInv
<1>4. \A t \in Turn : turns[t].snapshot.history \subseteq MessageIds(session)
  BY DEF TranscriptInv, TypeInv
<1> QED
  BY <1>1, <1>3, <1>4 DEF changes

\* A turn that is claimed is the active one, or the next, and is the active one then.
LEMMA ClaimTurns ==
    ASSUME TranscriptInv, NEW t \in Turn, Claim(t)
    PROVE  /\ turns' \in [Turn -> TurnRecord]
           /\ turns'[t] = [turns[t] EXCEPT !.status = "started", !.checkpoint = "preparing"]
           /\ turns'[t].status = "started"
           /\ turns'[t].kind = turns[t].kind /\ turns'[t].opened = turns[t].opened
           /\ \A u \in Turn : u # t => turns'[u] = turns[u]
           /\ \A u \in Turn : turns'[u].snapshot.history \subseteq MessageIds(session)
<1> DEFINE changes == [turns[t] EXCEPT !.status = "started", !.checkpoint = "preparing"]
<1>1. turns[t] \in TurnRecord
  BY DEF TranscriptInv, TypeInv
<1>2. /\ changes \in TurnRecord /\ changes.status = "started" /\ changes.kind = turns[t].kind
      /\ changes.opened = turns[t].opened /\ changes.snapshot = turns[t].snapshot
  BY <1>1 DEF TurnRecord
<1>3. Record(t, changes)
  BY DEF Claim
<1> HIDE DEF changes
<1>4. /\ turns' \in [Turn -> TurnRecord]
      /\ \A u \in Turn : turns'[u] = IF u = t THEN changes ELSE turns[u]
  BY <1>2, <1>3, RecordType DEF TranscriptInv
<1>5. \A u \in Turn : turns[u].snapshot.history \subseteq MessageIds(session)
  BY DEF TranscriptInv, TypeInv
<1> QED
  BY <1>2, <1>4, <1>5 DEF changes

\* A turn is queued with a snapshot of the moment.
LEMMA AdmitTurns ==
    ASSUME TranscriptInv, NEW t \in Turn, Admit(t)
    PROVE  /\ turns' \in [Turn -> TurnRecord]
           /\ turns'[t].status = "queued" /\ turns'[t].kind = "none" /\ ~turns'[t].opened
           /\ \A u \in Turn : u # t => turns'[u] = turns[u]
           /\ \A u \in Turn : turns'[u].snapshot.history \subseteq MessageIds(session)
<1> DEFINE changes == [AbsentTurn EXCEPT !.status = "queued", !.snapshot = Captured]
<1>1. Captured \in Snapshot /\ Captured.history = MessageIds(session)
  BY CapturedType DEF TranscriptInv
<1>2. /\ changes \in TurnRecord /\ changes.status = "queued" /\ changes.kind = "none"
      /\ ~changes.opened /\ changes.snapshot = Captured
  BY <1>1 DEF TurnRecord, AbsentTurn
<1>3. Record(t, changes)
  BY DEF Admit
<1> HIDE DEF changes
<1>4. /\ turns' \in [Turn -> TurnRecord]
      /\ \A u \in Turn : turns'[u] = IF u = t THEN changes ELSE turns[u]
  BY <1>2, <1>3, RecordType DEF TranscriptInv
<1>5. \A u \in Turn : turns[u].snapshot.history \subseteq MessageIds(session)
  BY DEF TranscriptInv, TypeInv
<1> QED
  BY <1>1, <1>2, <1>4, <1>5

\* Records of the active turn that the steps of an attempt write.
LEMMA AttemptRecords ==
    ASSUME TranscriptInv, active \in Turn, NEW r, r = turns[active]
    PROVE  /\ [r EXCEPT !.checkpoint = "preparing", !.snapshot = Captured] \in TurnRecord
           /\ [r EXCEPT !.checkpoint = "partial-persisted", !.partial = TRUE] \in TurnRecord
           /\ [r EXCEPT !.checkpoint = "streaming"] \in TurnRecord
           /\ [r EXCEPT !.opened = TRUE] \in TurnRecord
           /\ \A kind : [r EXCEPT !.opened = TRUE, !.tool = @ \/ kind = "tool"] \in TurnRecord
           /\ [r EXCEPT !.kind = classifyRecovery(r)] \in TurnRecord
           /\ [[r EXCEPT !.checkpoint = IF call.mode = "continue" THEN "partial-persisted" ELSE @]
                 EXCEPT !.kind = classifyRecovery(r)] \in TurnRecord
<1>1. r \in TurnRecord
  BY ActiveTurn
<1>2. Captured \in Snapshot
  BY CapturedType DEF TranscriptInv
<1>3. classifyRecovery(r) \in {"pre-stream-retry", "partial-continuation", "unrecoverable"}
  BY <1>1 DEF classifyRecovery, TurnRecord
<1>4. \A kind : (r.tool \/ kind = "tool") \in BOOLEAN
  OBVIOUS
<1>5. /\ [r EXCEPT !.checkpoint = "preparing", !.snapshot = Captured] \in TurnRecord
      /\ [r EXCEPT !.checkpoint = "partial-persisted", !.partial = TRUE] \in TurnRecord
      /\ [r EXCEPT !.checkpoint = "streaming"] \in TurnRecord
      /\ [r EXCEPT !.opened = TRUE] \in TurnRecord
  BY <1>1, <1>2 DEF TurnRecord
<1>6. \A kind : [r EXCEPT !.opened = TRUE, !.tool = @ \/ kind = "tool"] \in TurnRecord
  BY <1>1, <1>4 DEF TurnRecord
<1>7. /\ [r EXCEPT !.kind = classifyRecovery(r)] \in TurnRecord
      /\ [[r EXCEPT !.checkpoint = IF call.mode = "continue" THEN "partial-persisted" ELSE @]
             EXCEPT !.kind = classifyRecovery(r)] \in TurnRecord
  <2>1. ASSUME NEW q \in TurnRecord PROVE [q EXCEPT !.kind = classifyRecovery(r)] \in TurnRecord
    BY <1>3 DEF TurnRecord
  <2>2. [r EXCEPT !.checkpoint = IF call.mode = "continue" THEN "partial-persisted" ELSE @]
            \in TurnRecord
    BY <1>1 DEF TurnRecord
  <2> QED
    BY <1>1, <2>1, <2>2
<1> QED
  BY <1>5, <1>6, <1>7

\* What the steps of an attempt leave of the turns' records.
LEMMA AttemptTurns ==
    ASSUME TranscriptInv,
           \/ Capture \/ CompletePartial \/ MarkStreaming \/ OfferStart \/ AttemptFails
           \/ \E kind \in Response : OfferResponse(kind)
    PROVE  /\ SameStatus /\ active \in Turn
           /\ turns' \in [Turn -> TurnRecord]
           /\ \A t \in Turn : turns'[t].snapshot.history \subseteq MessageIds(session)
<1> DEFINE r == turns[active]
<1>1. active \in Turn /\ r \in TurnRecord /\ r.status = "started"
  BY ActiveTurn DEF Capture, CompletePartial, MarkStreaming, OfferStart, AttemptFails, OfferResponse
<1>2. CASE Capture
  <2> DEFINE changes == [r EXCEPT !.checkpoint = "preparing", !.snapshot = Captured]
  <2>1. changes \in TurnRecord
    BY <1>1, AttemptRecords
  <2>2. changes.status = "started" /\ changes.snapshot = Captured
    BY <1>1 DEF TurnRecord
  <2>3. Record(active, changes) /\ active' = active
    BY <1>2 DEF Capture
  <2> HIDE DEF changes
  <2> QED
    BY <1>1, <2>1, <2>2, <2>3, RecordActive
<1>3. CASE CompletePartial
  <2> DEFINE changes == [r EXCEPT !.checkpoint = "partial-persisted", !.partial = TRUE]
  <2>1. changes \in TurnRecord
    BY <1>1, AttemptRecords
  <2>2. changes.status = "started" /\ changes.snapshot = r.snapshot
    BY <1>1 DEF TurnRecord
  <2>3. Record(active, changes) /\ active' = active
    BY <1>3 DEF CompletePartial
  <2> HIDE DEF changes
  <2> QED
    BY <1>1, <2>1, <2>2, <2>3, RecordActive
<1>4. CASE MarkStreaming
  <2> DEFINE changes == [r EXCEPT !.checkpoint = "streaming"]
  <2>1. changes \in TurnRecord
    BY <1>1, AttemptRecords
  <2>2. changes.status = "started" /\ changes.snapshot = r.snapshot
    BY <1>1 DEF TurnRecord
  <2>3. Record(active, changes) /\ active' = active
    BY <1>4 DEF MarkStreaming
  <2> HIDE DEF changes
  <2> QED
    BY <1>1, <2>1, <2>2, <2>3, RecordActive
<1>5. CASE OfferStart
  <2> DEFINE changes == [r EXCEPT !.opened = TRUE]
  <2>1. changes \in TurnRecord
    BY <1>1, AttemptRecords
  <2>2. changes.status = "started" /\ changes.snapshot = r.snapshot
    BY <1>1 DEF TurnRecord
  <2>3. Record(active, changes) /\ active' = active
    BY <1>5 DEF OfferStart
  <2> HIDE DEF changes
  <2> QED
    BY <1>1, <2>1, <2>2, <2>3, RecordActive
<1>6. CASE AttemptFails
  <2> DEFINE changes ==
        [[r EXCEPT !.checkpoint = IF call.mode = "continue" THEN "partial-persisted" ELSE @]
            EXCEPT !.kind = classifyRecovery(r)]
  <2>1. changes \in TurnRecord
    BY <1>1, AttemptRecords
  <2>2. changes.status = "started" /\ changes.snapshot = r.snapshot
    BY <1>1 DEF TurnRecord
  <2>3. Record(active, changes) /\ active' = active
    BY <1>6 DEF AttemptFails
  <2> HIDE DEF changes
  <2> QED
    BY <1>1, <2>1, <2>2, <2>3, RecordActive
<1>7. ASSUME NEW kind \in Response, OfferResponse(kind)
      PROVE  /\ SameStatus /\ turns' \in [Turn -> TurnRecord]
             /\ \A t \in Turn : turns'[t].snapshot.history \subseteq MessageIds(session)
  <2> DEFINE changes == [r EXCEPT !.opened = TRUE, !.tool = @ \/ kind = "tool"]
  <2>1. changes \in TurnRecord
    BY <1>1, AttemptRecords
  <2>2. changes.status = "started" /\ changes.snapshot = r.snapshot
    BY <1>1 DEF TurnRecord
  <2>3. Record(active, changes) /\ active' = active
    BY <1>7 DEF OfferResponse
  <2> HIDE DEF changes
  <2> QED
    BY <1>1, <2>1, <2>2, <2>3, RecordActive
<1> QED
  BY <1>1, <1>2, <1>3, <1>4, <1>5, <1>6, <1>7

\* A lost isolate leaves at most a kind.
LEMMA LossTurns ==
    ASSUME TranscriptInv, IsolateLost
    PROVE  /\ SameStatus
           /\ turns' \in [Turn -> TurnRecord]
           /\ \A t \in Turn : turns'[t].snapshot.history \subseteq MessageIds(session)
<1>1. ASSUME NEW t \in Turn
      PROVE  /\ turns'[t] \in TurnRecord /\ turns'[t].status = turns[t].status
             /\ turns'[t].snapshot = turns[t].snapshot
  <2>1. CASE t = active /\ turns[t].kind = "none"
    <3>1. turns'[t] = [turns[t] EXCEPT !.kind = classifyRecovery(turns[t])]
      BY <2>1 DEF IsolateLost
    <3>2. turns'[t] \in TurnRecord
      BY <2>1, <3>1, AttemptRecords
    <3>3. turns[t] \in TurnRecord
      BY DEF TranscriptInv, TypeInv
    <3> QED
      BY <3>1, <3>2, <3>3 DEF TurnRecord
  <2>2. CASE ~(t = active /\ turns[t].kind = "none")
    <3>1. turns'[t] = turns[t]
      BY <2>2 DEF IsolateLost
    <3> QED
      BY <3>1 DEF TranscriptInv, TypeInv
  <2> QED
    BY <2>1, <2>2
<1>2. turns' = [t \in Turn |-> turns'[t]] /\ active' = active
  BY DEF IsolateLost
<1>3. turns' \in [Turn -> TurnRecord]
  BY <1>1, <1>2
<1> QED
  BY <1>1, <1>2, <1>3 DEF SameStatus, TranscriptInv, TypeInv

\* Steps that leave the turns' records alone.
LEMMA SameTurns ==
    ASSUME TranscriptInv, UNCHANGED <<turns, active>>
    PROVE  /\ SameStatus
           /\ turns' \in [Turn -> TurnRecord]
           /\ \A t \in Turn : turns'[t].snapshot.history \subseteq MessageIds(session)
  BY DEF TranscriptInv, TypeInv, SameStatus

\* A step admits a turn, claims one, ends one, or leaves every turn's status.
LEMMA StatusSteps ==
    ASSUME TranscriptInv, Next
    PROVE  /\ turns' \in [Turn -> TurnRecord]
           /\ \A t \in Turn : turns'[t].snapshot.history \subseteq MessageIds(session)
           /\ \/ SameStatus
              \/ \E t \in Turn : Admit(t) \/ Claim(t)
              \/ active \in Turn /\ \E outcome \in Ended : End(outcome)
<1>1. ASSUME NEW op \in {"update", "compact"}, Check(op) PROVE UNCHANGED <<turns, active>>
  BY <1>1 DEF Check
<1>2. CASE LoadForRequest \/ SaveRequest \/ RequestFails \/ WritePartial \/ LoadForTurn
           \/ SaveOverlay \/ SaveQuestion \/ KeepNothing \/ NextRound \/ Attempt
  <2>1. UNCHANGED <<turns, active>>
    BY <1>2 DEF LoadForRequest, SaveRequest, RequestFails, WritePartial, LoadForTurn, SaveOverlay,
                SaveQuestion, KeepNothing, NextRound, Attempt
  <2> QED
    BY <2>1, SameTurns
<1>3. ASSUME NEW kind \in Response, KeepResponse(kind) PROVE UNCHANGED <<turns, active>>
  BY <1>3 DEF KeepResponse
<1>4. CASE Capture \/ CompletePartial \/ MarkStreaming \/ OfferStart \/ AttemptFails
           \/ \E kind \in Response : OfferResponse(kind)
  BY <1>4, AttemptTurns
<1>5. CASE Answered \/ ToolLoopLimit \/ AttemptGivesUp \/ Reconcile \/ Exhaust
  <2>1. active \in Turn
    BY <1>5, ActiveTurn DEF Answered, ToolLoopLimit, AttemptGivesUp, Reconcile, Exhaust
  <2>2. PICK outcome \in Ended : End(outcome)
    BY <1>5 DEF Answered, ToolLoopLimit, AttemptGivesUp, Reconcile, Exhaust
  <2> QED
    BY <2>1, <2>2, EndTurns
<1>6. CASE IsolateLost
  BY <1>6, LossTurns
<1>7. ASSUME NEW t \in Turn, Admit(t) \/ Claim(t)
      PROVE  /\ turns' \in [Turn -> TurnRecord]
             /\ \A u \in Turn : turns'[u].snapshot.history \subseteq MessageIds(session)
  BY <1>7, AdmitTurns, ClaimTurns
<1> QED
  BY <1>1, <1>2, <1>3, <1>4, <1>5, <1>6, <1>7, SameTurns DEF Next

\* What a turn loads is the record as it is: nothing was saved since its snapshot.
LEMMA LoadsSession ==
    ASSUME TranscriptInv, LoadForTurn
    PROVE  /\ call' = [call EXCEPT !.pc = call'.pc, !.copy = session]
           /\ call'.copy = session /\ call'.mode = call.mode
           /\ call'.pc \in Holding
           /\ call.mode = "continue" => call'.pc = "respond"
           /\ call.mode = "fresh" =>
                 /\ call'.pc = "start" => HasQuestion(session)
                 /\ call'.pc \in {"compact", "question"} => ~HasQuestion(session)
                 /\ call'.pc = "compact" => PlanEnd(session) # 0
                 /\ call'.pc # "respond"
<1>1. /\ call \in CallOf(call.copy) /\ call.pc = "load"
      /\ turns[active].snapshot.context = session.context
      /\ call.mode = "fresh" => turns[active].snapshot = Captured
  BY DEF TranscriptInv, TypeInv, Copies, LoadForTurn
<1>2. session = [context |-> session.context, messages |-> session.messages,
                 compactions |-> session.compactions]
  BY SessionType DEF TranscriptInv
<1>3. CASE call.mode = "continue"
  <2>1. call' = [call EXCEPT !.pc = "respond",
                     !.copy = [session EXCEPT !.context = turns[active].snapshot.context]]
    BY <1>3 DEF LoadForTurn
  <2>2. [session EXCEPT !.context = turns[active].snapshot.context] = session
    BY <1>1, <1>2
  <2> QED
    BY <1>1, <1>3, <2>1, <2>2 DEF CallOf, Holding
<1>4. CASE call.mode = "fresh"
  <2> DEFINE view == View(turns[active].snapshot)
             next == CASE call.mode = "continue" -> "respond"
                       [] call.mode = "fresh" /\ HasQuestion(view) -> "start"
                       [] call.mode = "fresh" /\ ~HasQuestion(view)
                             /\ Len(Visible(view)) > CompactionThreshold /\ PlanEnd(view) > 0 -> "compact"
                       [] OTHER -> "question"
  <2>1. view = session
    <3> DEFINE m == session.messages
               c == session.compactions
    <3>1. m \in Seq(Message) /\ c \in Seq(MessageIds(session))
      BY SessionType DEF TranscriptInv
    <3>2. {i \in DOMAIN m : m[i].id \in turns[active].snapshot.history} = DOMAIN m
      BY <1>1, <1>4 DEF Captured, MessageIds
    <3>3. {i \in DOMAIN c : c[i] \in turns[active].snapshot.compactions} = DOMAIN c
      BY <1>1, <1>4 DEF Captured, ToSet
    <3>4. EntriesAt(m, DOMAIN m) = m /\ EntriesAt(c, DOMAIN c) = c
      BY <3>1, AllEntries
    <3>5. view = [context |-> session.context, messages |-> m, compactions |-> c]
      BY <1>1, <3>2, <3>3, <3>4 DEF View
    <3> QED
      BY <1>2, <3>5
  <2>2. call' = [call EXCEPT !.pc = next, !.copy = view]
    BY <1>4 DEF LoadForTurn
  <2> HIDE DEF view
  <2>3. /\ next \in {"start", "compact", "question"}
        /\ next = "start" => HasQuestion(view)
        /\ next \in {"compact", "question"} => ~HasQuestion(view)
        /\ next = "compact" => PlanEnd(view) > 0
    BY <1>4
  <2> HIDE DEF next
  <2>4. call'.pc = next /\ call'.copy = view /\ call'.mode = call.mode
    BY <1>1, <2>2 DEF CallOf
  <2>5. call'.pc \in Holding /\ call'.pc = next
    BY <2>3, <2>4 DEF Holding
  <2>6. call' = [call EXCEPT !.pc = call'.pc, !.copy = session]
    BY <2>1, <2>2, <2>5
  <2> QED
    BY <1>4, <2>1, <2>3, <2>4, <2>5, <2>6
<1> QED
  BY <1>1, <1>3, <1>4 DEF CallOf

\* The attempt, the request and the lock after a step.
LEMMA HoldersType ==
    ASSUME TranscriptInv, Next
    PROVE  /\ call' \in CallOf(call'.copy)
           /\ request' \in RequestOf(request'.copy)
           /\ lock' \in {"free", "turn", "request"}
           /\ lock' = "turn" <=> call'.pc \in Holding
           /\ lock' = "request" <=> request'.pc = "loaded"
<1> DEFINE Goal ==
        /\ call' \in CallOf(call'.copy)
        /\ request' \in RequestOf(request'.copy)
        /\ lock' \in {"free", "turn", "request"}
        /\ lock' = "turn" <=> call'.pc \in Holding
        /\ lock' = "request" <=> request'.pc = "loaded"
<1>1. /\ call \in CallOf(call.copy)
      /\ request \in RequestOf(request.copy)
      /\ lock \in {"free", "turn", "request"}
      /\ lock = "turn" <=> call.pc \in Holding
      /\ lock = "request" <=> request.pc = "loaded"
  BY DEF TranscriptInv, TypeInv
<1> USE DEF CallOf, RequestOf, Holding
<1>2. ASSUME NEW op \in {"update", "compact"}, Check(op) PROVE Goal
  BY <1>1, <1>2 DEF Check, NoRequest
<1>3. CASE LoadForRequest
  <2>1. CASE request.op = "compact" /\ PlanEnd(session) = 0
    BY <1>1, <1>3, <2>1 DEF LoadForRequest, NoRequest
  <2>2. CASE ~(request.op = "compact" /\ PlanEnd(session) = 0)
    BY <1>1, <1>3, <2>2 DEF LoadForRequest
  <2> QED
    BY <2>1, <2>2
<1>4. CASE SaveRequest \/ RequestFails
  BY <1>1, <1>4 DEF SaveRequest, RequestFails, NoRequest
<1>5. ASSUME NEW t \in Turn, Admit(t) PROVE Goal
  BY <1>1, <1>5 DEF Admit
<1>6. ASSUME NEW t \in Turn, Claim(t) PROVE Goal
  BY <1>1, <1>6 DEF Claim, NoCall
<1>7. CASE Capture
  BY <1>1, <1>7 DEF Capture, Goto
<1>8. CASE WritePartial
  BY <1>1, <1>8 DEF WritePartial, Goto
<1>9. CASE CompletePartial
  BY <1>1, <1>9 DEF CompletePartial, Goto
<1>10. CASE MarkStreaming
  BY <1>1, <1>10 DEF MarkStreaming, Goto
<1>11. CASE LoadForTurn
  <2>1. call'.pc \in Holding /\ call' = [call EXCEPT !.pc = call'.pc, !.copy = session]
    BY <1>11, LoadsSession
  <2>2. lock = "free" /\ lock' = "turn" /\ request' = request
    BY <1>11 DEF LoadForTurn
  <2> QED
    BY <1>1, <2>1, <2>2
<1>12. CASE SaveOverlay
  BY <1>1, <1>12 DEF SaveOverlay, Saved
<1>13. CASE SaveQuestion
  BY <1>1, <1>13 DEF SaveQuestion, Saved
<1>14. CASE OfferStart
  BY <1>1, <1>14 DEF OfferStart, Goto
<1>15. ASSUME NEW kind \in Response, OfferResponse(kind) PROVE Goal
  BY <1>1, <1>15 DEF OfferResponse, Response
<1>16. ASSUME NEW kind \in Response, KeepResponse(kind) PROVE Goal
  BY <1>1, <1>16 DEF KeepResponse, Response
<1>17. CASE KeepNothing
  BY <1>1, <1>17 DEF KeepNothing
<1>18. CASE NextRound
  <2>1. PICK round \in Nat :
            call' = [call EXCEPT !.round = round, !.offered = "none", !.kept = "none"]
    <3>1. call.round + 1 \in Nat
      BY <1>1
    <3> QED
      BY <1>18, <3>1 DEF NextRound
  <2>2. lock' = lock /\ request' = request
    BY <1>18 DEF NextRound
  <2>3. call' \in CallOf(call'.copy) /\ call'.pc = call.pc
    BY <1>1, <2>1
  <2> QED
    BY <1>1, <2>2, <2>3
<1>19. ASSUME NEW outcome, End(outcome) PROVE Goal
  BY <1>1, <1>19 DEF End, Leave, NoCall
<1>20. CASE Answered \/ ToolLoopLimit \/ AttemptGivesUp \/ Reconcile \/ Exhaust
  BY <1>19, <1>20 DEF Answered, ToolLoopLimit, AttemptGivesUp, Reconcile, Exhaust
<1>21. CASE AttemptFails
  BY <1>1, <1>21 DEF AttemptFails, Leave, NoCall
<1>22. CASE IsolateLost
  BY <1>1, <1>22 DEF IsolateLost, NoCall, NoRequest
<1>23. CASE Attempt
  BY <1>1, <1>23 DEF Attempt, NoCall
<1> QED
  BY <1>2, <1>3, <1>4, <1>5, <1>6, <1>7, <1>8, <1>9, <1>10, <1>11, <1>12, <1>13, <1>14, <1>15,
     <1>16, <1>17, <1>18, <1>20, <1>21, <1>22, <1>23 DEF Next

\* Every step keeps the state well typed.
LEMMA TypeStep ==
    ASSUME TranscriptInv, Next
    PROVE  TypeInv'
<1>1. active' \in {None} \cup Turn
  <2>1. active \in {None} \cup Turn
    BY DEF TranscriptInv, TypeInv
  <2> QED
    BY <2>1, StatusSteps DEF SameStatus, Admit, Claim, End
<1>2. \A t \in Turn : turns'[t].snapshot.history \subseteq MessageIds(session')
  BY StatusSteps, IdsStay
<1>3. (session \in Stored)' /\ turns' \in [Turn -> TurnRecord]
      /\ ids' \in Nat /\ requests' \in Nat /\ losses' \in Nat
  BY SessionStepsType, StatusSteps, CountersGrow DEF TranscriptInv
<1> QED
  BY <1>1, <1>2, <1>3, HoldersType DEF TypeInv

\* Turns only advance: from queued to started, and from started to their end.
LEMMA TurnsAdvance ==
    ASSUME TranscriptInv, Next
    PROVE  \A t \in Turn : (Over(t) => OverNext(t)) /\ (Begun(t) => BegunNext(t))
<1>1. CASE SameStatus
  BY <1>1 DEF SameStatus, Over, Begun, OverNext, BegunNext
<1>2. ASSUME NEW u \in Turn, Admit(u)
      PROVE  \A t \in Turn : (Over(t) => OverNext(t)) /\ (Begun(t) => BegunNext(t))
  <2>1. turns[u].status = "absent"
    BY <1>2 DEF Admit
  <2> QED
    BY <1>2, <2>1, AdmitTurns DEF Over, Begun, OverNext, BegunNext
<1>3. ASSUME NEW u \in Turn, Claim(u)
      PROVE  \A t \in Turn : (Over(t) => OverNext(t)) /\ (Begun(t) => BegunNext(t))
  <2>1. turns[u].status \in {"queued", "started"}
    BY <1>3, ActiveTurn DEF Claim, First
  <2> QED
    BY <1>3, <2>1, ClaimTurns DEF Over, Begun, OverNext, BegunNext
<1>4. ASSUME active \in Turn, NEW outcome \in Ended, End(outcome)
      PROVE  \A t \in Turn : (Over(t) => OverNext(t)) /\ (Begun(t) => BegunNext(t))
  <2>1. turns'[active].status = outcome /\ \A t \in Turn : t # active => turns'[t] = turns[t]
    BY <1>4, EndTurns
  <2> QED
    BY <2>1 DEF Over, Begun, OverNext, BegunNext
<1> QED
  BY <1>1, <1>2, <1>3, <1>4, StatusSteps

\* The attempt and the request stay with the active turn.
LEMMA OneTurnControl ==
    ASSUME TranscriptInv, Next
    PROVE  /\ call'.pc # "none" => active' # None
           /\ active' # None /\ call'.pc # "capture" => request'.pc = "none"
<1> DEFINE Goal == /\ call'.pc # "none" => active' # None
                   /\ active' # None /\ call'.pc # "capture" => request'.pc = "none"
<1>1. /\ call.pc # "none" => active # None
      /\ active # None /\ call.pc # "capture" => request.pc = "none"
  BY DEF TranscriptInv, OneTurn
<1>2. call \in CallOf(call.copy)
  BY DEF TranscriptInv, TypeInv
<1> USE DEF CallOf
<1>3. ASSUME NEW op \in {"update", "compact"}, Check(op) PROVE Goal
  BY <1>1, <1>3 DEF Check
<1>4. CASE LoadForRequest \/ SaveRequest \/ RequestFails
  BY <1>1, <1>4 DEF LoadForRequest, SaveRequest, RequestFails, NoRequest
<1>5. ASSUME NEW t \in Turn, Admit(t) \/ Claim(t) PROVE Goal
  BY <1>1, <1>5 DEF Admit, Claim, NoCall
<1>6. CASE Capture
  <2>1. request.pc = "none"
    BY <1>6 DEF Capture, TranscriptInv, TypeInv, RequestOf
  <2> QED
    BY <1>1, <1>6, <2>1 DEF Capture, Goto
<1>7. CASE WritePartial \/ CompletePartial \/ MarkStreaming \/ OfferStart
  BY <1>1, <1>2, <1>7 DEF WritePartial, CompletePartial, MarkStreaming, OfferStart, Goto
<1>8. CASE LoadForTurn
  BY <1>1, <1>8 DEF LoadForTurn
<1>9. CASE SaveOverlay \/ SaveQuestion
  BY <1>1, <1>2, <1>9 DEF SaveOverlay, SaveQuestion, Saved
<1>10. ASSUME NEW kind \in Response, OfferResponse(kind) \/ KeepResponse(kind) PROVE Goal
  BY <1>1, <1>2, <1>10 DEF OfferResponse, KeepResponse
<1>11. CASE KeepNothing \/ NextRound
  BY <1>1, <1>2, <1>11 DEF KeepNothing, NextRound
<1>12. ASSUME NEW outcome, End(outcome) PROVE Goal
  BY <1>12 DEF End, NoCall
<1>13. CASE Answered \/ ToolLoopLimit \/ AttemptGivesUp \/ Reconcile \/ Exhaust
  BY <1>12, <1>13 DEF Answered, ToolLoopLimit, AttemptGivesUp, Reconcile, Exhaust
<1>14. CASE AttemptFails
  BY <1>1, <1>14 DEF AttemptFails, NoCall
<1>15. CASE IsolateLost
  BY <1>1, <1>15 DEF IsolateLost, NoCall, NoRequest
<1>16. CASE Attempt
  BY <1>1, <1>16 DEF Attempt, NoCall
<1> QED
  BY <1>3, <1>4, <1>5, <1>6, <1>7, <1>8, <1>9, <1>10, <1>11, <1>13, <1>14, <1>15, <1>16 DEF Next

\* One turn is started, the active one, and those before it are over.
LEMMA OneTurnStep ==
    ASSUME TranscriptInv, Next
    PROVE  OneTurn'
<1> DEFINE Goal == /\ \A t \in Turn : turns'[t].status = "started" <=> t = active'
                   /\ \A t \in Turn : Begun(t)' => \A u \in 1..(t - 1) : Over(u)'
<1>1. /\ \A t \in Turn : turns[t].status = "started" <=> t = active
      /\ \A t \in Turn : Begun(t) => \A u \in 1..(t - 1) : Over(u)
      /\ active \in {None} \cup Turn
  BY DEF TranscriptInv, TypeInv, OneTurn
<1>2. \A t \in Turn : 1..(t - 1) \subseteq Turn
  BY TranscriptAssumption
<1>3. ASSUME SameStatus PROVE Goal
  BY <1>1, <1>2, <1>3 DEF SameStatus, Begun, Over
<1>4. ASSUME NEW x \in Turn, Admit(x) PROVE Goal
  <2>1. turns[x].status = "absent" /\ active' = active
    BY <1>4 DEF Admit
  <2>2. turns'[x].status = "queued" /\ \A u \in Turn : u # x => turns'[u] = turns[u]
    BY <1>4, AdmitTurns
  <2> QED
    BY <1>1, <1>2, <2>1, <2>2 DEF Begun, Over
<1>5. ASSUME NEW x \in Turn, Claim(x) PROVE Goal
  <2>1. turns'[x].status = "started" /\ \A u \in Turn : u # x => turns'[u] = turns[u]
    BY <1>5, ClaimTurns
  <2>2. active' = x /\ (active = x \/ (active = None /\ First(x)))
    BY <1>5 DEF Claim
  <2>3. \A u \in 1..(x - 1) : Over(u)
    <3>1. CASE active = x
      BY <1>1, <3>1 DEF Begun
    <3>2. CASE First(x)
      BY <3>2 DEF First, Over
    <3> QED
      BY <2>2, <3>1, <3>2
  <2>4. ~Over(x)
    BY <1>1, <2>2 DEF First, Over
  <2>5. \A t \in Turn : turns'[t].status = "started" <=> t = active'
    BY <1>1, <2>1, <2>2
  <2>6. \A u \in Turn : u # x => (Begun(u)' = Begun(u)) /\ (Over(u)' = Over(u))
    BY <2>1 DEF Begun, Over
  <2>7. ASSUME NEW t \in Turn, Begun(t)', NEW u \in 1..(t - 1) PROVE Over(u)'
    <3>1. u \in Turn /\ u # t /\ u < t
      BY <1>2, <2>7
    <3>2. Over(u)
      <4>1. CASE t = x
        BY <2>3, <2>7, <4>1
      <4>2. CASE t # x
        BY <1>1, <2>6, <2>7, <4>2
      <4> QED
        BY <4>1, <4>2
    <3> QED
      BY <2>4, <2>6, <3>1, <3>2
  <2> QED
    BY <2>5, <2>7
<1>6. ASSUME active \in Turn, NEW outcome \in Ended, End(outcome) PROVE Goal
  <2>1. turns'[active].status = outcome /\ \A t \in Turn : t # active => turns'[t] = turns[t]
    BY <1>6, EndTurns
  <2>2. active' = None
    BY <1>6 DEF End
  <2>3. \A t \in Turn : turns'[t].status = "started" <=> t = active'
    BY <1>1, <2>1, <2>2
  <2>4. \A u \in Turn : /\ Over(u) => Over(u)'
                        /\ Begun(u)' => Begun(u)
    BY <1>1, <2>1 DEF Begun, Over
  <2> QED
    BY <1>1, <1>2, <2>3, <2>4
<1>7. Goal
  BY <1>3, <1>4, <1>5, <1>6, StatusSteps
<1> QED
  BY <1>7, OneTurnControl DEF OneTurn

-----------------------------------------------------------------------------
(* Copies *)

\* With the lock, an attempt has the record as it is, and no request is pending.
LEMMA HoldingFacts ==
    ASSUME TranscriptInv, call.pc \in Holding
    PROVE  /\ active \in Turn /\ lock = "turn" /\ request.pc = "none"
           /\ call.copy = session
  BY DEF TranscriptInv, TypeInv, OneTurn, Copies, Holding

\* While a request is pending, no attempt is further than its capture.
LEMMA RequestFacts ==
    ASSUME TranscriptInv, request.pc # "none"
    PROVE  call.pc \in {"none", "capture"}
  BY DEF TranscriptInv, OneTurn

\* Every copy is of the record as it is, after a step as before it.
LEMMA CopiesStep ==
    ASSUME TranscriptInv, Next
    PROVE  Copies'
<1> DEFINE Attempted ==
             /\ call'.pc \in {"partial", "written", "mark", "load"} =>
                   turns'[active'].snapshot.context = session'.context
             /\ call'.pc \in {"mark", "load"} /\ call'.mode = "fresh" =>
                   turns'[active'].snapshot = Captured'
             /\ call'.pc \in {"partial", "written"} => call'.mode = "continue"
             /\ call'.pc \in {"compact", "question"} => ~HasQuestion(session)'
             /\ call'.pc = "compact" => PlanEnd(session') # 0
             /\ lock' = "turn" => call'.copy = session'
           Requested ==
             request'.pc = "loaded" =>
                   /\ request'.copy = session'
                   /\ request'.op = "compact" => PlanEnd(session') # 0
           Goal == Attempted /\ Requested
<1>1. Copies
  BY DEF TranscriptInv
<1>2. /\ call \in CallOf(call.copy) /\ request \in RequestOf(request.copy)
      /\ lock = "turn" <=> call.pc \in Holding
      /\ lock = "request" <=> request.pc = "loaded"
      /\ call.pc # "none" => active # None
      /\ active # None /\ call.pc # "capture" => request.pc = "none"
      /\ active \in {None} \cup Turn
  BY DEF TranscriptInv, TypeInv, OneTurn
<1> USE DEF CallOf, RequestOf, Holding
<1>3. ASSUME UNCHANGED <<session, call, active>>, lock' = "turn" => lock = "turn",
             call.pc # "none" => turns'[active] = turns[active]
      PROVE  Attempted
  BY <1>1, <1>2, <1>3 DEF Copies, Captured, HasQuestion
<1>4. ASSUME NEW op \in {"update", "compact"}, Check(op) PROVE Goal
  <2>1. Attempted
    BY <1>3, <1>4 DEF Check
  <2>2. request'.pc = "checked"
    BY <1>4 DEF Check, NoRequest
  <2> QED
    BY <2>1, <2>2
<1>5. ASSUME LoadForRequest PROVE Goal
  <2>1. Attempted
    BY <1>2, <1>3, <1>5 DEF LoadForRequest
  <2>2. Requested
    <3>1. CASE request.op = "compact" /\ PlanEnd(session) = 0
      BY <1>5, <3>1 DEF LoadForRequest, NoRequest
    <3>2. CASE ~(request.op = "compact" /\ PlanEnd(session) = 0)
      BY <1>2, <1>5, <3>2 DEF LoadForRequest
    <3> QED
      BY <3>1, <3>2
  <2> QED
    BY <2>1, <2>2
<1>6. ASSUME SaveRequest PROVE Goal
  <2>1. call' = call /\ call.pc \in {"none", "capture"} /\ lock' = "free" /\ request' = NoRequest
    BY <1>6, RequestFacts DEF SaveRequest
  <2> QED
    BY <2>1 DEF NoRequest
<1>7. ASSUME RequestFails PROVE Goal
  <2>1. Attempted
    BY <1>2, <1>3, <1>7 DEF RequestFails
  <2> QED
    BY <1>7, <2>1 DEF RequestFails, NoRequest
<1>8. ASSUME NEW t \in Turn, Admit(t) PROVE Goal
  <2>1. call.pc # "none" => turns'[active] = turns[active]
    <3>1. turns[t].status = "absent"
      BY <1>8 DEF Admit
    <3> QED
      BY <1>8, <3>1, ActiveTurn, AdmitTurns
  <2>2. Attempted
    BY <1>3, <1>8, <2>1 DEF Admit
  <2> QED
    BY <1>1, <1>8, <2>2 DEF Admit, Copies
<1>9. ASSUME NEW t \in Turn, Claim(t) PROVE Goal
  <2>1. call'.pc = "capture" /\ lock' # "turn" /\ request' = request /\ session' = session
    BY <1>2, <1>9 DEF Claim, NoCall
  <2> QED
    BY <1>1, <2>1 DEF Copies
<1>10. ASSUME Capture PROVE Goal
  <2>1. turns'[active'].snapshot = Captured
    <3>1. active \in Turn /\ turns[active] \in TurnRecord
      BY <1>10, ActiveTurn DEF Capture
    <3>2. turns' = [turns EXCEPT ![active] =
                        [turns[active] EXCEPT !.checkpoint = "preparing", !.snapshot = Captured]]
          /\ active' = active
      BY <1>10 DEF Capture, Record
    <3>3. turns \in [Turn -> TurnRecord]
      BY DEF TranscriptInv, TypeInv
    <3>4. turns'[active] = [turns[active] EXCEPT !.checkpoint = "preparing", !.snapshot = Captured]
      BY <3>1, <3>2, <3>3
    <3> QED
      BY <3>1, <3>2, <3>4 DEF TurnRecord
  <2>2. Captured' = Captured /\ session' = session /\ Captured.context = session.context
    BY <1>10 DEF Capture, Captured
  <2>3. /\ call' = [call EXCEPT !.pc = IF call.mode = "continue" THEN "partial" ELSE "mark"]
        /\ lock' = "free" /\ request' = request /\ request.pc # "loaded"
    BY <1>2, <1>10 DEF Capture, Goto
  <2>4. call'.mode = call.mode /\ call'.pc = IF call.mode = "continue" THEN "partial" ELSE "mark"
    BY <1>2, <2>3
  <2> QED
    BY <1>2, <2>1, <2>2, <2>3, <2>4
<1>11. ASSUME WritePartial PROVE Goal
  <2>1. call.pc = "partial" /\ call.mode = "continue" /\ lock # "turn"
        /\ turns[active].snapshot.context = session.context /\ request.pc = "none"
    BY <1>1, <1>2, <1>11 DEF WritePartial, Copies
  <2>2. call' = [call EXCEPT !.pc = "written"] /\ UNCHANGED <<lock, turns, active, request>>
    BY <1>11 DEF WritePartial, Goto
  <2>3. session'.context = session.context
    BY <1>11, SessionType DEF WritePartial, TranscriptInv
  <2>4. call'.pc = "written" /\ call'.mode = "continue"
    BY <1>2, <2>1, <2>2
  <2> QED
    BY <2>1, <2>2, <2>3, <2>4
<1>12. ASSUME CompletePartial PROVE Goal
  <2>1. call.pc = "written" /\ call.mode = "continue" /\ lock # "turn"
        /\ turns[active].snapshot.context = session.context /\ request.pc = "none"
    BY <1>1, <1>2, <1>12 DEF CompletePartial, Copies
  <2>2. call' = [call EXCEPT !.pc = "mark"] /\ UNCHANGED <<session, lock, active, request>>
    BY <1>12 DEF CompletePartial, Goto
  <2>3. turns'[active].snapshot = turns[active].snapshot
    <3>1. active \in Turn /\ turns[active] \in TurnRecord /\ turns \in [Turn -> TurnRecord]
      BY <1>12, ActiveTurn DEF CompletePartial, TranscriptInv, TypeInv
    <3>2. turns'[active] =
              [turns[active] EXCEPT !.checkpoint = "partial-persisted", !.partial = TRUE]
      BY <1>12, <3>1 DEF CompletePartial, Record
    <3> QED
      BY <3>1, <3>2 DEF TurnRecord
  <2>4. call'.pc = "mark" /\ call'.mode = "continue"
    BY <1>2, <2>1, <2>2
  <2> QED
    BY <2>1, <2>2, <2>3, <2>4
<1>13. ASSUME MarkStreaming PROVE Goal
  <2>1. call.pc = "mark" /\ lock # "turn" /\ request.pc = "none"
        /\ turns[active].snapshot.context = session.context
        /\ (call.mode = "fresh" => turns[active].snapshot = Captured)
    BY <1>1, <1>2, <1>13 DEF MarkStreaming, Copies
  <2>2. call' = [call EXCEPT !.pc = "load"] /\ UNCHANGED <<session, lock, active, request>>
        /\ Captured' = Captured
    BY <1>13 DEF MarkStreaming, Goto, Captured
  <2>3. turns'[active].snapshot = turns[active].snapshot
    <3>1. active \in Turn /\ turns[active] \in TurnRecord /\ turns \in [Turn -> TurnRecord]
      BY <1>13, ActiveTurn DEF MarkStreaming, TranscriptInv, TypeInv
    <3>2. turns'[active] = [turns[active] EXCEPT !.checkpoint = "streaming"]
      BY <1>13, <3>1 DEF MarkStreaming, Record
    <3> QED
      BY <3>1, <3>2 DEF TurnRecord
  <2>4. call'.pc = "load" /\ call'.mode = call.mode
    BY <1>2, <2>2
  <2> QED
    BY <2>1, <2>2, <2>3, <2>4
<1>14. ASSUME LoadForTurn PROVE Goal
  <2>1. UNCHANGED <<session, turns, active, request>> /\ request.pc = "none"
    BY <1>2, <1>14 DEF LoadForTurn
  <2>2. /\ call'.copy = session /\ call'.pc \in Holding
        /\ call'.pc \in {"compact", "question"} => ~HasQuestion(session)
        /\ call'.pc = "compact" => PlanEnd(session) # 0
    BY <1>2, <1>14, LoadsSession
  <2> QED
    BY <2>1, <2>2 DEF HasQuestion
<1>15. ASSUME SaveOverlay PROVE Goal
  <2>1. request.pc = "none" /\ request' = request /\ active' = active /\ ~HasQuestion(session)
    BY <1>1, <1>15, HoldingFacts DEF SaveOverlay, Copies
  <2>2. call' = [call EXCEPT !.pc = "question", !.copy = session']
    BY <1>15 DEF SaveOverlay, Saved
  <2>3. MessageIds(session') = MessageIds(session)
    BY <1>15, OverlaySaves, SummaryAdds DEF MessageIds
  <2>4. call'.pc = "question" /\ call'.copy = session'
    BY <1>2, <2>2
  <2> QED
    BY <2>1, <2>3, <2>4 DEF HasQuestion
<1>16. ASSUME SaveQuestion PROVE Goal
  <2>1. request.pc = "none" /\ request' = request
    BY <1>16, HoldingFacts DEF SaveQuestion
  <2>2. call' = [call EXCEPT !.pc = "start", !.copy = session']
    BY <1>16 DEF SaveQuestion, Saved
  <2>3. call'.pc = "start" /\ call'.copy = session'
    BY <1>2, <2>2
  <2> QED
    BY <2>1, <2>3
<1>17. ASSUME OfferStart \/ NextRound \/ \E kind \in Response : OfferResponse(kind) PROVE Goal
  <2>1. call.pc \in Holding
    BY <1>17 DEF OfferStart, NextRound, OfferResponse
  <2>2. request.pc = "none" /\ call.copy = session
    BY <2>1, HoldingFacts
  <2>3. request' = request /\ session' = session
    BY <1>17 DEF OfferStart, NextRound, OfferResponse
  <2>4. call'.pc = "respond" /\ call'.copy = call.copy
    BY <1>2, <1>17 DEF OfferStart, NextRound, OfferResponse, Goto
  <2> QED
    BY <2>2, <2>3, <2>4
<1>18. ASSUME KeepNothing \/ \E kind \in Response : KeepResponse(kind) PROVE Goal
  <2>1. call.pc = "respond" /\ request' = request
    BY <1>18 DEF KeepNothing, KeepResponse
  <2>2. request.pc = "none"
    BY <2>1, HoldingFacts
  <2>3. call'.pc = "respond" /\ call'.copy = session'
    BY <1>2, <1>18 DEF KeepNothing, KeepResponse
  <2> QED
    BY <2>1, <2>2, <2>3
<1>19. ASSUME NEW outcome, End(outcome) PROVE Goal
  <2>1. call'.pc = "none" /\ lock' # "turn" /\ request' = request /\ session' = session
    BY <1>19 DEF End, Leave, NoCall
  <2> QED
    BY <1>1, <2>1 DEF Copies
<1>20. CASE Answered \/ ToolLoopLimit \/ AttemptGivesUp \/ Reconcile \/ Exhaust
  <2>1. \E outcome : End(outcome)
    BY <1>20 DEF Answered, ToolLoopLimit, AttemptGivesUp, Reconcile, Exhaust
  <2>2. Goal
    BY <1>19, <2>1
  <2> QED
    BY <2>2 DEF Copies
<1>21. ASSUME AttemptFails PROVE Goal
  <2>1. call'.pc = "none" /\ lock' # "turn" /\ request' = request /\ session' = session
    BY <1>21 DEF AttemptFails, Leave, NoCall
  <2> QED
    BY <1>1, <2>1 DEF Copies
<1>22. ASSUME IsolateLost PROVE Goal
  BY <1>22 DEF IsolateLost, NoCall, NoRequest
<1>23. ASSUME Attempt PROVE Goal
  <2>1. call'.pc = "capture" /\ lock' # "turn" /\ request' = request /\ session' = session
    BY <1>2, <1>23 DEF Attempt, NoCall
  <2> QED
    BY <1>1, <2>1 DEF Copies
<1>24. ASSUME Goal PROVE Copies'
  BY <1>24 DEF Copies
<1> HIDE DEF Goal
<1> QED
  BY <1>4, <1>5, <1>6, <1>7, <1>8, <1>9, <1>10, <1>11, <1>12, <1>13, <1>14, <1>15, <1>16, <1>17,
     <1>18, <1>20, <1>21, <1>22, <1>23, <1>24 DEF Next

-----------------------------------------------------------------------------
(* Questions *)

\* A turn whose stream was opened has asked, and only such a turn is continued.
Asked ==
    \A t \in Turn :
        /\ turns[t].kind = "partial-continuation" => turns[t].opened
        /\ turns[t].opened => UserId(t) \in MessageIds(session)

\* A record of the active turn that keeps this.
LEMMA RecordAsked ==
    ASSUME TranscriptInv, active \in Turn, NEW changes, turns' = [turns EXCEPT ![active] = changes],
           changes.kind = "partial-continuation" => changes.opened,
           changes.opened => UserId(active) \in MessageIds(session),
           MessageIds(session) \subseteq MessageIds(session')
    PROVE  Asked' /\ turns'[active] = changes
<1>1. turns \in [Turn -> TurnRecord]
  BY DEF TranscriptInv, TypeInv
<1>2. \A t \in Turn : turns'[t] = IF t = active THEN changes ELSE turns[t]
  BY <1>1
<1>3. Asked
  BY DEF TranscriptInv, QuestionFirst, Asked
<1>4. ASSUME NEW t \in Turn
      PROVE  /\ turns'[t].kind = "partial-continuation" => turns'[t].opened
             /\ turns'[t].opened => UserId(t) \in MessageIds(session')
  BY <1>2, <1>3 DEF Asked
<1> QED
  BY <1>2, <1>4 DEF Asked

\* Every step keeps it.
LEMMA AskedStep ==
    ASSUME TranscriptInv, Next
    PROVE  Asked' /\ (active' = active /\ active # None => (turns[active].opened => turns'[active].opened))
<1> DEFINE r == turns[active]
           Goal == Asked' /\ (active' = active /\ active # None => (r.opened => turns'[active].opened))
<1>1. Asked /\ MessageIds(session) \subseteq MessageIds(session')
  BY IdsStay DEF TranscriptInv, QuestionFirst, Asked
<1>2. call.pc # "none" \/ active # None =>
          active \in Turn /\ r \in TurnRecord /\ (r.kind = "partial-continuation" => r.opened)
          /\ (r.opened => UserId(active) \in MessageIds(session))
  BY <1>1, ActiveTurn DEF Asked
<1>3. ASSUME turns' = turns PROVE Goal
  BY <1>1, <1>3 DEF Asked
<1>4. ASSUME NEW op \in {"update", "compact"}, Check(op) PROVE Goal
  BY <1>3, <1>4 DEF Check
<1>5. ASSUME LoadForRequest \/ SaveRequest \/ RequestFails \/ WritePartial \/ LoadForTurn
             \/ SaveOverlay \/ SaveQuestion \/ KeepNothing \/ NextRound \/ Attempt
      PROVE  Goal
  BY <1>3, <1>5 DEF LoadForRequest, SaveRequest, RequestFails, WritePartial, LoadForTurn, SaveOverlay,
              SaveQuestion, KeepNothing, NextRound, Attempt
<1>6. ASSUME NEW kind \in Response, KeepResponse(kind) PROVE Goal
  BY <1>3, <1>6 DEF KeepResponse
<1>7. ASSUME NEW t \in Turn, Admit(t) PROVE Goal
  <2>1. /\ turns'[t].kind = "none" /\ ~turns'[t].opened
        /\ \A u \in Turn : u # t => turns'[u] = turns[u]
        /\ turns[t].status = "absent"
    BY <1>7, AdmitTurns DEF Admit
  <2>2. active # None => active # t /\ active \in Turn
    BY <2>1, ActiveTurn
  <2> QED
    BY <1>1, <2>1, <2>2 DEF Asked
<1>8. ASSUME NEW t \in Turn, Claim(t) PROVE Goal
  <2>1. /\ turns'[t].kind = turns[t].kind /\ turns'[t].opened = turns[t].opened
        /\ \A u \in Turn : u # t => turns'[u] = turns[u]
    BY <1>8, ClaimTurns
  <2>2. active # None => active \in Turn
    BY ActiveTurn
  <2> QED
    BY <1>1, <2>1, <2>2 DEF Asked
<1>9. ASSUME NEW outcome \in Ended, End(outcome), call.pc # "none" \/ active # None PROVE Goal
  <2>1. /\ turns'[active].kind = "none" /\ turns'[active].opened = r.opened
        /\ \A u \in Turn : u # active => turns'[u] = turns[u]
    BY <1>2, <1>9, EndTurns
  <2> QED
    BY <1>1, <2>1 DEF Asked
<1>10. ASSUME Answered \/ ToolLoopLimit \/ AttemptGivesUp \/ Reconcile \/ Exhaust PROVE Goal
  <2>1. call.pc # "none" \/ active # None
    BY <1>10 DEF Answered, ToolLoopLimit, AttemptGivesUp, Reconcile, Exhaust
  <2>2. PICK outcome \in Ended : End(outcome)
    BY <1>10 DEF Answered, ToolLoopLimit, AttemptGivesUp, Reconcile, Exhaust
  <2> QED
    BY <1>9, <2>1, <2>2
<1>11. ASSUME Capture PROVE Goal
  <2> DEFINE changes == [r EXCEPT !.checkpoint = "preparing", !.snapshot = Captured]
  <2>1. active \in Turn /\ r \in TurnRecord
    BY <1>2, <1>11 DEF Capture
  <2>2. changes.kind = r.kind /\ changes.opened = r.opened
    BY <2>1 DEF TurnRecord
  <2>3. turns' = [turns EXCEPT ![active] = changes]
    BY <1>11 DEF Capture, Record
  <2>5. /\ changes.kind = "partial-continuation" => changes.opened
        /\ changes.opened => UserId(active) \in MessageIds(session)
    BY <1>2, <2>1, <2>2
  <2> HIDE DEF changes
  <2>6. Asked' /\ turns'[active] = changes
    BY <1>1, <2>1, <2>3, <2>5, RecordAsked
  <2> QED
    BY <2>2, <2>6
<1>12. ASSUME CompletePartial PROVE Goal
  <2> DEFINE changes == [r EXCEPT !.checkpoint = "partial-persisted", !.partial = TRUE]
  <2>1. active \in Turn /\ r \in TurnRecord
    BY <1>2, <1>12 DEF CompletePartial
  <2>2. changes.kind = r.kind /\ changes.opened = r.opened
    BY <2>1 DEF TurnRecord
  <2>3. turns' = [turns EXCEPT ![active] = changes]
    BY <1>12 DEF CompletePartial, Record
  <2>5. /\ changes.kind = "partial-continuation" => changes.opened
        /\ changes.opened => UserId(active) \in MessageIds(session)
    BY <1>2, <2>1, <2>2
  <2> HIDE DEF changes
  <2>6. Asked' /\ turns'[active] = changes
    BY <1>1, <2>1, <2>3, <2>5, RecordAsked
  <2> QED
    BY <2>2, <2>6
<1>13. ASSUME MarkStreaming PROVE Goal
  <2> DEFINE changes == [r EXCEPT !.checkpoint = "streaming"]
  <2>1. active \in Turn /\ r \in TurnRecord
    BY <1>2, <1>13 DEF MarkStreaming
  <2>2. changes.kind = r.kind /\ changes.opened = r.opened
    BY <2>1 DEF TurnRecord
  <2>3. turns' = [turns EXCEPT ![active] = changes]
    BY <1>13 DEF MarkStreaming, Record
  <2>5. /\ changes.kind = "partial-continuation" => changes.opened
        /\ changes.opened => UserId(active) \in MessageIds(session)
    BY <1>2, <2>1, <2>2
  <2> HIDE DEF changes
  <2>6. Asked' /\ turns'[active] = changes
    BY <1>1, <2>1, <2>3, <2>5, RecordAsked
  <2> QED
    BY <2>2, <2>6
<1>14. ASSUME OfferStart PROVE Goal
  <2> DEFINE changes == [r EXCEPT !.opened = TRUE]
  <2>1. active \in Turn /\ r \in TurnRecord /\ UserId(active) \in MessageIds(session)
    BY <1>2, <1>14 DEF OfferStart, TranscriptInv, QuestionFirst, HasQuestion
  <2>2. changes.opened
    BY <2>1 DEF TurnRecord
  <2>3. turns' = [turns EXCEPT ![active] = changes]
    BY <1>14 DEF OfferStart, Record
  <2>5. /\ changes.kind = "partial-continuation" => changes.opened
        /\ changes.opened => UserId(active) \in MessageIds(session)
    BY <1>2, <2>1, <2>2
  <2> HIDE DEF changes
  <2>6. Asked' /\ turns'[active] = changes
    BY <1>1, <2>1, <2>3, <2>5, RecordAsked
  <2> QED
    BY <2>2, <2>6
<1>15. ASSUME NEW kind \in Response, OfferResponse(kind) PROVE Goal
  <2> DEFINE changes == [r EXCEPT !.opened = TRUE, !.tool = @ \/ kind = "tool"]
  <2>1. active \in Turn /\ r \in TurnRecord /\ UserId(active) \in MessageIds(session)
    BY <1>2, <1>15 DEF OfferResponse, TranscriptInv, QuestionFirst, HasQuestion
  <2>2. changes.opened
    BY <2>1 DEF TurnRecord
  <2>3. turns' = [turns EXCEPT ![active] = changes]
    BY <1>15 DEF OfferResponse, Record
  <2>5. /\ changes.kind = "partial-continuation" => changes.opened
        /\ changes.opened => UserId(active) \in MessageIds(session)
    BY <1>2, <2>1, <2>2
  <2> HIDE DEF changes
  <2>6. Asked' /\ turns'[active] = changes
    BY <1>1, <2>1, <2>3, <2>5, RecordAsked
  <2> QED
    BY <2>2, <2>6
<1>16. ASSUME AttemptFails PROVE Goal
  <2> DEFINE changes ==
        [[r EXCEPT !.checkpoint = IF call.mode = "continue" THEN "partial-persisted" ELSE @]
            EXCEPT !.kind = classifyRecovery(r)]
  <2>1. active \in Turn /\ r \in TurnRecord
    BY <1>2, <1>16 DEF AttemptFails
  <2>2. changes.kind = classifyRecovery(r) /\ changes.opened = r.opened
    BY <2>1 DEF TurnRecord
  <2>3. turns' = [turns EXCEPT ![active] = changes]
    BY <1>16 DEF AttemptFails, Record
  <2>4. classifyRecovery(r) = "partial-continuation" => r.opened
    BY DEF classifyRecovery
  <2>5. /\ changes.kind = "partial-continuation" => changes.opened
        /\ changes.opened => UserId(active) \in MessageIds(session)
    BY <1>2, <2>1, <2>2, <2>4
  <2> HIDE DEF changes
  <2>6. Asked' /\ turns'[active] = changes
    BY <1>1, <2>1, <2>3, <2>5, RecordAsked
  <2> QED
    BY <2>2, <2>6
<1>17. ASSUME IsolateLost PROVE Goal
  <2>1. ASSUME NEW t \in Turn
        PROVE  /\ turns'[t].kind = "partial-continuation" => turns'[t].opened
               /\ turns'[t].opened = turns[t].opened
    <3>1. CASE t = active /\ turns[t].kind = "none"
      <4>1. turns'[t] = [turns[t] EXCEPT !.kind = classifyRecovery(turns[t])]
        BY <1>17, <3>1 DEF IsolateLost
      <4>2. turns[t] \in TurnRecord
        BY DEF TranscriptInv, TypeInv
      <4>3. turns'[t].kind = classifyRecovery(turns[t]) /\ turns'[t].opened = turns[t].opened
        BY <4>1, <4>2 DEF TurnRecord
      <4>4. classifyRecovery(turns[t]) = "partial-continuation" => turns[t].opened
        BY DEF classifyRecovery
      <4> QED
        BY <4>3, <4>4
    <3>2. CASE ~(t = active /\ turns[t].kind = "none")
      <4>1. turns'[t] = turns[t]
        BY <1>17, <3>2 DEF IsolateLost
      <4> QED
        BY <1>1, <4>1 DEF Asked
    <3> QED
      BY <3>1, <3>2
  <2> QED
    BY <1>1, <1>2, <2>1 DEF Asked
<1> HIDE DEF Goal
<1>18. Goal
  BY <1>4, <1>5, <1>6, <1>7, <1>8, <1>10, <1>11, <1>12, <1>13, <1>14, <1>15, <1>16, <1>17 DEF Next
<1> QED
  BY <1>18 DEF Goal

\* An attempt that continues does so for a turn that has asked, and so does one that responds.
LEMMA QuestionFirstStep ==
    ASSUME TranscriptInv, Next
    PROVE  QuestionFirst'
<1> DEFINE Goal ==
        /\ call'.pc # "none" /\ call'.mode = "continue" => turns'[active'].opened
        /\ call'.pc \in {"start", "respond"} => HasQuestion(session)'
<1>1. /\ Asked /\ Asked' /\ MessageIds(session) \subseteq MessageIds(session')
      /\ call.pc # "none" /\ call.mode = "continue" => turns[active].opened
      /\ call.pc \in {"start", "respond"} => HasQuestion(session)
      /\ active' = active /\ active # None => (turns[active].opened => turns'[active].opened)
  BY IdsStay, AskedStep DEF TranscriptInv, QuestionFirst, Asked
<1>2. call \in CallOf(call.copy) /\ (call.pc # "none" => active # None)
  BY DEF TranscriptInv, TypeInv, OneTurn
<1> USE DEF CallOf
<1>3. ASSUME active' = active, call'.pc # "none" /\ call'.mode = "continue" => call.pc # "none" /\ call.mode = "continue",
             call'.pc \in {"start", "respond"} => call.pc \in {"start", "respond"}
      PROVE  Goal
  BY <1>1, <1>2, <1>3 DEF HasQuestion
<1>4. ASSUME call'.pc = "none" \/ (call'.pc = "capture" /\ call'.mode = "fresh") PROVE Goal
  BY <1>4
<1>5. ASSUME NEW op \in {"update", "compact"}, Check(op) PROVE Goal
  BY <1>3, <1>5 DEF Check
<1>6. ASSUME LoadForRequest \/ SaveRequest \/ RequestFails PROVE Goal
  BY <1>3, <1>6 DEF LoadForRequest, SaveRequest, RequestFails
<1>7. ASSUME NEW t \in Turn, Admit(t) PROVE Goal
  BY <1>3, <1>7 DEF Admit
<1>8. ASSUME NEW t \in Turn, Claim(t) PROVE Goal
  BY <1>4, <1>8 DEF Claim, NoCall
<1>9. ASSUME Capture \/ WritePartial \/ CompletePartial \/ MarkStreaming PROVE Goal
  <2>1. /\ call'.mode = call.mode /\ call'.pc \in {"partial", "mark", "written", "load"}
        /\ active' = active /\ call.pc # "none"
    BY <1>2, <1>9 DEF Capture, WritePartial, CompletePartial, MarkStreaming, Goto
  <2> QED
    BY <1>3, <2>1
<1>10. ASSUME LoadForTurn PROVE Goal
  <2>1. active' = active /\ call'.mode = call.mode /\ call.pc # "none" /\ session' = session
    BY <1>10, LoadsSession DEF LoadForTurn
  <2>2. call'.pc \in {"start", "respond"} => HasQuestion(session)
    <3>1. CASE call.mode = "continue"
      BY <1>1, <1>2, <2>1, <3>1, ActiveTurn DEF HasQuestion, Asked
    <3>2. CASE call.mode = "fresh"
      BY <1>10, <3>2, LoadsSession
    <3> QED
      BY <1>2, <3>1, <3>2
  <2> QED
    BY <1>1, <1>2, <2>1, <2>2 DEF HasQuestion
<1>11. ASSUME SaveOverlay PROVE Goal
  <2>1. call'.pc = "question" /\ call'.mode = call.mode /\ active' = active /\ call.pc # "none"
    BY <1>2, <1>11 DEF SaveOverlay, Saved
  <2> QED
    BY <1>3, <2>1
<1>12. ASSUME SaveQuestion PROVE Goal
  <2>1. call'.pc = "start" /\ call'.mode = call.mode /\ active' = active /\ call.pc # "none"
    BY <1>2, <1>12 DEF SaveQuestion, Saved
  <2>2. UserId(active) \in MessageIds(session')
    BY <1>12, QuestionWrites DEF Wrote
  <2> QED
    BY <1>1, <1>2, <2>1, <2>2 DEF HasQuestion
<1>13. ASSUME OfferStart \/ KeepNothing \/ NextRound
              \/ \E kind \in Response : OfferResponse(kind) \/ KeepResponse(kind)
       PROVE  Goal
  <2>1. /\ call'.mode = call.mode /\ active' = active /\ call.pc \in {"start", "respond"}
    BY <1>2, <1>13 DEF OfferStart, KeepNothing, NextRound, OfferResponse, KeepResponse, Goto
  <2> QED
    BY <1>3, <2>1
<1>14. ASSUME Answered \/ ToolLoopLimit \/ AttemptGivesUp \/ Reconcile \/ Exhaust PROVE Goal
  BY <1>4, <1>14 DEF Answered, ToolLoopLimit, AttemptGivesUp, Reconcile, Exhaust, End, NoCall
<1>15. ASSUME AttemptFails \/ IsolateLost PROVE Goal
  BY <1>4, <1>15 DEF AttemptFails, IsolateLost, NoCall
<1>16. ASSUME Attempt PROVE Goal
  <2>1. /\ call'.pc = "capture" /\ UNCHANGED <<turns, active>> /\ active # None
        /\ call'.mode = IF turns[active].kind = "partial-continuation" THEN "continue" ELSE "fresh"
    BY <1>16 DEF Attempt, NoCall
  <2> QED
    BY <1>1, <2>1, ActiveTurn DEF Asked
<1> HIDE DEF Goal
<1>17. Goal
  BY <1>5, <1>6, <1>7, <1>8, <1>9, <1>10, <1>11, <1>12, <1>13, <1>14, <1>15, <1>16 DEF Next
<1> QED
  BY <1>1, <1>17 DEF Goal, QuestionFirst, Asked

-----------------------------------------------------------------------------
(* Messages *)

\* A message's turn is one of the turns.
LEMMA MessageTurn ==
    ASSUME TypeInv, NEW i \in DOMAIN session.messages
    PROVE  session.messages[i].turn \in Turn
<1>1. session.messages[i] \in Message
  BY SessionType
<1> QED
  BY <1>1 DEF Message

\* Steps that do not write a message leave the transcript.
LEMMA SameMessages ==
    ASSUME TranscriptInv, Kept \/ Updated \/ Summarised
    PROVE  session'.messages = session.messages
<1>1. CASE Updated
  BY <1>1, SessionType DEF Updated, TranscriptInv
<1> QED
  BY <1>1, SummaryAdds DEF Kept

\* A request is made while no turn is active.
LEMMA RequestBegins ==
    ASSUME TranscriptInv, Next, request.pc = "none", request'.pc # "none"
    PROVE  active = None
<1>1. CASE \E op \in {"update", "compact"} : Check(op)
  BY <1>1 DEF Check
<1>2. CASE LoadForRequest \/ SaveRequest \/ RequestFails \/ IsolateLost
  BY <1>2 DEF LoadForRequest, SaveRequest, RequestFails, IsolateLost, NoRequest
<1>3. ASSUME NEW t \in Turn, Admit(t) \/ Claim(t) PROVE request' = request
  BY <1>3 DEF Admit, Claim
<1>4. CASE Capture \/ WritePartial \/ CompletePartial \/ MarkStreaming \/ LoadForTurn
           \/ SaveOverlay \/ SaveQuestion \/ OfferStart \/ KeepNothing \/ NextRound
  BY <1>4 DEF Capture, WritePartial, CompletePartial, MarkStreaming, LoadForTurn, SaveOverlay,
              SaveQuestion, OfferStart, KeepNothing, NextRound
<1>5. ASSUME NEW kind \in Response, OfferResponse(kind) \/ KeepResponse(kind)
      PROVE  request' = request
  BY <1>5 DEF OfferResponse, KeepResponse
<1>6. CASE Answered \/ ToolLoopLimit \/ AttemptGivesUp \/ Reconcile \/ Exhaust
  BY <1>6 DEF Answered, ToolLoopLimit, AttemptGivesUp, Reconcile, Exhaust, End
<1>7. CASE AttemptFails \/ Attempt
  BY <1>7 DEF AttemptFails, Attempt
<1> QED
  BY <1>1, <1>2, <1>3, <1>4, <1>5, <1>6, <1>7 DEF Next

\* The messages of the transcript are of turns that were claimed, and asked.
LEMMA WrittenStep ==
    ASSUME TranscriptInv, Next
    PROVE  Written'
<1> DEFINE Goal(m) == /\ BegunNext(m.turn)
                      /\ request'.pc # "none" => OverNext(m.turn)
                      /\ UserId(m.turn) \in MessageIds(session')
<1>1. MessageIds(session) \subseteq MessageIds(session')
  BY IdsStay
<1>2. ASSUME NEW i \in DOMAIN session.messages
      PROVE  Goal(session.messages[i])
  <2> DEFINE t == session.messages[i].turn
  <2>1. t \in Turn /\ Begun(t) /\ UserId(t) \in MessageIds(session)
        /\ (request.pc # "none" => Over(t))
    BY MessageTurn DEF TranscriptInv, Written
  <2>2. BegunNext(t) /\ (Over(t) => OverNext(t))
    BY <2>1, TurnsAdvance
  <2>3. ASSUME request'.pc # "none" PROVE Over(t)
    <3>1. CASE request.pc # "none"
      BY <2>1, <3>1
    <3>2. CASE request.pc = "none"
      <4>1. active = None
        BY <2>3, <3>2, RequestBegins
      <4>2. turns[t].status # "started"
        BY <2>1, <4>1 DEF TranscriptInv, OneTurn
      <4> QED
        BY <2>1, <4>2 DEF Begun, Over
    <3> QED
      BY <3>1, <3>2
  <2> QED
    BY <1>1, <2>1, <2>2, <2>3
<1>3. ASSUME Wrote, NEW i \in DOMAIN session'.messages
      PROVE  Goal(session'.messages[i])
  <2>1. CASE i \in DOMAIN session.messages
    <3>1. session'.messages[i].turn = session.messages[i].turn
      BY <1>3, <2>1 DEF Wrote, Extends
    <3> QED
      BY <1>2, <2>1, <3>1
  <2>2. CASE i \notin DOMAIN session.messages
    <3>1. session'.messages[i].turn = active /\ request'.pc = "none" /\ turns' = turns
          /\ active \in Turn /\ UserId(active) \in MessageIds(session')
      BY <1>3, <2>2 DEF Wrote, Extends
    <3>2. turns[active].status = "started"
      BY <3>1, ActiveTurn
    <3> QED
      BY <3>1, <3>2 DEF BegunNext
  <2> QED
    BY <2>1, <2>2
<1>4. ASSUME Kept \/ Updated \/ Summarised, NEW i \in DOMAIN session'.messages
      PROVE  Goal(session'.messages[i])
  BY <1>2, <1>4, SameMessages
<1>5. \A i \in DOMAIN session'.messages : Goal(session'.messages[i])
  BY <1>3, <1>4, SessionSteps
<1> QED
  BY <1>5 DEF Written, Begun, Over, BegunNext, OverNext

\* No message is of a turn behind the active one.
LEMMA NoneBehind ==
    ASSUME TranscriptInv, active \in Turn, NEW t \in Turn, Begun(t)
    PROVE  t <= active
<1>1. turns[active].status = "started"
  BY ActiveTurn
<1>2. ASSUME active < t PROVE FALSE
  <2>1. active \in 1..(t - 1)
    BY <1>2, TranscriptAssumption
  <2>2. Over(active)
    BY <2>1 DEF TranscriptInv, OneTurn
  <2> QED
    BY <1>1, <2>2 DEF Over
<1> QED
  BY <1>2, TranscriptAssumption

\* Messages are named for their turns, a later one of an id is without content, and they
\* are in the order of their turns.
LEMMA TranscriptStep ==
    ASSUME TranscriptInv, Next
    PROVE  Named(session'.messages) /\ OnlyLaterBlank(session'.messages) /\ TurnsInOrder'
<1>1. CASE Kept \/ Updated \/ Summarised
  BY <1>1, SameMessages DEF TranscriptInv, TurnsInOrder
<1>2. CASE Wrote
  <2> DEFINE m == session.messages
             n == session'.messages
  <2>1. /\ m \in Seq(Message) /\ n \in Seq(Message') /\ Extends(m, n, active)
        /\ active \in Turn
    BY <1>2, SessionType DEF Wrote, TranscriptInv
  <2>2. /\ DOMAIN m = 1..Len(m) /\ DOMAIN n = 1..Len(n)
        /\ Len(m) \in Nat /\ Len(n) \in Nat
    BY <2>1, LenProperties
  <2>3. \A i \in DOMAIN m : m[i].turn \in Turn /\ m[i].turn <= active
    BY <2>1, MessageTurn, NoneBehind DEF TranscriptInv, Written
  <2>4. \A i, j \in DOMAIN m : i < j => m[i].turn <= m[j].turn
    BY DEF TranscriptInv, TurnsInOrder
  <2>5. ASSUME NEW i \in DOMAIN n, NEW j \in DOMAIN n, i < j
        PROVE  n[i].turn <= n[j].turn
    <3>1. CASE j \in DOMAIN m
      <4>1. i \in DOMAIN m
        BY <2>2, <2>5, <3>1
      <4> QED
        BY <2>1, <2>4, <2>5, <3>1, <4>1 DEF Extends
    <3>2. CASE j \notin DOMAIN m
      <4>1. n[j].turn = active
        BY <2>1, <3>2 DEF Extends
      <4>2. n[i].turn <= active
        <5>1. CASE i \in DOMAIN m
          BY <2>1, <2>3, <5>1 DEF Extends
        <5>2. CASE i \notin DOMAIN m
          <6>1. n[i].turn = active
            BY <2>1, <5>2 DEF Extends
          <6> QED
            BY <2>1, <6>1, TranscriptAssumption
        <5> QED
          BY <5>1, <5>2
      <4> QED
        BY <4>1, <4>2
    <3> QED
      BY <3>1, <3>2
  <2> QED
    BY <1>2, <2>5 DEF Wrote, TurnsInOrder
<1> QED
  BY <1>1, <1>2, SessionSteps

-----------------------------------------------------------------------------
(* Overlays *)

\* Every overlay ends at a message.
LEMMA EndsAtMessage ==
    ASSUME TypeInv, NEW k \in DOMAIN session.compactions
    PROVE  /\ Position(session, session.compactions[k]) \in DOMAIN session.messages
           /\ Position(session, session.compactions[k]) # 0
           /\ session.messages[Position(session, session.compactions[k])].id = session.compactions[k]
<1>1. session.compactions[k] \in MessageIds(session) /\ session.messages \in Seq(Message)
  BY SessionType
<1>2. PICK i \in DOMAIN session.messages : session.messages[i].id = session.compactions[k]
  BY <1>1 DEF MessageIds
<1> QED
  BY <1>1, <1>2, PositionFirst

\* The overlays stay behind one another while messages of a turn that is not over
\* are added or rewritten.
LEMMA OverlaysStay ==
    ASSUME TranscriptInv, Next, NEW t, Extends(session.messages, session'.messages, t),
           session'.compactions = session.compactions,
           t \in Turn => ~Over(t)
    PROVE  OverlaysBehind'
<1> DEFINE m == session.messages
           n == session'.messages
           c == session.compactions
           end(k) == Position(session, c[k])
           later(k) == Position(session', c[k])
<1>1. /\ m \in Seq(Message) /\ n \in Seq(Message')
      /\ Len(m) \in Nat /\ Len(n) \in Nat /\ DOMAIN m = 1..Len(m) /\ DOMAIN n = 1..Len(n)
      /\ Len(m) <= Len(n)
  <2>1. m \in Seq(Message)
    BY SessionType DEF TranscriptInv
  <2>2. n \in Seq(Message')
    BY SessionStepsType DEF Stored
  <2> QED
    BY <2>1, <2>2, LenProperties DEF Extends
<1>2. \A i \in DOMAIN m : m[i].turn \in Turn /\ n[i].turn = m[i].turn
                          /\ (Over(m[i].turn) => n[i] = m[i] /\ OverNext(n[i].turn))
  <2> TAKE i \in DOMAIN m
  <2>1. m[i].turn \in Turn /\ n[i].turn = m[i].turn /\ (m[i].turn # t => n[i] = m[i])
    BY MessageTurn DEF TranscriptInv, Extends
  <2>2. Over(m[i].turn) => OverNext(m[i].turn)
    BY <2>1, TurnsAdvance
  <2>3. Over(m[i].turn) => m[i].turn # t
    BY <2>1
  <2> QED
    BY <2>1, <2>2, <2>3
<1>3. ASSUME NEW k \in DOMAIN c
      PROVE  /\ later(k) = end(k) /\ end(k) \in DOMAIN m
             /\ Over(m[end(k)].turn) /\ n[end(k)] = m[end(k)] /\ OverNext(n[end(k)].turn)
  <2>1. end(k) \in DOMAIN m /\ end(k) # 0
    BY EndsAtMessage DEF TranscriptInv
  <2>2. Over(m[end(k)].turn)
    BY DEF TranscriptInv, OverlaysBehind
  <2>3. later(k) = end(k)
    <3>1. session.messages \in Seq(Message) /\ session'.messages \in Seq(Message')
          /\ Position(session, c[k]) # 0
      BY <1>1, <2>1
    <3>2. \A id : Position(session, id) # 0 => Position(session', id) = Position(session, id)
      <4> TAKE id
      <4> HAVE Position(session, id) # 0
      <4> QED
        <5> HIDE DEF m, n
        <5>1. session.messages = m /\ session'.messages = n
          BY DEF m, n
        <5>2. m \in Seq(Message) /\ n \in Seq(Message') /\ Extends(m, n, t)
          BY <3>1 DEF m, n
        <5> QED
          BY <5>1, <5>2, PositionStays
    <3> QED
      BY <3>1, <3>2
  <2> QED
    BY <1>2, <2>1, <2>2, <2>3
<1>4. ASSUME \A i, j \in DOMAIN n : n[i].id = n[j].id /\ OverNext(n[i].turn) => i = j,
             NEW k \in DOMAIN c
      PROVE  /\ later(k) \in 2..(Len(n) - 1)
             /\ SafeCut(n, later(k))
             /\ k > 1 => later(k - 1) < later(k)
  <2>1. \A i, j \in DOMAIN m : m[i].id = m[j].id /\ Over(m[i].turn) => i = j
    <3> TAKE i, j \in DOMAIN m
    <3>1. i \in DOMAIN n /\ j \in DOMAIN n /\ n[i].id = m[i].id /\ n[j].id = m[j].id
      BY <1>1 DEF Extends
    <3> QED
      BY <1>2, <1>4, <3>1
  <2>2. /\ end(k) \in 2..(Len(m) - 1)
        /\ SafeCut(m, end(k))
        /\ k > 1 => end(k - 1) < end(k)
    BY <2>1 DEF TranscriptInv, OverlaysBehind
  <2>3. end(k) + 1 \in DOMAIN m /\ (n[end(k) + 1].role = "tool" => m[end(k) + 1].role = "tool")
    BY <1>1, <2>2 DEF Extends
  <2>4. SafeCut(n, end(k))
    BY <1>3, <2>2, <2>3 DEF SafeCut
  <2>5. k > 1 => later(k - 1) = end(k - 1)
    <3>1. k > 1 => k - 1 \in DOMAIN c
      BY SessionType DEF TranscriptInv
    <3> QED
      BY <1>3, <3>1
  <2> QED
    BY <1>1, <1>3, <2>2, <2>4, <2>5
<1> QED
  BY <1>3, <1>4 DEF OverlaysBehind, Over, OverNext

\* A new overlay ends behind the others.
LEMMA OverlayBehind ==
    ASSUME TranscriptInv, Summarised
    PROVE  OverlaysBehind'
<1> DEFINE m == session.messages
           c == session.compactions
           e == PlanEnd(session)
           end(k) == Position(session, session.compactions[k])
           later(k) == Position(session', session'.compactions[k])
<1>1. /\ session'.messages = m /\ session'.compactions = Append(c, m[e].id)
      /\ m[e].id \in MessageIds(session) /\ turns' = turns
  BY SummaryAdds DEF Summarised
<1>2. /\ m \in Seq(Message) /\ c \in Seq(MessageIds(session))
      /\ Len(m) \in Nat /\ DOMAIN m = 1..Len(m) /\ Len(c) \in Nat /\ DOMAIN c = 1..Len(c)
  BY SessionType DEF TranscriptInv
<1>3. /\ e \in 2..(Len(m) - 1) /\ e \in DOMAIN m /\ e > OverlayEnd(session) /\ SafeCut(m, e)
  BY PlanCut DEF TranscriptInv, Summarised
<1>4. /\ DOMAIN session'.compactions = 1..(Len(c) + 1)
      /\ \A k \in 1..Len(c) : session'.compactions[k] = c[k]
      /\ session'.compactions[Len(c) + 1] = m[e].id
  <2> DEFINE d == Append(c, m[e].id)
  <2>1. d \in Seq(MessageIds(session)) /\ Len(d) = Len(c) + 1
        /\ (\A k \in 1..Len(c) : d[k] = c[k]) /\ d[Len(c) + 1] = m[e].id
    BY <1>1, <1>2, AppendProperties
  <2>2. DOMAIN d = 1..(Len(c) + 1)
    BY <2>1, LenProperties
  <2> QED
    BY <1>1, <2>1, <2>2
<1>5. \A id : Position(session', id) = Position(session, id)
  BY <1>1 DEF Position
<1>6. \A k \in 1..Len(c) : later(k) = end(k)
  BY <1>4, <1>5
<1>7. later(Len(c) + 1) = Position(session, m[e].id)
  BY <1>4, <1>5
<1>8. \A i \in DOMAIN m : Over(m[i].turn)
  BY DEF Summarised
<1>9. \A k \in DOMAIN session'.compactions : later(k) \in DOMAIN m
  <2>1. ASSUME NEW k \in 1..Len(c) PROVE end(k) \in DOMAIN m
    BY <1>2, <2>1, EndsAtMessage DEF TranscriptInv
  <2>2. Position(session, m[e].id) \in DOMAIN m
    <3>1. Position(session, m[e].id) # 0
      BY <1>2, <1>3, PositionFirst
    <3> QED
      BY <1>2, <3>1, PositionFirst
  <2> QED
    BY <1>2, <1>4, <1>6, <1>7, <2>1, <2>2
<1>10. ASSUME \A i, j \in DOMAIN m : m[i].id = m[j].id /\ Over(m[i].turn) => i = j,
              NEW k \in 1..(Len(c) + 1)
       PROVE  /\ later(k) \in 2..(Len(m) - 1)
              /\ SafeCut(m, later(k))
              /\ k > 1 => later(k - 1) < later(k)
  <2>1. CASE k \in 1..Len(c)
    <3>1. /\ end(k) \in 2..(Len(m) - 1)
          /\ SafeCut(m, end(k))
          /\ k > 1 => end(k - 1) < end(k)
      BY <1>2, <1>10, <2>1 DEF TranscriptInv, OverlaysBehind
    <3>2. k > 1 => k - 1 \in 1..Len(c)
      BY <1>2, <2>1
    <3> QED
      BY <1>6, <2>1, <3>1, <3>2
  <2>2. CASE k = Len(c) + 1
    <3>1. later(k) = e
      <4>1. \A j \in DOMAIN m : m[j].id = m[e].id => j = e
        BY <1>3, <1>8, <1>10
      <4> QED
        BY <1>2, <1>3, <1>7, <2>2, <4>1, PositionOnly
    <3>2. ASSUME k > 1 PROVE later(k - 1) < e
      <4>1. k - 1 = Len(c) /\ Len(c) \in 1..Len(c)
        BY <1>2, <2>2, <3>2
      <4>2. later(k - 1) = end(Len(c))
        BY <1>6, <4>1
      <4>3. c # << >> /\ Last(c) = c[Len(c)]
        BY <1>2, <4>1 DEF Last
      <4>4. OverlayEnd(session) = end(Len(c))
        BY <4>3 DEF OverlayEnd
      <4>5. later(k - 1) \in Nat /\ e \in Nat
        BY <1>2, <1>3, <1>4, <1>9, <4>1
      <4> QED
        BY <1>3, <4>2, <4>4, <4>5
    <3> QED
      BY <1>3, <3>1, <3>2
  <2> QED
    BY <1>2, <2>1, <2>2
<1> QED
  BY <1>1, <1>4, <1>8, <1>9, <1>10 DEF OverlaysBehind, Over

\* Every step keeps the overlays behind one another.
LEMMA OverlaysStep ==
    ASSUME TranscriptInv, Next
    PROVE  OverlaysBehind'
<1>1. CASE Kept \/ Updated
  <2>1. session'.messages = session.messages /\ session'.compactions = session.compactions
    BY <1>1, SessionType DEF Kept, Updated, TranscriptInv
  <2>2. Extends(session.messages, session'.messages, None)
    BY <2>1, SessionType, ExtendsItself DEF TranscriptInv
  <2> QED
    BY <2>1, <2>2, OverlaysStay
<1>2. CASE Summarised
  BY <1>2, OverlayBehind
<1>3. CASE Wrote
  <2>1. session'.compactions = session.compactions
        /\ Extends(session.messages, session'.messages, active) /\ active \in Turn
    BY <1>3, SessionType DEF Wrote, TranscriptInv
  <2>2. ~Over(active)
    BY <2>1, ActiveTurn DEF Over
  <2> QED
    BY <2>1, <2>2, OverlaysStay
<1> QED
  BY <1>1, <1>2, <1>3, SessionSteps

-----------------------------------------------------------------------------
(* The inductive invariant *)

\* It holds of a new session.
LEMMA TranscriptInit == Init => TranscriptInv
<1> SUFFICES ASSUME Init PROVE TranscriptInv
  OBVIOUS
<1> USE DEF Init
<1>1. session = NewSession /\ session.messages = << >> /\ session.compactions = << >>
      /\ DOMAIN session.messages = {} /\ DOMAIN session.compactions = {}
  BY DEF NewSession
<1>2. \A t \in Turn : turns[t] = AbsentTurn
  OBVIOUS
<1>3. TypeInv
  <2>1. session \in Stored
    <3>1. << >> \in Seq(Message) /\ << >> \in Seq(MessageIds(session)) /\ 0 \in 0..requests
      OBVIOUS
    <3> QED
      BY <1>1, <3>1 DEF NewSession, Stored
  <2>2. AbsentTurn \in TurnRecord /\ AbsentTurn.snapshot.history = {}
    BY DEF AbsentTurn, TurnRecord, NoSnapshot, Snapshot
  <2>3. turns \in [Turn -> TurnRecord]
    BY <2>2
  <2>4. call \in CallOf(call.copy) /\ request \in RequestOf(request.copy)
    BY DEF CallOf, RequestOf, NoCall, NoRequest
  <2>5. lock = "free" /\ call.pc = "none" /\ request.pc = "none"
    BY DEF NoCall, NoRequest
  <2> QED
    BY <1>2, <2>1, <2>2, <2>3, <2>4, <2>5 DEF TypeInv, Holding
<1>4. OneTurn
  <2>1. \A t \in Turn : turns[t].status = "absent" /\ t # active
    BY <1>2 DEF AbsentTurn
  <2> QED
    BY <2>1 DEF OneTurn, NoCall, Begun
<1>5. Copies
  BY DEF Copies, NoCall, NoRequest
<1>6. QuestionFirst
  BY <1>2 DEF QuestionFirst, NoCall, AbsentTurn
<1>7. Written /\ Named(session.messages) /\ OnlyLaterBlank(session.messages) /\ TurnsInOrder
  BY <1>1 DEF Written, Named, OnlyLaterBlank, TurnsInOrder
<1>8. OverlaysBehind
  BY <1>1 DEF OverlaysBehind
<1> QED
  BY <1>3, <1>4, <1>5, <1>6, <1>7, <1>8 DEF TranscriptInv

\* Every step keeps it, and so does a stutter.
LEMMA TranscriptNext == TranscriptInv /\ [Next]_vars => TranscriptInv'
<1>1. ASSUME TranscriptInv, Next PROVE TranscriptInv'
  BY <1>1, TypeStep, OneTurnStep, CopiesStep, QuestionFirstStep, WrittenStep, TranscriptStep,
     OverlaysStep DEF TranscriptInv
<1>2. ASSUME TranscriptInv, UNCHANGED vars PROVE TranscriptInv'
  <2> USE <1>2 DEF vars
  <2>1. TypeInv' /\ OneTurn'
    BY DEF TranscriptInv, TypeInv, Stored, Message, MessageIds, OneTurn, Begun, Over
  <2>2. Copies' /\ QuestionFirst'
    BY DEF TranscriptInv, Copies, Captured, HasQuestion, QuestionFirst
  <2>3. Written' /\ Named(session'.messages) /\ OnlyLaterBlank(session'.messages) /\ TurnsInOrder'
    BY DEF TranscriptInv, Written, Begun, Over, TurnsInOrder
  <2>4. OverlaysBehind'
    BY DEF TranscriptInv, OverlaysBehind, Over
  <2> QED
    BY <2>1, <2>2, <2>3, <2>4 DEF TranscriptInv
<1> QED
  BY <1>1, <1>2

\* The invariant holds in every state.
THEOREM TranscriptInvariant == Spec => []TranscriptInv
<1>1. Init => TranscriptInv
  BY TranscriptInit
<1>2. TranscriptInv /\ [Next]_vars => TranscriptInv'
  BY TranscriptNext
<1> QED
  BY <1>1, <1>2, PTL DEF Spec

-----------------------------------------------------------------------------
(* What follows *)

\* The record is well typed, the lock is held exactly where an attempt or a request
\* holds it, and what a snapshot names is in the transcript.
THEOREM TypeCorrect == Spec => []TypeOK
<1>1. TranscriptInv => TypeOK
  <2> SUFFICES ASSUME TranscriptInv PROVE TypeOK
    OBVIOUS
  <2>1. \A t \in Turn : turns[t].status \in {"absent", "queued", "started"} \cup Ended
    BY DEF TranscriptInv, TypeInv, TurnRecord
  <2> QED
    BY <2>1 DEF TranscriptInv, TypeInv, Holding, TypeOK
<1> QED
  BY <1>1, TranscriptInvariant, PTL

\* Retried, continued or repeated, a turn has its question and the first message of
\* its answer in the transcript once; a second one was added without content.
THEOREM OneMessageEachHolds == Spec => []OneMessageEach
<1>1. TranscriptInv => OneMessageEach
  BY DEF TranscriptInv, OnlyLaterBlank, OneMessageEach
<1> QED
  BY <1>1, TranscriptInvariant, PTL

\* No turn writes behind the messages of the next.
THEOREM TurnsInOrderHolds == Spec => []TurnsInOrder
<1>1. TranscriptInv => TurnsInOrder
  BY DEF TranscriptInv
<1> QED
  BY <1>1, TranscriptInvariant, PTL

\* While no id has two messages, overlays end one behind the other, at messages that
\* are there, and where no tool call is parted from its result.
THEOREM OverlaysAdvanceHolds == Spec => []OverlaysAdvance
<1>1. TranscriptInv => OverlaysAdvance
  BY DEF TranscriptInv, OverlaysBehind, OverlaysAdvance
<1> QED
  BY <1>1, TranscriptInvariant, PTL

\* The turn's question is behind every overlay.
LEMMA QuestionVisible ==
    ASSUME TranscriptInv, call.pc = "respond"
    PROVE  \E k \in DOMAIN Visible(session) : Visible(session)[k].id = UserId(active)
<1> DEFINE m == session.messages
           e == OverlayEnd(session)
<1>1. /\ active \in Turn /\ HasQuestion(session)
      /\ m \in Seq(Message) /\ Len(m) \in Nat /\ DOMAIN m = 1..Len(m)
  BY HoldingFacts, SessionType DEF TranscriptInv, QuestionFirst, Holding
<1>2. PICK i \in DOMAIN m : m[i].id = UserId(active)
  BY <1>1 DEF HasQuestion, MessageIds
<1>3. m[i].turn = active
  BY <1>1, <1>2 DEF TranscriptInv, Named
<1>4. e \in Nat /\ e < i
  <2>1. CASE session.compactions = << >>
    BY <1>1, <2>1 DEF OverlayEnd
  <2>2. CASE session.compactions # << >>
    <3> DEFINE k == Len(session.compactions)
    <3>1. k \in DOMAIN session.compactions /\ e = Position(session, session.compactions[k])
      <4>1. /\ session.compactions \in Seq(MessageIds(session)) /\ k \in Nat
            /\ DOMAIN session.compactions = 1..k
        BY SessionType DEF TranscriptInv
      <4>2. k # 0
        BY <2>2, <4>1, EmptySeq
      <4> QED
        BY <2>2, <4>1, <4>2 DEF OverlayEnd, Last
    <3> HIDE DEF k
    <3>2. e \in DOMAIN m /\ Over(m[e].turn)
      BY <3>1, EndsAtMessage DEF TranscriptInv, OverlaysBehind
    <3>3. m[e].turn \in Turn /\ m[e].turn # active
      BY <1>1, <3>2, MessageTurn, ActiveTurn DEF Over, TranscriptInv
    <3>4. m[e].turn <= active
      BY <1>1, <3>2, <3>3, NoneBehind DEF Over, Begun
    <3>5. ~(i <= e)
      <4>1. ASSUME i < e PROVE active <= m[e].turn
        BY <1>2, <1>3, <3>2, <4>1 DEF TranscriptInv, TurnsInOrder
      <4> HIDE DEF e, m
      <4> QED
        BY <1>1, <1>3, <3>2, <3>3, <3>4, <4>1, TranscriptAssumption
    <3> HIDE DEF e, m
    <3> QED
      BY <1>1, <3>2, <3>5
  <2> QED
    BY <2>1, <2>2
<1>5. /\ Visible(session) = SubSeq(m, e + 1, Len(m))
      /\ DOMAIN Visible(session) = 1..(Len(m) - e)
      /\ \A k \in 1..(Len(m) - e) : Visible(session)[k] = m[e + k]
  <2>1. Visible(session) = SubSeq(m, e + 1, Len(m))
    BY DEF Visible
  <2> HIDE DEF e, m
  <2>2. e + 1 \in Int /\ Len(m) \in Int /\ \A j \in (e + 1)..Len(m) : m[j] \in Message
    <3>1. \A j \in 1..Len(m) : m[j] \in Message
      BY <1>1, ElementOfSeq
    <3> QED
      BY <1>1, <1>4, <3>1
  <2> DEFINE v == SubSeq(m, e + 1, Len(m))
  <2>3. /\ v \in Seq(Message)
        /\ Len(v) = IF e + 1 <= Len(m) THEN Len(m) - (e + 1) + 1 ELSE 0
        /\ \A k \in 1..(Len(m) - (e + 1) + 1) : v[k] = m[e + 1 + k - 1]
    BY <2>2, SubSeqProperties
  <2> HIDE DEF v
  <2>4. Len(v) = Len(m) - e
    <3>1. i \in 1..Len(m)
      BY <1>1
    <3>2. e + 1 <= Len(m) /\ Len(m) - (e + 1) + 1 = Len(m) - e
      BY <1>1, <1>4, <3>1
    <3> QED
      BY <2>3, <3>2
  <2>5. \A k \in 1..(Len(m) - e) : v[k] = m[e + k]
    <3> TAKE k \in 1..(Len(m) - e)
    <3>1. k \in 1..(Len(m) - (e + 1) + 1) /\ e + 1 + k - 1 = e + k
      BY <1>1, <1>4
    <3> QED
      BY <2>3, <3>1
  <2>6. DOMAIN v = 1..Len(v)
    BY <2>3, LenProperties
  <2> QED
    BY <2>1, <2>4, <2>5, <2>6 DEF v
<1> HIDE DEF e, m
<1>6. i - e \in 1..(Len(m) - e) /\ e + (i - e) = i
  BY <1>1, <1>4
<1> QED
  BY <1>2, <1>5, <1>6

\* Whatever was compacted, the model sees the turn's question: every overlay ends at a
\* message of a turn that is over.
THEOREM QuestionInSightHolds == Spec => []QuestionInSight
<1>1. TranscriptInv => QuestionInSight
  <2> SUFFICES ASSUME TranscriptInv, call.pc = "respond"
               PROVE  \E k \in DOMAIN Visible(call.copy) :
                          Visible(call.copy)[k].id = UserId(active)
    BY DEF QuestionInSight
  <2>1. call.copy = session
    BY HoldingFacts DEF Holding
  <2> QED
    BY <2>1, QuestionVisible
<1> QED
  BY <1>1, TranscriptInvariant, PTL

\* No save brings back a transcript from before a message was stored: each is of a
\* copy of the record as it is, and of all of it.
THEOREM MessagesKeptHolds == Spec => MessagesKept
<1>1. TranscriptInv /\ [Next]_vars => [MessageIds(session) \subseteq MessageIds(session')]_session
  BY IdsStay DEF vars
<1> QED
  BY <1>1, TranscriptInvariant, PTL DEF Spec, MessagesKept

\* Every step leaves what was updated and summarised, and adds to it.
LEMMA SavesStay ==
    ASSUME TranscriptInv, Next
    PROVE  /\ session.context <= session'.context
           /\ IsPrefix(session.compactions, session'.compactions)
<1> DEFINE c == session.compactions
<1>1. /\ session.context \in 0..requests /\ requests \in Nat
      /\ c \in Seq(MessageIds(session)) /\ Len(c) \in Nat
  BY SessionType DEF TranscriptInv, TypeInv
<1>2. IsPrefix(c, c)
  BY <1>1 DEF IsPrefix
<1>3. CASE Kept
  BY <1>1, <1>2, <1>3 DEF Kept
<1>4. CASE Updated
  <2>1. session'.context = requests /\ session'.compactions = c
    BY <1>4, SessionType DEF Updated, TranscriptInv
  <2> QED
    BY <1>1, <1>2, <2>1
<1>5. CASE Summarised
  <2>1. /\ session'.context = session.context
        /\ session'.compactions = Append(c, session.messages[PlanEnd(session)].id)
        /\ session.messages[PlanEnd(session)].id \in MessageIds(session)
    BY <1>5, SummaryAdds
  <2> HIDE DEF c
  <2>2. IsPrefix(c, Append(c, session.messages[PlanEnd(session)].id))
    BY <1>1, <2>1 DEF IsPrefix
  <2> QED
    BY <1>1, <2>1, <2>2 DEF c
<1>6. CASE Wrote
  <2>1. session'.context = session.context /\ session'.compactions = c
    BY <1>6, SessionType DEF Wrote, TranscriptInv
  <2> QED
    BY <1>1, <1>2, <2>1
<1> QED
  BY <1>3, <1>4, <1>5, <1>6, SessionSteps

\* What an update or a compaction saved stays saved: no turn puts back the context of
\* its snapshot or overlays from before.
THEOREM UpdatesKeptHolds == Spec => UpdatesKept
<1>1. TranscriptInv /\ [Next]_vars =>
          [/\ session.context <= session'.context
           /\ IsPrefix(session.compactions, session'.compactions)]_session
  BY SavesStay DEF vars
<1> QED
  BY <1>1, TranscriptInvariant, PTL DEF Spec, UpdatesKept
===============================================================================
