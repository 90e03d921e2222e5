--------------------------- MODULE SessionHostProofs ---------------------------
(***************************************************************************)
(* Theorems about SessionHost, for every value of its constants: the state *)
(* is well typed, a session at rest has its alarm set, and the host keeps  *)
(* the promises of TurnSpec.                                               *)
(***************************************************************************)
EXTENDS SessionHost, FiniteSetTheorems, SequenceTheorems, TLAPS

USE DEF Turn, None

-----------------------------------------------------------------------------
(* Type correctness *)

\* The number of admitted turns is the number of a turn, or none.
LEMMA AdmittedType ==
    Admitted \in Turn \cup {None}
<1> DEFINE A == {t \in Turn : turns[t] # "absent"}
<1>1. IsFiniteSet(Turn) /\ Cardinality(Turn) = MaxTurns
  BY FS_Interval, HostAssumption
<1>2. A \subseteq Turn
  OBVIOUS
<1>3. Cardinality(A) \in Nat /\ Cardinality(A) <= MaxTurns
  BY <1>1, <1>2, FS_Subset, FS_CardinalityType
<1> QED
  BY <1>3, HostAssumption DEF Admitted

IncidentRecord == [
    turn : Turn \cup {None},
    status : {"none", "waiting", "due", "disarmed", "attempting", "exhausted"},
    attempt : 0..MaxRecoveryAttempts]

CallRecord == [kind : Kind, turn : Turn \cup {None}]

Step == [kind : Kind, turn : Turn \cup {None}, pc : {"terminal", "wake"}]

\* TypeOK in two parts: the engine's state, and the host's calls and alarm.
EngineType ==
    /\ turns \in [Turn -> {"absent", "queued", "started"} \cup Terminal]
    /\ queue \in Seq(Turn)
    /\ active \in Turn \cup {None}
    /\ lease \in {"none", "valid", "lapsed"}
    /\ incident \in IncidentRecord
    /\ intent \in BOOLEAN

CallsType ==
    /\ platform \in BOOLEAN
    /\ waiting \subseteq [kind : {"run"}, turn : Turn]
    /\ holder \in CallRecord
    /\ ring \in [pc : {"idle", "permit", "finishing"}, stream : Turn \cup {None}]
    /\ finishing \subseteq Step
    /\ visit \in [pc : {"none", "ready"}, recoverable : Turn \cup {None}]
    /\ mishaps \in 0..MaxMishaps

\* TypeOK in the two parts that the steps change separately.
LEMMA TypeParts == TypeOK <=> EngineType /\ CallsType
  BY DEF TypeOK, EngineType, CallsType, IncidentRecord, CallRecord, Step

\* What wake does to lease, incident and intent is well typed.
LEMMA WakenedType ==
    ASSUME TypeOK, Wakened
    PROVE  /\ lease' \in {"none", "valid", "lapsed"}
           /\ incident' \in IncidentRecord
           /\ intent' \in BOOLEAN
<1>0. incident \in IncidentRecord /\ active \in Turn \cup {None} /\ 0 \in 0..MaxRecoveryAttempts
  BY HostAssumption DEF TypeOK, IncidentRecord
<1>1. CASE active = None \/ lease = "valid"
  BY <1>0, <1>1 DEF TypeOK, Wakened
<1>2. CASE ~(active = None \/ lease = "valid")
  <2>1. lease' = "none" /\ intent' = TRUE
    BY <1>2 DEF Wakened
  <2>2. CASE Open /\ incident.turn = active
    BY <1>0, <1>2, <2>1, <2>2 DEF Wakened, Scheduled, IncidentRecord
  <2>3. CASE ~(Open /\ incident.turn = active)
    BY <1>0, <1>2, <2>1, <2>3 DEF Wakened, IncidentRecord
  <2> QED
    BY <2>2, <2>3
<1> QED
  BY <1>1, <1>2

\* What wake answers are turns, or none.
LEMMA RunnableType ==
    ASSUME TypeOK
    PROVE  /\ Runnable \in Turn \cup {None}
           /\ Recoverable \in Turn \cup {None}
<1>1. queue # << >> => Head(queue) \in Turn
  BY HeadTailProperties DEF TypeOK
<1>2. Runnable \in Turn \cup {None}
  BY <1>1 DEF Runnable
<1>3. Recoverable \in Turn \cup {None}
  BY DEF TypeOK, Recoverable
<1> QED
  BY <1>2, <1>3

\* The first state is well typed.
LEMMA InitType == Init => TypeOK
<1> SUFFICES ASSUME Init PROVE EngineType /\ CallsType
  BY TypeParts
<1>1. incident \in IncidentRecord
  BY HostAssumption DEF Init, NoIncident, IncidentRecord
<1>2. EngineType
  <2>1. turns \in [Turn -> {"absent", "queued", "started"} \cup Terminal]
    BY DEF Init
  <2>2. queue \in Seq(Turn) /\ active \in Turn \cup {None}
    BY DEF Init
  <2>3. lease \in {"none", "valid", "lapsed"} /\ intent \in BOOLEAN
    BY DEF Init
  <2> QED
    BY <1>1, <2>1, <2>2, <2>3 DEF EngineType
<1>3. /\ holder \in CallRecord
      /\ ring \in [pc : {"idle", "permit", "finishing"}, stream : Turn \cup {None}]
      /\ visit \in [pc : {"none", "ready"}, recoverable : Turn \cup {None}]
  BY DEF Init, NoCall, NoRing, NoVisit, Call, CallRecord, Kind
<1>4. mishaps \in 0..MaxMishaps
  BY HostAssumption DEF Init
<1>5. CallsType
  BY <1>3, <1>4 DEF Init, CallsType
<1> QED
  BY <1>2, <1>5

\* A call in flight has a kind, and a turn or none.
LEMMA CallType ==
    ASSUME NEW k \in Kind, NEW t \in Turn \cup {None}
    PROVE  Call(k, t) \in CallRecord
  BY DEF Call, CallRecord

\* The runs that wake asks for are calls of run.
LEMMA RunsType ==
    ASSUME TypeOK
    PROVE  {Call("run", t) : t \in {Runnable} \ {None}} \subseteq [kind : {"run"}, turn : Turn]
<1>1. \A t \in Turn : Call("run", t) \in [kind : {"run"}, turn : Turn]
  BY DEF Call
<1>2. {Runnable} \ {None} \subseteq Turn
  BY RunnableType
<1> QED
  BY <1>1, <1>2

\* What a call leaves behind for its end is well typed.
LEMMA FinishingType ==
    ASSUME CallsType, NEW call \in CallRecord
    PROVE  Finishing(call) \subseteq Step
<1>1. [kind |-> call.kind, turn |-> call.turn, pc |-> "terminal"] \in Step
  BY DEF CallRecord, Step
<1> QED
  BY <1>1 DEF Finishing, CallsType, Step

\* A waiting call is a call of run, for a turn.
LEMMA WaitingType ==
    ASSUME CallsType, NEW call \in waiting
    PROVE  call \in CallRecord /\ call.turn \in Turn /\ call.kind = "run"
  BY DEF CallsType, CallRecord, Kind

\* The call that is released goes on to its last steps.
LEMMA ReleasedType ==
    ASSUME CallsType, Released
    PROVE  /\ holder' \in CallRecord
           /\ finishing' \subseteq Step
<1>1. NoCall \in CallRecord
  BY DEF NoCall, Call, CallRecord, Kind
<1>2. (IF holder.kind = "alarm" THEN Call("alarm", ring.stream) ELSE holder) \in CallRecord
  BY CallType DEF CallsType, CallRecord, Kind
<1> QED
  BY <1>1, <1>2, FinishingType DEF Released

\* The alarm handler goes on to its last steps.
LEMMA RingDoneType ==
    ASSUME CallsType, RingDone
    PROVE  /\ ring' \in [pc : {"idle", "permit", "finishing"}, stream : Turn \cup {None}]
           /\ finishing' \subseteq Step
<1>1. ring' \in [pc : {"idle", "permit", "finishing"}, stream : Turn \cup {None}]
  BY DEF CallsType, RingDone
<1>2. Call("alarm", ring.stream) \in CallRecord
  BY CallType DEF CallsType, Kind
<1> QED
  BY <1>1, <1>2, FinishingType DEF RingDone

\* A mishap is counted within its bound.
LEMMA MishapType == ASSUME CallsType, Mishap PROVE mishaps' \in 0..MaxMishaps
  BY HostAssumption DEF CallsType, Mishap

\* What a call does in its last steps.
LEMMA ToWakeType ==
    ASSUME CallsType, NEW c \in finishing, ToWake(c)
    PROVE  ring' = ring /\ finishing' \subseteq Step
<1>1. [kind |-> c.kind, turn |-> None, pc |-> "wake"] \in Step
  BY DEF CallsType, Step
<1> QED
  BY <1>1 DEF ToWake, CallsType

\* The end of a call leaves the alarm's handler and the ending calls well typed.
LEMMA EndedType ==
    ASSUME CallsType, NEW c \in finishing, Ended(c)
    PROVE  /\ ring' \in [pc : {"idle", "permit", "finishing"}, stream : Turn \cup {None}]
           /\ finishing' \subseteq Step
  BY DEF CallsType, Ended, NoRing

\* The types of what a step leaves alone stay.
LEMMA EngineTypeStays == ASSUME EngineType, UNCHANGED engine PROVE EngineType'
  BY DEF EngineType, engine

\* Calls that do not move stay well typed.
LEMMA CallsTypeStays ==
    ASSUME CallsType, UNCHANGED <<platform, calls, mishaps>> PROVE CallsType'
  BY DEF CallsType, calls

\* Every step keeps the types.
LEMMA NextType == TypeOK /\ [Next]_vars => TypeOK'
<1> SUFFICES ASSUME TypeOK, [Next]_vars PROVE EngineType' /\ CallsType'
  BY DEF TypeOK, EngineType, CallsType, IncidentRecord, CallRecord, Step
<1>0. EngineType /\ CallsType
  BY TypeParts
<1>1. CASE Visit
  <2>1. EngineType'
    BY <1>0, <1>1, WakenedType DEF Visit, EngineType
  <2>2. mishaps' \in 0..MaxMishaps
    BY <1>0, <1>1, MishapType DEF Visit, CallsType
  <2>3. waiting' \subseteq [kind : {"run"}, turn : Turn]
    BY <1>0, <1>1, RunsType DEF Visit, CallsType
  <2>4. visit' \in [pc : {"none", "ready"}, recoverable : Turn \cup {None}]
    BY <1>0, <1>1, RunnableType DEF Visit, CallsType
  <2>5. platform' \in BOOLEAN
    BY <1>0, <1>1 DEF Visit, CallsType
  <2>6. CallsType'
    BY <1>0, <1>1, <2>2, <2>3, <2>4, <2>5 DEF Visit, CallsType
  <2> QED
    BY <2>1, <2>2, <2>3, <2>4, <2>5, <2>6
<1>2. CASE Submit
  <2>1. Admitted + 1 \in Turn /\ Call("run", Admitted + 1) \in [kind : {"run"}, turn : Turn]
    BY <1>0, <1>2 DEF Submit, Call
  <2>2. queue' \in Seq(Turn)
    BY <1>0, <1>2, <2>1, AppendProperties DEF Submit, EngineType
  <2>3. turns' \in [Turn -> {"absent", "queued", "started"} \cup Terminal]
    BY <1>0, <1>2, <2>1 DEF Submit, EngineType
  <2>4. EngineType'
    BY <1>0, <1>2, <2>2, <2>3 DEF Submit, EngineType
  <2>5. mishaps' \in 0..MaxMishaps
    BY <1>0, <1>2, MishapType DEF Submit, CallsType
  <2>6. waiting' \subseteq [kind : {"run"}, turn : Turn]
    BY <1>0, <1>2, <2>1 DEF Submit, CallsType
  <2>7. visit' \in [pc : {"none", "ready"}, recoverable : Turn \cup {None}]
    BY <1>0, <1>2 DEF Submit, NoVisit
  <2>8. CallsType'
    BY <1>0, <1>2, <2>5, <2>6, <2>7 DEF Submit, CallsType
  <2> QED
    BY <2>1, <2>2, <2>3, <2>4, <2>5, <2>6, <2>7, <2>8
<1>3. CASE Leave
  <2>1. EngineType'
    BY <1>0, <1>3, EngineTypeStays DEF Leave
  <2>2. CallsType'
    BY <1>0, <1>3 DEF Leave, CallsType, NoVisit
  <2> QED
    BY <2>1, <2>2
<1>4. ASSUME NEW call \in waiting, Claim(call) PROVE EngineType' /\ CallsType'
  <2>1. call \in CallRecord /\ call.turn \in Turn
    BY <1>0, WaitingType
  <2>2. queue \in Seq(Turn) /\ (queue # << >> => Tail(queue) \in Seq(Turn))
    BY <1>0, HeadTailProperties DEF EngineType
  <2>3. queue' \in Seq(Turn)
    BY <1>4, <2>2 DEF Claim, Dequeue
  <2>4. turns' \in [Turn -> {"absent", "queued", "started"} \cup Terminal]
    BY <1>0, <1>4, <2>1 DEF Claim, EngineType
  <2>5. EngineType'
    BY <1>0, <1>4, <2>1, <2>3, <2>4 DEF Claim, EngineType
  <2>6. holder' \in CallRecord /\ finishing' \subseteq Step
    BY <1>0, <1>4, <2>1, FinishingType DEF Claim, CallsType
  <2>7. CallsType'
    BY <1>0, <1>4, <2>6 DEF Claim, CallsType
  <2> QED
    BY <2>5, <2>7
<1>5. ASSUME NEW call \in waiting, PermitTimeout(call) PROVE EngineType' /\ CallsType'
  <2>1. EngineType'
    BY <1>0, <1>5, EngineTypeStays DEF PermitTimeout
  <2>2. finishing' \subseteq Step
    BY <1>0, <1>5, WaitingType, FinishingType DEF PermitTimeout
  <2>3. CallsType'
    BY <1>0, <1>5, <2>2 DEF PermitTimeout, CallsType
  <2> QED
    BY <2>1, <2>3
<1>6. ASSUME NEW outcome \in Terminal, Settle(outcome) PROVE EngineType' /\ CallsType'
  <2>1. incident' \in IncidentRecord
    BY <1>6, HostAssumption DEF Settle, NoIncident, IncidentRecord
  <2>2. turns' \in [Turn -> {"absent", "queued", "started"} \cup Terminal]
    BY <1>0, <1>6 DEF Settle, EngineType
  <2>3. EngineType'
    BY <1>0, <1>6, <2>1, <2>2 DEF Settle, EngineType
  <2>4. holder' \in CallRecord /\ finishing' \subseteq Step
    BY <1>0, <1>6, ReleasedType DEF Settle
  <2>5. CallsType'
    BY <1>0, <1>6, <2>4 DEF Settle, CallsType
  <2> QED
    BY <2>3, <2>5
<1>7. CASE ScheduleRecovery
  <2>1. incident' \in IncidentRecord
    BY <1>0, <1>7 DEF ScheduleRecovery, EngineType, IncidentRecord
  <2>2. EngineType'
    BY <1>0, <1>7, <2>1 DEF ScheduleRecovery, EngineType
  <2>3. holder' \in CallRecord /\ finishing' \subseteq Step
    BY <1>0, <1>7, ReleasedType DEF ScheduleRecovery
  <2>4. CallsType'
    BY <1>0, <1>7, <2>3 DEF ScheduleRecovery, CallsType
  <2> QED
    BY <2>1, <2>2, <2>3, <2>4
<1>8. CASE Fenced
  <2>1. EngineType'
    BY <1>0, <1>8, EngineTypeStays DEF Fenced
  <2>2. holder' \in CallRecord /\ finishing' \subseteq Step
    BY <1>0, <1>8, ReleasedType DEF Fenced
  <2>3. CallsType'
    BY <1>0, <1>8, <2>2 DEF Fenced, CallsType
  <2> QED
    BY <2>1, <2>2, <2>3
<1>9. CASE Abandon
  <2>1. EngineType'
    BY <1>0, <1>9, EngineTypeStays DEF Abandon
  <2>2. holder' \in CallRecord /\ finishing' \subseteq Step
    BY <1>0, <1>9, ReleasedType DEF Abandon
  <2>3. mishaps' \in 0..MaxMishaps
    BY <1>0, <1>9, MishapType DEF Abandon
  <2>4. CallsType'
    BY <1>0, <1>9, <2>2, <2>3 DEF Abandon, CallsType
  <2> QED
    BY <2>1, <2>2, <2>3, <2>4
<1>10. CASE LeaseLapses
  <2>1. EngineType'
    BY <1>0, <1>10 DEF LeaseLapses, EngineType
  <2>2. CallsType'
    BY <1>0, <1>10, CallsTypeStays DEF LeaseLapses
  <2> QED
    BY <2>1, <2>2
<1>11. CASE Fire
  <2>1. EngineType'
    BY <1>0, <1>11, EngineTypeStays DEF Fire
  <2>2. Probed \in Turn \cup {None}
    BY <1>0, <1>11, AdmittedType DEF Probed, EngineType
  <2>3. CallsType'
    BY <1>0, <1>11, <2>2 DEF Fire, CallsType
  <2> QED
    BY <2>1, <2>2, <2>3
<1>12. CASE RecoveryDue
  <2>1. incident' \in IncidentRecord
    BY <1>0, <1>12 DEF RecoveryDue, EngineType, IncidentRecord
  <2>2. EngineType'
    BY <1>0, <1>12, <2>1 DEF RecoveryDue, EngineType
  <2>3. CallsType'
    BY <1>0, <1>12, CallsTypeStays DEF RecoveryDue
  <2> QED
    BY <2>1, <2>2, <2>3
<1>13. ASSUME NEW outcome \in Terminal, EndByRecovery(outcome) PROVE EngineType' /\ CallsType'
  <2>1. incident' \in IncidentRecord
    <3>1. incident' = NoIncident \/ incident' = [incident EXCEPT !.status = "exhausted"]
      BY <1>13 DEF EndByRecovery
    <3>2. NoIncident \in IncidentRecord
      BY HostAssumption DEF NoIncident, IncidentRecord
    <3>3. [incident EXCEPT !.status = "exhausted"] \in IncidentRecord
      BY <1>0 DEF EngineType, IncidentRecord
    <3> QED
      BY <3>1, <3>2, <3>3
  <2>2. turns' \in [Turn -> {"absent", "queued", "started"} \cup Terminal]
    BY <1>0, <1>13 DEF EndByRecovery, EngineType
  <2>3. EngineType'
    BY <1>0, <1>13, <2>1, <2>2 DEF EndByRecovery, EngineType
  <2>4. CallsType'
    BY <1>0, <1>13, RingDoneType DEF EndByRecovery, CallsType
  <2> QED
    BY <2>3, <2>4
<1>14. CASE Attempt
  <2>1. incident.attempt + 1 \in 0..MaxRecoveryAttempts
    BY <1>0, <1>14, HostAssumption DEF Attempt, AttemptsLeft, EngineType, IncidentRecord
  <2>2. incident' \in IncidentRecord
    BY <1>0, <1>14, <2>1 DEF Attempt, EngineType, IncidentRecord
  <2>3. EngineType'
    BY <1>0, <1>14, <2>2 DEF Attempt, EngineType
  <2>4. holder' \in CallRecord
    BY <1>0, <1>14, CallType DEF Attempt, EngineType, IncidentRecord, Kind
  <2>5. ring' \in [pc : {"idle", "permit", "finishing"}, stream : Turn \cup {None}]
    BY <1>0, <1>14 DEF Attempt, CallsType
  <2>6. CallsType'
    BY <1>0, <1>14, <2>4, <2>5 DEF Attempt, CallsType
  <2> QED
    BY <2>1, <2>2, <2>3, <2>4, <2>5, <2>6
<1>15. CASE NoRecovery
  <2>1. incident' \in IncidentRecord
    BY <1>0, <1>15 DEF NoRecovery, EngineType, IncidentRecord
  <2>2. EngineType'
    BY <1>0, <1>15, <2>1 DEF NoRecovery, EngineType
  <2>3. CallsType'
    BY <1>0, <1>15, RingDoneType DEF NoRecovery, CallsType
  <2> QED
    BY <2>1, <2>2, <2>3
<1>16. CASE AlarmPermitTimeout
  <2>1. EngineType'
    BY <1>0, <1>16, EngineTypeStays DEF AlarmPermitTimeout
  <2>2. CallsType'
    BY <1>0, <1>16, RingDoneType DEF AlarmPermitTimeout, CallsType
  <2> QED
    BY <2>1, <2>2
<1>17. ASSUME NEW c \in finishing, BroadcastTerminal(c) PROVE EngineType' /\ CallsType'
  <2>1. EngineType'
    BY <1>0, <1>17, EngineTypeStays DEF BroadcastTerminal
  <2>2. ring' = ring /\ finishing' \subseteq Step
    BY <1>0, <1>17, ToWakeType DEF BroadcastTerminal
  <2>3. platform' \in BOOLEAN
    BY <1>0, <1>17 DEF BroadcastTerminal, CallsType
  <2>4. CallsType'
    BY <1>0, <1>17, <2>2, <2>3 DEF BroadcastTerminal, CallsType
  <2> QED
    BY <2>1, <2>4
<1>18. ASSUME NEW c \in finishing, Wake(c) PROVE EngineType' /\ CallsType'
  <2>1. EngineType'
    BY <1>0, <1>18, WakenedType DEF Wake, EngineType
  <2>2. waiting' \subseteq [kind : {"run"}, turn : Turn]
    BY <1>0, <1>18, RunsType DEF Wake, NextTurn, CallsType
  <2>3. platform' \in BOOLEAN
    BY <1>0, <1>18 DEF Wake, NextTurn, CallsType
  <2>4. mishaps' \in 0..MaxMishaps
    BY <1>0, <1>18, MishapType DEF Wake, CallsType
  <2>5. /\ ring' \in [pc : {"idle", "permit", "finishing"}, stream : Turn \cup {None}]
        /\ finishing' \subseteq Step
    BY <1>0, <1>18, EndedType DEF Wake
  <2>6. CallsType'
    BY <1>0, <1>18, <2>2, <2>3, <2>4, <2>5 DEF Wake, CallsType
  <2> QED
    BY <2>1, <2>6
<1>19. ASSUME NEW c \in finishing, Break(c) PROVE EngineType' /\ CallsType'
  <2>1. EngineType'
    BY <1>0, <1>19, EngineTypeStays DEF Break
  <2>2. mishaps' \in 0..MaxMishaps
    BY <1>0, <1>19, MishapType DEF Break
  <2>3. /\ ring' \in [pc : {"idle", "permit", "finishing"}, stream : Turn \cup {None}]
        /\ finishing' \subseteq Step
    BY <1>0, <1>19, EndedType, ToWakeType DEF Break, CallsType
  <2>4. CallsType'
    BY <1>0, <1>19, <2>2, <2>3 DEF Break, CallsType
  <2> QED
    BY <2>1, <2>4
<1>20. CASE Restart
  <2>1. EngineType'
    BY <1>0, <1>20 DEF Restart, EngineType
  <2>2. mishaps' \in 0..MaxMishaps
    BY <1>0, <1>20, MishapType DEF Restart
  <2>3. holder' \in CallRecord /\ ring' \in [pc : {"idle", "permit", "finishing"}, stream : Turn \cup {None}] /\ visit' \in [pc : {"none", "ready"}, recoverable : Turn \cup {None}]
    BY <1>0, <1>20 DEF Restart, NoCall, NoRing, NoVisit, Call, CallRecord, Kind
  <2>4. platform' \in BOOLEAN
    BY <1>0, <1>20 DEF Restart, CallsType
  <2>5. CallsType'
    BY <1>0, <1>20, <2>2, <2>3, <2>4 DEF Restart, CallsType
  <2> QED
    BY <2>1, <2>2, <2>3, <2>4, <2>5
<1>21. CASE UNCHANGED vars
  BY <1>0, <1>21, EngineTypeStays, CallsTypeStays DEF vars
<1> QED
  BY <1>1, <1>2, <1>3, <1>4, <1>5, <1>6, <1>7, <1>8, <1>9, <1>10, <1>11, <1>12, <1>13, <1>14, <1>15, <1>16, <1>17, <1>18, <1>19, <1>20, <1>21 DEF Next, Handle, Permit, EndRun, Finish

\* Every reachable state of the host is well typed.
THEOREM TypeCorrect == Spec => []TypeOK
<1>1. Init => TypeOK
  BY InitType
<1>2. TypeOK /\ [Next]_vars => TypeOK'
  BY NextType
<1> QED
  BY <1>1, <1>2, PTL DEF Spec, Safe

-----------------------------------------------------------------------------
(* A session at rest has its alarm set *)

\* ArmedAtRest is not inductive: a call may end without arming the alarm because
\* another one is at work.  Until a mishap, a valid lease has its call, and
\* unfinished work has an alarm or a call other than a request.
LeaseHasHolder == mishaps = 0 /\ lease = "valid" => holder # NoCall

Attended == platform \/ waiting # {} \/ holder # NoCall \/ ring # NoRing \/ finishing # {}

WorkIsAttended == mishaps = 0 /\ (active # None \/ queue # << >>) => Attended

ArmInv == TypeOK /\ LeaseHasHolder /\ WorkIsAttended

\* A mishap leaves both parts without anything to say.
LEMMA MishapCounts == ASSUME TypeOK, Mishap PROVE mishaps' # 0
<1>1. mishaps \in Nat
  BY HostAssumption DEF TypeOK
<1> QED
  BY <1>1 DEF Mishap

\* A call that released the lease is yet to end: its last wake is to come.
LEMMA ReleasedFinishes == ASSUME Released PROVE finishing' # {}
  BY DEF Released, Finishing

\* Waking a session with work leaves it a turn to run or an interrupted one to
\* recover, unless its owner is at work.
LEMMA WakenedAnswers ==
    ASSUME TypeOK, active # None \/ queue # << >>
    PROVE  Runnable # None \/ RecoveryAlarm \/ lease = "valid"
<1>1. queue # << >> => Head(queue) \in Turn
  BY HeadTailProperties DEF TypeOK
<1>2. queue # << >> => Head(queue) # None
  BY <1>1, HostAssumption
<1> QED
  BY <1>2 DEF Runnable, RecoveryAlarm

\* Every step keeps both parts of the strengthening.
LEMMA ArmNext == ArmInv /\ [Next]_vars => LeaseHasHolder' /\ WorkIsAttended'
<1> SUFFICES ASSUME ArmInv, [Next]_vars PROVE LeaseHasHolder' /\ WorkIsAttended'
  OBVIOUS
<1> USE DEF ArmInv
<1>1. CASE Visit
  <2>1. lease' = "valid" => lease = "valid"
    BY <1>1 DEF Visit, Wakened
  <2>2. LeaseHasHolder'
    BY <1>1, <2>1, MishapCounts DEF Visit, LeaseHasHolder
  <2>3. WorkIsAttended'
    BY <1>1, MishapCounts DEF Visit, WorkIsAttended, Attended
  <2> QED
    BY <2>2, <2>3
<1>2. CASE Submit
  BY <1>2, MishapCounts DEF Submit, LeaseHasHolder, WorkIsAttended, Attended
<1>3. CASE Leave
  BY <1>3 DEF Leave, engine, LeaseHasHolder, WorkIsAttended, Attended
<1>4. ASSUME NEW call \in waiting, Claim(call) PROVE LeaseHasHolder' /\ WorkIsAttended'
  <2>1. call # NoCall
    BY <1>4, HostAssumption DEF TypeOK, NoCall, Call
  <2>2. holder' # NoCall \/ (lease' = lease /\ holder' = holder /\ finishing' # {})
    BY <1>4, <2>1 DEF Claim, Finishing
  <2> QED
    BY <1>4, <2>2 DEF Claim, LeaseHasHolder, WorkIsAttended, Attended
<1>5. ASSUME NEW call \in waiting, PermitTimeout(call) PROVE LeaseHasHolder' /\ WorkIsAttended'
  BY <1>5 DEF PermitTimeout, Finishing, engine, LeaseHasHolder, WorkIsAttended, Attended
<1>6. ASSUME NEW outcome \in Terminal, Settle(outcome) PROVE LeaseHasHolder' /\ WorkIsAttended'
  BY <1>6, ReleasedFinishes DEF Settle, LeaseHasHolder, WorkIsAttended, Attended
<1>7. CASE ScheduleRecovery
  BY <1>7, ReleasedFinishes DEF ScheduleRecovery, LeaseHasHolder, WorkIsAttended, Attended
<1>8. CASE Fenced
  BY <1>8, ReleasedFinishes DEF Fenced, engine, LeaseHasHolder, WorkIsAttended, Attended
<1>9. CASE Abandon
  BY <1>9, MishapCounts DEF Abandon, LeaseHasHolder, WorkIsAttended
<1>10. CASE LeaseLapses
  BY <1>10 DEF LeaseLapses, calls, LeaseHasHolder, WorkIsAttended, Attended
<1>11. CASE Fire
  BY <1>11 DEF Fire, engine, NoRing, LeaseHasHolder, WorkIsAttended, Attended
<1>12. CASE RecoveryDue
  BY <1>12 DEF RecoveryDue, calls, LeaseHasHolder, WorkIsAttended, Attended
<1>13. ASSUME NEW outcome \in Terminal, EndByRecovery(outcome) PROVE LeaseHasHolder' /\ WorkIsAttended'
  BY <1>13 DEF EndByRecovery, RingDone, Finishing, LeaseHasHolder, WorkIsAttended, Attended
<1>14. CASE Attempt
  <2>1. holder' # NoCall
    BY <1>14 DEF Attempt, NoCall, Call
  <2> QED
    BY <2>1 DEF LeaseHasHolder, WorkIsAttended, Attended
<1>15. CASE NoRecovery
  BY <1>15 DEF NoRecovery, RingDone, Finishing, LeaseHasHolder, WorkIsAttended, Attended
<1>16. CASE AlarmPermitTimeout
  BY <1>16 DEF AlarmPermitTimeout, RingDone, Finishing, engine, LeaseHasHolder, WorkIsAttended, Attended
<1>17. ASSUME NEW c \in finishing, BroadcastTerminal(c) PROVE LeaseHasHolder' /\ WorkIsAttended'
  BY <1>17 DEF BroadcastTerminal, ToWake, engine, LeaseHasHolder, WorkIsAttended, Attended
<1>18. ASSUME NEW c \in finishing, Wake(c) PROVE LeaseHasHolder' /\ WorkIsAttended'
  <2>1. lease' = "valid" => lease = "valid"
    BY <1>18 DEF Wake, Wakened
  <2>2. LeaseHasHolder'
    BY <1>18, <2>1, MishapCounts DEF Wake, LeaseHasHolder
  <2>3. ASSUME NextTurn(c), mishaps' = 0, mishaps' = mishaps, active' # None \/ queue' # << >>
        PROVE  Attended'
    <3>1. Runnable # None \/ RecoveryAlarm \/ lease = "valid"
      BY <1>18, <2>3, WakenedAnswers DEF Wake
    <3>2. CASE Runnable # None \/ RecoveryAlarm
      BY <2>3, <3>2 DEF NextTurn, Attended
    <3>3. CASE lease = "valid"
      BY <1>18, <2>3, <3>3 DEF Wake, LeaseHasHolder, Attended
    <3> QED
      BY <3>1, <3>2, <3>3
  <2>4. WorkIsAttended'
    BY <1>18, <2>3, MishapCounts DEF Wake, WorkIsAttended
  <2> QED
    BY <2>2, <2>4
<1>19. ASSUME NEW c \in finishing, Break(c) PROVE LeaseHasHolder' /\ WorkIsAttended'
  BY <1>19, MishapCounts DEF Break, LeaseHasHolder, WorkIsAttended
<1>20. CASE Restart
  BY <1>20, MishapCounts DEF Restart, LeaseHasHolder, WorkIsAttended
<1>21. CASE UNCHANGED vars
  BY <1>21 DEF vars, engine, calls, LeaseHasHolder, WorkIsAttended, Attended
<1> QED
  BY <1>1, <1>2, <1>3, <1>4, <1>5, <1>6, <1>7, <1>8, <1>9, <1>10, <1>11, <1>12, <1>13, <1>14,
     <1>15, <1>16, <1>17, <1>18, <1>19, <1>20, <1>21 DEF Next, Handle, Permit, EndRun, Finish

\* Unless a call was cut short, a session at rest with a turn unfinished has its
\* alarm set, whichever of the host's calls was the last to end.
THEOREM RestIsArmed == Spec => []ArmedAtRest
<1>1. Init => ArmInv
  <2>1. Init => LeaseHasHolder /\ WorkIsAttended
    BY DEF Init, LeaseHasHolder, WorkIsAttended
  <2> QED
    BY <2>1, InitType DEF ArmInv
<1>2. ArmInv /\ [Next]_vars => ArmInv'
  BY NextType, ArmNext DEF ArmInv
<1>3. ArmInv => ArmedAtRest
  BY DEF ArmInv, WorkIsAttended, Attended, ArmedAtRest, AtRest
<1> QED
  BY <1>1, <1>2, <1>3, PTL DEF Spec, Safe

-----------------------------------------------------------------------------
(* The host implements TurnSpec *)

\* The queue holds each queued turn once.
QueuedOnce ==
    /\ \A i, j \in 1..Len(queue) : queue[i] = queue[j] => i = j
    /\ \A i \in 1..Len(queue) : turns[queue[i]] = "queued"

\* The started turn is the active one.
StartedIsActive == \A t \in Turn : turns[t] = "started" <=> t = active

OwnerIsActive == lease = "valid" => active # None

\* An incident the engine acts on is the active turn's.
IncidentIsActive ==
    /\ incident.status = "none" => incident.turn = None
    /\ incident.status \notin {"none", "exhausted"} => active # None /\ incident.turn = active

\* Turns are admitted in the order of their numbers.
AdmittedFirst == {t \in Turn : turns[t] # "absent"} = 1..Admitted

HostInv == TypeOK /\ QueuedOnce /\ StartedIsActive /\ OwnerIsActive /\ IncidentIsActive /\ AdmittedFirst

\* How many turns have been admitted.
LEMMA AdmittedCount ==
    ASSUME NEW n \in Nat, {t \in Turn : turns[t] # "absent"} = 1..n
    PROVE  Admitted = n
<1>1. Admitted = Cardinality(1..n)
  BY DEF Admitted
<1>2. Cardinality(1..n) = IF 1 > n THEN 0 ELSE n - 1 + 1
  BY FS_Interval
<1> QED
  BY <1>1, <1>2

\* No turn is submitted yet.
LEMMA HostInit == Init => HostInv
<1> SUFFICES ASSUME Init PROVE HostInv
  OBVIOUS
<1>1. TypeOK
  BY InitType
<1>2. QueuedOnce
  BY DEF Init, QueuedOnce
<1>3. StartedIsActive
  BY HostAssumption DEF Init, StartedIsActive
<1>4. OwnerIsActive /\ IncidentIsActive
  BY DEF Init, OwnerIsActive, IncidentIsActive, NoIncident
<1>5. AdmittedFirst
  <2>1. {t \in Turn : turns[t] # "absent"} = 1..0
    BY DEF Init
  <2> QED
    BY <2>1, AdmittedCount DEF AdmittedFirst
<1> QED
  BY <1>1, <1>2, <1>3, <1>4, <1>5 DEF HostInv

\* A step that leaves the turns, or those not admitted, alone.
LEMMA AdmittedStays ==
    ASSUME HostInv, \A t \in Turn : turns'[t] = "absent" <=> turns[t] = "absent"
    PROVE  AdmittedFirst'
<1>1. {t \in Turn : turns'[t] # "absent"} = {t \in Turn : turns[t] # "absent"}
  OBVIOUS
<1> QED
  BY <1>1 DEF HostInv, AdmittedFirst, Admitted

\* wake keeps the incident with the active turn.
LEMMA WakenedKeeps ==
    ASSUME HostInv, Wakened, active' = active
    PROVE  OwnerIsActive' /\ IncidentIsActive'
<1>1. CASE active = None \/ lease = "valid"
  BY <1>1 DEF HostInv, Wakened, OwnerIsActive, IncidentIsActive
<1>2. CASE ~(active = None \/ lease = "valid")
  <2>1. CASE Open /\ incident.turn = active
    <3>1. /\ lease' = "none"
          /\ incident' = [incident EXCEPT !.status = IF @ \in Scheduled THEN @ ELSE "waiting"]
      BY <1>2, <2>1 DEF Wakened
    <3>2. incident'.turn = active /\ incident'.status \in {"waiting", "due"}
      BY <2>1, <3>1 DEF HostInv, TypeOK, Scheduled
    <3> QED
      BY <1>2, <3>1, <3>2 DEF OwnerIsActive, IncidentIsActive
  <2>2. CASE ~(Open /\ incident.turn = active)
    <3>1. lease' = "none" /\ incident' = [turn |-> active, status |-> "waiting", attempt |-> 0]
      BY <1>2, <2>2 DEF Wakened
    <3> QED
      BY <1>2, <3>1 DEF OwnerIsActive, IncidentIsActive
  <2> QED
    BY <2>1, <2>2
<1> QED
  BY <1>1, <1>2

\* What a claim finds, and how the turns and the queue change.
LEMMA ClaimTakesHead ==
    ASSUME HostInv, NEW call \in waiting, Claim(call), Claimable(call.turn)
    PROVE  /\ call.turn \in Turn
           /\ active = None =>
                /\ queue # << >> /\ Head(queue) = call.turn
                /\ turns[call.turn] = "queued" /\ queue' = Tail(queue)
           /\ active # None =>
                /\ active = call.turn /\ turns[call.turn] = "started"
                /\ turns' = turns /\ queue' = queue
<1> DEFINE t == call.turn
<1>1. t \in Turn /\ queue \in Seq(Turn) /\ turns \in [Turn -> {"absent", "queued", "started"} \cup Terminal]
  BY DEF HostInv, TypeOK
<1>2. queue # << >> => Head(queue) = queue[1] /\ 1 \in 1..Len(queue) /\ turns[Head(queue)] = "queued"
  BY <1>1, HeadTailProperties, EmptySeq DEF HostInv, QueuedOnce
<1>3. CASE active = None
  BY <1>1, <1>2, <1>3 DEF Claim, Claimable, Dequeue
<1>4. CASE active # None
  <2>1. active = t /\ turns[t] = "started"
    BY <1>1, <1>4 DEF Claimable, HostInv, StartedIsActive
  <2>2. turns' = turns
    BY <1>1, <2>1 DEF Claim
  <2>3. queue' = queue
    BY <1>2, <2>1 DEF Claim, Dequeue
  <2> QED
    BY <1>1, <1>4, <2>1, <2>2, <2>3
<1> QED
  BY <1>1, <1>3, <1>4

-----------------------------------------------------------------------------
(* Every step keeps the invariant and is a step of TurnSpec *)

Invs == QueuedOnce /\ StartedIsActive /\ OwnerIsActive /\ IncidentIsActive /\ AdmittedFirst

Refines == [Turns!TurnNext]_(Turns!turnVars)

\* A step that touches neither turns, queue nor the active turn.
LEMMA EngineAlone ==
    ASSUME HostInv, UNCHANGED <<turns, queue, active>>
    PROVE  QueuedOnce' /\ StartedIsActive' /\ AdmittedFirst' /\ Refines
<1>1. AdmittedFirst'
  BY AdmittedStays
<1> QED
  BY <1>1 DEF HostInv, QueuedOnce, StartedIsActive, Refines, Turns!turnVars

\* The active turn ends.
LEMMA ActiveEnds ==
    ASSUME HostInv, active # None, NEW outcome \in Terminal,
           turns' = [turns EXCEPT ![active] = outcome], active' = None, queue' = queue
    PROVE  QueuedOnce' /\ StartedIsActive' /\ AdmittedFirst' /\ Refines
<1>1. active \in Turn /\ turns \in [Turn -> {"absent", "queued", "started"} \cup Terminal]
      /\ queue \in Seq(Turn) /\ turns[active] = "started"
  BY DEF HostInv, TypeOK, StartedIsActive
<1>2. outcome \in Turns!Outcomes /\ outcome \notin {"absent", "queued", "started"}
  BY DEF Terminal, Turns!Outcomes
<1>3. QueuedOnce'
  BY <1>1 DEF HostInv, QueuedOnce
<1>4. StartedIsActive'
  BY <1>1, <1>2, HostAssumption DEF HostInv, StartedIsActive
<1>5. AdmittedFirst'
  BY <1>1, <1>2, AdmittedStays
<1>6. Turns!End(active, outcome)
  BY <1>1 DEF Turns!End
<1> QED
  BY <1>1, <1>2, <1>3, <1>4, <1>5, <1>6 DEF Refines, Turns!TurnNext

\* The head of the queue starts.
LEMMA HeadStarts ==
    ASSUME HostInv, active = None, queue # << >>, NEW t \in Turn, t = Head(queue),
           turns' = [turns EXCEPT ![t] = "started"], queue' = Tail(queue), active' = t
    PROVE  QueuedOnce' /\ StartedIsActive' /\ AdmittedFirst' /\ Refines
<1>1. queue \in Seq(Turn) /\ turns \in [Turn -> {"absent", "queued", "started"} \cup Terminal]
  BY DEF HostInv, TypeOK
<1>2. /\ t = queue[1] /\ Len(queue) \in Nat /\ Len(queue) >= 1
      /\ Len(queue') = Len(queue) - 1
      /\ \A i \in 1..Len(queue') : i + 1 \in 1..Len(queue) /\ queue'[i] = queue[i + 1]
  BY <1>1, HeadTailProperties, EmptySeq, LenProperties
<1>3. turns[t] = "queued" /\ 1 \in 1..Len(queue)
  BY <1>2 DEF HostInv, QueuedOnce
<1>4. QueuedOnce'
  <2>1. ASSUME NEW i \in 1..Len(queue'), NEW j \in 1..Len(queue'), queue'[i] = queue'[j] PROVE i = j
    <3>1. i + 1 = j + 1
      BY <1>2, <2>1 DEF HostInv, QueuedOnce
    <3> QED
      BY <1>2, <3>1
  <2>2. ASSUME NEW i \in 1..Len(queue') PROVE turns'[queue'[i]] = "queued"
    <3>1. queue[i + 1] # t
      <4>1. i + 1 # 1 /\ i + 1 \in 1..Len(queue)
        BY <1>2
      <4> QED
        BY <1>2, <1>3, <4>1 DEF HostInv, QueuedOnce
    <3>2. turns[queue[i + 1]] = "queued"
      BY <1>2 DEF HostInv, QueuedOnce
    <3> QED
      BY <1>1, <1>2, <3>1, <3>2
  <2> QED
    BY <2>1, <2>2 DEF QueuedOnce
<1>5. StartedIsActive'
  BY <1>1, <1>3, HostAssumption DEF HostInv, StartedIsActive
<1>6. AdmittedFirst'
  BY <1>1, <1>3, AdmittedStays
<1>7. \A u \in Turn : turns[u] # "started"
  BY HostAssumption DEF HostInv, StartedIsActive
<1>8. Turns!StartNext(t)
  BY <1>7 DEF Turns!StartNext
<1> QED
  BY <1>4, <1>5, <1>6, <1>8 DEF Refines, Turns!TurnNext

\* The next turn is admitted, behind all others.
LEMMA NextAdmitted ==
    ASSUME HostInv, NEW t \in Turn, t = Admitted + 1,
           turns' = [turns EXCEPT ![t] = "queued"], queue' = Append(queue, t), active' = active
    PROVE  QueuedOnce' /\ StartedIsActive' /\ AdmittedFirst' /\ Refines
<1>1. queue \in Seq(Turn) /\ turns \in [Turn -> {"absent", "queued", "started"} \cup Terminal]
  BY DEF HostInv, TypeOK
<1>2. Admitted \in Nat
  BY AdmittedType, HostAssumption
<1>3. turns[t] = "absent"
  BY <1>1, <1>2 DEF HostInv, AdmittedFirst
<1>4. /\ Len(queue) \in Nat /\ Len(queue') = Len(queue) + 1
      /\ \A i \in 1..Len(queue) : queue'[i] = queue[i] /\ queue[i] # t
      /\ queue'[Len(queue) + 1] = t
  BY <1>1, <1>3, AppendProperties, LenProperties DEF HostInv, QueuedOnce
<1>5. QueuedOnce'
  <2>1. \A i \in 1..Len(queue') : i \in 1..Len(queue) \/ i = Len(queue) + 1
    BY <1>4
  <2>2. ASSUME NEW i \in 1..Len(queue'), NEW j \in 1..Len(queue'), queue'[i] = queue'[j] PROVE i = j
    BY <1>4, <2>1, <2>2 DEF HostInv, QueuedOnce
  <2>3. ASSUME NEW i \in 1..Len(queue') PROVE turns'[queue'[i]] = "queued"
    BY <1>1, <1>4, <2>1 DEF HostInv, QueuedOnce
  <2> QED
    BY <2>2, <2>3 DEF QueuedOnce
<1>6. StartedIsActive'
  BY <1>1, <1>3 DEF HostInv, StartedIsActive
<1>7. AdmittedFirst'
  <2>1. {u \in Turn : turns'[u] # "absent"} = {u \in Turn : turns[u] # "absent"} \cup {t}
    BY <1>1
  <2>2. {u \in Turn : turns'[u] # "absent"} = 1..(Admitted + 1)
    BY <1>2, <2>1 DEF HostInv, AdmittedFirst
  <2>3. Admitted' = Admitted + 1
    <3>1. Admitted' = Cardinality(1..(Admitted + 1))
      BY <2>2 DEF Admitted
    <3>2. Cardinality(1..(Admitted + 1)) = Admitted + 1
      BY <1>2, FS_Interval
    <3> QED
      BY <3>1, <3>2
  <2> QED
    BY <2>2, <2>3 DEF AdmittedFirst
<1>8. Turns!SubmitTurn(t)
  BY <1>3 DEF Turns!SubmitTurn
<1> QED
  BY <1>5, <1>6, <1>7, <1>8 DEF Refines, Turns!TurnNext

\* Every step keeps HostInv and refines TurnSpec.
LEMMA HostNext == HostInv /\ [Next]_vars => Invs' /\ Refines
<1> SUFFICES ASSUME HostInv, [Next]_vars PROVE Invs' /\ Refines
  OBVIOUS
<1> USE DEF Invs
<1>1. CASE Visit
  <2>1. UNCHANGED <<turns, queue, active>>
    BY <1>1 DEF Visit
  <2>2. OwnerIsActive' /\ IncidentIsActive'
    BY <1>1, WakenedKeeps DEF Visit
  <2> QED
    BY <2>1, <2>2, EngineAlone
<1>2. CASE Submit
  <2>1. OwnerIsActive' /\ IncidentIsActive'
    BY <1>2 DEF Submit, HostInv, OwnerIsActive, IncidentIsActive
  <2> QED
    BY <1>2, <2>1, NextAdmitted DEF Submit
<1>3. CASE Leave
  <2>1. UNCHANGED <<turns, queue, active>>
    BY <1>3 DEF Leave, engine
  <2>2. OwnerIsActive' /\ IncidentIsActive'
    BY <1>3 DEF HostInv, OwnerIsActive, IncidentIsActive, Leave, engine
  <2> QED
    BY <2>1, <2>2, EngineAlone
<1>4. ASSUME NEW call \in waiting, Claim(call) PROVE Invs' /\ Refines
  <2>1. CASE ~Claimable(call.turn)
    <3>1. UNCHANGED <<turns, queue, active, lease, incident>>
      BY <1>4, <2>1 DEF Claim
    <3>2. OwnerIsActive' /\ IncidentIsActive'
      BY <3>1 DEF HostInv, OwnerIsActive, IncidentIsActive
    <3> QED
      BY <3>1, <3>2, EngineAlone
  <2>2. CASE Claimable(call.turn)
    <3>1. /\ turns' = [turns EXCEPT ![call.turn] = "started"] /\ active' = call.turn
          /\ incident' = incident /\ call.turn \in Turn
      BY <1>4, <2>2, ClaimTakesHead DEF Claim
    <3>2. OwnerIsActive' /\ IncidentIsActive'
      BY <1>4, <2>2, <3>1, ClaimTakesHead, HostAssumption DEF HostInv, OwnerIsActive, IncidentIsActive
    <3>3. CASE active = None
      BY <1>4, <2>2, <3>1, <3>2, <3>3, ClaimTakesHead, HeadStarts
    <3>4. CASE active # None
      <4>1. UNCHANGED <<turns, queue, active>>
        BY <1>4, <2>2, <3>1, <3>4, ClaimTakesHead
      <4> QED
        BY <3>2, <4>1, EngineAlone
    <3> QED
      BY <3>3, <3>4
  <2> QED
    BY <2>1, <2>2
<1>5. ASSUME NEW call \in waiting, PermitTimeout(call) PROVE Invs' /\ Refines
  <2>1. UNCHANGED <<turns, queue, active>>
    BY <1>5 DEF PermitTimeout, engine
  <2>2. OwnerIsActive' /\ IncidentIsActive'
    BY <1>5 DEF HostInv, OwnerIsActive, IncidentIsActive, PermitTimeout, engine
  <2> QED
    BY <2>1, <2>2, EngineAlone
<1>6. ASSUME NEW outcome \in Terminal, Settle(outcome) PROVE Invs' /\ Refines
  <2>1. active # None
    BY <1>6 DEF Settle, HostInv, OwnerIsActive
  <2>2. OwnerIsActive' /\ IncidentIsActive'
    BY <1>6 DEF Settle, NoIncident, OwnerIsActive, IncidentIsActive
  <2> QED
    BY <1>6, <2>1, <2>2, ActiveEnds DEF Settle
<1>7. CASE ScheduleRecovery
  <2>1. UNCHANGED <<turns, queue, active>> /\ active # None
    BY <1>7 DEF ScheduleRecovery, HostInv, OwnerIsActive
  <2>2. incident'.turn = active /\ incident'.status = "waiting"
    BY <1>7 DEF ScheduleRecovery, HostInv, TypeOK
  <2>3. OwnerIsActive' /\ IncidentIsActive'
    BY <2>1, <2>2 DEF OwnerIsActive, IncidentIsActive
  <2> QED
    BY <2>1, <2>3, EngineAlone
<1>8. CASE Fenced
  <2>1. UNCHANGED <<turns, queue, active>>
    BY <1>8 DEF Fenced, engine
  <2>2. OwnerIsActive' /\ IncidentIsActive'
    BY <1>8 DEF HostInv, OwnerIsActive, IncidentIsActive, Fenced, engine
  <2> QED
    BY <2>1, <2>2, EngineAlone
<1>9. CASE Abandon
  <2>1. UNCHANGED <<turns, queue, active>>
    BY <1>9 DEF Abandon, engine
  <2>2. OwnerIsActive' /\ IncidentIsActive'
    BY <1>9 DEF HostInv, OwnerIsActive, IncidentIsActive, Abandon, engine
  <2> QED
    BY <2>1, <2>2, EngineAlone
<1>10. CASE LeaseLapses
  <2>1. UNCHANGED <<turns, queue, active>>
    BY <1>10 DEF LeaseLapses
  <2>2. OwnerIsActive' /\ IncidentIsActive'
    BY <1>10 DEF HostInv, OwnerIsActive, IncidentIsActive, LeaseLapses
  <2> QED
    BY <2>1, <2>2, EngineAlone
<1>11. CASE Fire
  <2>1. UNCHANGED <<turns, queue, active>>
    BY <1>11 DEF Fire, engine
  <2>2. OwnerIsActive' /\ IncidentIsActive'
    BY <1>11 DEF HostInv, OwnerIsActive, IncidentIsActive, Fire, engine
  <2> QED
    BY <2>1, <2>2, EngineAlone
<1>12. CASE RecoveryDue
  <2>1. UNCHANGED <<turns, queue, active, lease>>
    BY <1>12 DEF RecoveryDue
  <2>2. incident.status = "waiting" /\ incident'.turn = incident.turn /\ incident'.status = "due"
    BY <1>12 DEF RecoveryDue, HostInv, TypeOK
  <2>3. OwnerIsActive' /\ IncidentIsActive'
    BY <2>1, <2>2 DEF HostInv, OwnerIsActive, IncidentIsActive
  <2> QED
    BY <2>1, <2>3, EngineAlone
<1>13. ASSUME NEW outcome \in Terminal, EndByRecovery(outcome) PROVE Invs' /\ Refines
  <2>1. active # None /\ incident.turn = active
    BY <1>13 DEF EndByRecovery, Open, HostInv, IncidentIsActive
  <2>2. incident' = NoIncident \/ incident' = [incident EXCEPT !.status = "exhausted"]
    BY <1>13 DEF EndByRecovery
  <2>3. incident'.status = "exhausted" \/ (incident'.status = "none" /\ incident'.turn = None)
    BY <2>2 DEF NoIncident, HostInv, TypeOK
  <2>4. OwnerIsActive' /\ IncidentIsActive'
    BY <1>13, <2>3 DEF EndByRecovery, OwnerIsActive, IncidentIsActive
  <2> QED
    BY <1>13, <2>1, <2>4, ActiveEnds DEF EndByRecovery
<1>14. CASE Attempt
  <2>1. UNCHANGED <<turns, queue, active>>
    BY <1>14 DEF Attempt
  <2>2. incident.status = "due" /\ incident'.turn = incident.turn /\ incident'.status = "attempting"
    BY <1>14 DEF Attempt, HostInv, TypeOK
  <2>3. OwnerIsActive' /\ IncidentIsActive'
    BY <2>1, <2>2 DEF HostInv, OwnerIsActive, IncidentIsActive
  <2> QED
    BY <2>1, <2>3, EngineAlone
<1>15. CASE NoRecovery
  <2>1. UNCHANGED <<turns, queue, active, lease>>
    BY <1>15 DEF NoRecovery
  <2>2. \/ incident' = incident
        \/ /\ incident.status \in {"waiting", "due"}
           /\ incident'.turn = incident.turn /\ incident'.status = "disarmed"
    BY <1>15 DEF NoRecovery, Scheduled, HostInv, TypeOK
  <2>3. OwnerIsActive' /\ IncidentIsActive'
    BY <2>1, <2>2 DEF HostInv, OwnerIsActive, IncidentIsActive
  <2> QED
    BY <2>1, <2>3, EngineAlone
<1>16. CASE AlarmPermitTimeout
  <2>1. UNCHANGED <<turns, queue, active>>
    BY <1>16 DEF AlarmPermitTimeout, engine
  <2>2. OwnerIsActive' /\ IncidentIsActive'
    BY <1>16 DEF HostInv, OwnerIsActive, IncidentIsActive, AlarmPermitTimeout, engine
  <2> QED
    BY <2>1, <2>2, EngineAlone
<1>17. ASSUME NEW c \in finishing, BroadcastTerminal(c) PROVE Invs' /\ Refines
  <2>1. UNCHANGED <<turns, queue, active>>
    BY <1>17 DEF BroadcastTerminal, engine
  <2>2. OwnerIsActive' /\ IncidentIsActive'
    BY <1>17 DEF HostInv, OwnerIsActive, IncidentIsActive, BroadcastTerminal, engine
  <2> QED
    BY <2>1, <2>2, EngineAlone
<1>18. ASSUME NEW c \in finishing, Wake(c) PROVE Invs' /\ Refines
  <2>1. UNCHANGED <<turns, queue, active>>
    BY <1>18 DEF Wake
  <2>2. OwnerIsActive' /\ IncidentIsActive'
    BY <1>18, WakenedKeeps DEF Wake
  <2> QED
    BY <2>1, <2>2, EngineAlone
<1>19. ASSUME NEW c \in finishing, Break(c) PROVE Invs' /\ Refines
  <2>1. UNCHANGED <<turns, queue, active>>
    BY <1>19 DEF Break, engine
  <2>2. OwnerIsActive' /\ IncidentIsActive'
    BY <1>19 DEF HostInv, OwnerIsActive, IncidentIsActive, Break, engine
  <2> QED
    BY <2>1, <2>2, EngineAlone
<1>20. CASE Restart
  <2>1. UNCHANGED <<turns, queue, active>>
    BY <1>20 DEF Restart
  <2>2. OwnerIsActive' /\ IncidentIsActive'
    BY <1>20 DEF HostInv, OwnerIsActive, IncidentIsActive, Restart
  <2> QED
    BY <2>1, <2>2, EngineAlone
<1>21. CASE UNCHANGED vars
  <2>1. UNCHANGED <<turns, queue, active>>
    BY <1>21 DEF vars, engine
  <2>2. OwnerIsActive' /\ IncidentIsActive'
    BY <1>21 DEF HostInv, OwnerIsActive, IncidentIsActive, vars, engine
  <2> QED
    BY <2>1, <2>2, EngineAlone
<1> QED
  BY <1>1, <1>2, <1>3, <1>4, <1>5, <1>6, <1>7, <1>8, <1>9, <1>10, <1>11, <1>12, <1>13, <1>14,
     <1>15, <1>16, <1>17, <1>18, <1>19, <1>20, <1>21 DEF Next, Handle, Permit, EndRun, Finish

\* Whatever requests, runs, alarms, mishaps and restarts the host sees, its turns
\* start in the order of submission, one at a time, and end once.
THEOREM HostImplementsTurnSpec == Spec => ImplementsTurnSpec
<1>1. Init => HostInv
  BY HostInit
<1>2. HostInv /\ [Next]_vars => HostInv'
  BY HostNext, NextType DEF HostInv, Invs
<1>3. HostInv /\ [Next]_vars => [Turns!TurnNext]_(Turns!turnVars)
  BY HostNext DEF Refines
<1>4. Init => Turns!TurnInit
  BY DEF Init, Turns!TurnInit
<1> QED
  BY <1>1, <1>2, <1>3, <1>4, PTL DEF Spec, Safe, ImplementsTurnSpec, Turns!TurnSafety
===============================================================================
