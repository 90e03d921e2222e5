-------------------------------- MODULE TurnSpec --------------------------------
(***************************************************************************)
(* What a chat session promises about its turns, whatever isolates, calls, *)
(* retries and alarms it takes to keep the promise: turns start one at a   *)
(* time and in the order of their submission, a started turn only extends  *)
(* its log until it ends, and it ends once.                                *)
(*                                                                         *)
(* DurableExecution and SessionHost implement this specification.          *)
(***************************************************************************)
EXTENDS Naturals, Sequences

CONSTANTS Turn

VARIABLES
    state,        \* of each turn
    events,       \* length of its log
    line          \* turns submitted and not started, oldest first

turnVars == <<state, events, line>>

Outcomes == {"completed", "failed"}

TurnInit ==
    /\ state = [t \in Turn |-> "absent"]
    /\ events = [t \in Turn |-> 0]
    /\ line = << >>

SubmitTurn(t) ==
    /\ state[t] = "absent"
    /\ state' = [state EXCEPT ![t] = "queued"]
    /\ line' = Append(line, t)
    /\ UNCHANGED events

StartNext(t) ==
    /\ line # << >>
    /\ t = Head(line)
    /\ \A u \in Turn : state[u] # "started"
    /\ state' = [state EXCEPT ![t] = "started"]
    /\ line' = Tail(line)
    /\ UNCHANGED events

ExtendLog(t) ==
    /\ state[t] = "started"
    /\ events' = [events EXCEPT ![t] = @ + 1]
    /\ UNCHANGED <<state, line>>

End(t, outcome) ==
    /\ state[t] = "started"
    /\ state' = [state EXCEPT ![t] = outcome]
    /\ UNCHANGED <<events, line>>

\* Turns that ended leave retention, together with their logs.
Forget(turns) ==
    /\ \A t \in turns : state[t] \in Outcomes
    /\ state' = [t \in Turn |-> IF t \in turns THEN "forgotten" ELSE state[t]]
    /\ events' = [t \in Turn |-> IF t \in turns THEN 0 ELSE events[t]]
    /\ UNCHANGED line

TurnNext ==
    \/ \E t \in Turn : SubmitTurn(t) \/ StartNext(t) \/ ExtendLog(t)
    \/ \E t \in Turn, outcome \in Outcomes : End(t, outcome)
    \/ \E turns \in SUBSET Turn : Forget(turns)

TurnSafety == TurnInit /\ [][TurnNext]_turnVars

\* A submitted turn ends.
TurnsEnd == \A t \in Turn : (state[t] = "queued") ~> (state[t] \in Outcomes \cup {"forgotten"})
===============================================================================
