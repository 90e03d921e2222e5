------------------------- MODULE StreamDeliveryClaims -------------------------
(***************************************************************************)
(* A statement of the client runtime about delivery that the model         *)
(* refutes.                                                                *)
(***************************************************************************)
EXTENDS StreamDelivery

\* packages/client-runtime/src/runtime-client-state.ts:70, "Apply one decoded
\* server frame with sequence dedupe and gap detection": up to its cursor, a
\* client that shows a stream not yet completed has shown every event of it.
ShownWithoutGap ==
    /\ client.status \in {"live", "replaying"}
    /\ client.stream # None
    /\ outcome[client.stream] # "completed"
    => SelectSeq(client.recent, LAMBDA e : e[1] = client.stream)
       = [n \in 1..(client.lastSequence + 1) |-> <<client.stream, n - 1>>]
===============================================================================
