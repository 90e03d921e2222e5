------------------------ MODULE DurableExecutionClaims ------------------------
(***************************************************************************)
(* Statements the repository's documents, comments and assertions make     *)
(* about the durable runtime, as properties of the model of its code.      *)
(* Each is the property of a run TLC is expected to refute; README.md and  *)
(* the findings of PROJECT.json tell the counterexamples.                  *)
(***************************************************************************)
EXTENDS MCDurableExecution

\* docs/runtime-architecture.md:137: a turn is completed without another
\* inference when the transcript already proves its terminal completion, so a
\* completed turn has its whole answer in the transcript.
CompletedHasWholeAnswer ==
    \A o \in OpId : operations[o].status = "completed" => transcript[o].saved = "final"

\* docs/runtime-architecture.md:119: a continuation persists the reconstructed
\* partial before it makes a new model request.
ContinuationStartsFromStream ==
    [][\A f \in Fiber :
          /\ fibers[f].pc = "mark" /\ fibers'[f].pc = "stream"
          /\ fibers[f].mode = "continue"
          => transcript[fibers[f].op].text = operations[fibers[f].op].text]_vars

\* docs/runtime-architecture.md:135: recovery starts a turn over only while its
\* stream has no assistant event.
RetryBeforeStream ==
    [][\A f \in Fiber :
          /\ fibers[f].pc = "mark" /\ fibers'[f].pc = "stream"
          /\ fibers[f].kind = "recover" /\ fibers[f].mode = "fresh"
          => operations[fibers[f].op].text = << >>]_vars
===============================================================================
