----------------------- MODULE SessionTranscriptClaims -----------------------
(***************************************************************************)
(* What a comment of the repository says of the session a turn continues   *)
(* with, and the code does not keep.                                       *)
(***************************************************************************)
EXTENDS SessionTranscript

\* packages/agent-runtime/src/conversation.ts:82: the prompt of a continuation is
\* one a provider accepts, so every tool result in it follows its tool call.
ContinuationPromptValid ==
    LET prompt == Visible(call.copy) IN
    call.pc = "respond" /\ call.mode = "continue" =>
        \A i \in DOMAIN prompt : prompt[i].role = "tool" =>
            \E j \in 1..(i - 1) :
                /\ prompt[j].call
                /\ \A k \in (j + 1)..(i - 1) : prompt[k].role = "tool"
===============================================================================
