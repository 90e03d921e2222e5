--------------------------- MODULE MCDurableExecution ---------------------------
(* Instances of DurableExecution for TLC. *)
EXTENDS DurableExecution, TLC

\* Fibers are interchangeable: the module never orders or names them.
FiberSymmetry == Permutations(Fiber)

\* So are submissions: operations are numbered in the order of admission.
CallerSymmetry == FiberSymmetry \cup Permutations(Submission)
===============================================================================
