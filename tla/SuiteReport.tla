---------------------------- MODULE SuiteReport ----------------------------
(***************************************************************************)
(* What one invocation of ambesa-bench promises to the CI job that waits   *)
(* for it: the suite is graded in its order, and either all of it is       *)
(* published, under an exit code that says whether the gate holds, or the  *)
(* invocation is refused or aborted and nothing is published.              *)
(* BenchRunner is shown to implement it.                                   *)
(***************************************************************************)
EXTENDS Naturals, Sequences

VARIABLES
    suite,             \* names of the selected scenarios, in order
    gate,              \* --strict: does a red scenario fail the job
    graded,            \* names of those graded so far
    red,               \* has one of them failed
    published,         \* was the table printed
    exitCode           \* Running until the process ends

reportVars == <<suite, gate, graded, red, published, exitCode>>

CONSTANT Running

Init ==
    /\ graded = << >>
    /\ red = FALSE
    /\ published = FALSE
    /\ exitCode = Running

\* The invocation is refused before it begins.
Refuse ==
    /\ exitCode = Running /\ graded = << >>
    /\ exitCode' = 2
    /\ UNCHANGED <<suite, gate, graded, red, published>>

GradeNext ==
    /\ exitCode = Running
    /\ Len(graded) < Len(suite)
    /\ graded' = Append(graded, suite[Len(graded) + 1])
    /\ red' \in {red, TRUE}
    /\ UNCHANGED <<suite, gate, published, exitCode>>

Abort ==
    /\ exitCode = Running
    /\ exitCode' = 1
    /\ UNCHANGED <<suite, gate, graded, red, published>>

Publish ==
    /\ exitCode = Running
    /\ graded = suite
    /\ published' = TRUE
    /\ exitCode' = IF gate /\ red THEN 1 ELSE 0
    /\ UNCHANGED <<suite, gate, graded, red>>

Next == Refuse \/ GradeNext \/ Abort \/ Publish

Spec == Init /\ [][Next]_reportVars /\ WF_reportVars(Next)
=============================================================================
