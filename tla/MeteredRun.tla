---------------------------- MODULE MeteredRun -----------------------------
(***************************************************************************)
(* What the diagnose loop promises to whoever pays for it, without tools,  *)
(* messages or diagnoses: a run makes at most MaxCalls billed calls, starts *)
(* none once Budget is spent, and ends with one outcome it never revises.  *)
(* reference_agent.run is shown to implement it in AgentLoop.              *)
(***************************************************************************)
EXTENDS Naturals

CONSTANTS
    MaxCalls,          \* max_iterations
    Budget,            \* max_cost_usd
    Prices             \* what one call may cost

VARIABLES calls, spent, outcome

meterVars == <<calls, spent, outcome>>

Init ==
    /\ calls = 0
    /\ spent = 0
    /\ outcome = "running"

MayCall ==
    /\ outcome = "running"
    /\ calls < MaxCalls
    /\ spent < Budget

\* A call is paid whatever its answer leads to, an exception included.
Pay(price) ==
    /\ MayCall
    /\ calls' = calls + 1
    /\ spent' = spent + price
    /\ outcome' \in {"running", "diagnosis_submitted", "error", "raised"}

\* A call whose provider raised: nothing is billed.
Lose ==
    /\ MayCall
    /\ outcome' = "raised"
    /\ UNCHANGED <<calls, spent>>

StopAtBudget ==
    /\ outcome = "running"
    /\ calls < MaxCalls
    /\ spent >= Budget
    /\ outcome' = "cost_cap"
    /\ UNCHANGED <<calls, spent>>

StopAtLimit ==
    /\ outcome = "running"
    /\ calls = MaxCalls
    /\ outcome' = "max_iterations"
    /\ UNCHANGED <<calls, spent>>

Next ==
    \/ \E price \in Prices : Pay(price)
    \/ Lose
    \/ StopAtBudget
    \/ StopAtLimit

Spec == Init /\ [][Next]_meterVars /\ WF_meterVars(Next)
=============================================================================
