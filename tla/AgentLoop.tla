----------------------------- MODULE AgentLoop -----------------------------
(***************************************************************************)
(* reference_agent.run: the bounded diagnose loop.  Each turn checks the   *)
(* cost cap, awaits one completion, bills it, and then stops on a          *)
(* submit_diagnosis call, gives up on a completion without calls, or       *)
(* dispatches every requested tool and extends the conversation.           *)
(*                                                                         *)
(* The provider and the model are the environment: any completion of       *)
(* Completions may answer a call, or the provider may raise.  An exception *)
(* leaves run(), so the caller never sees the record ("raised").           *)
(***************************************************************************)
EXTENDS ToolSurface, Provider

CONSTANTS
    Model,             \* model
    MaxIterations,     \* max_iterations
    MaxCost,           \* max_cost_usd, in the units of Completion.cost
    Completions,       \* what the model may answer
    Projects,          \* the project trees a run may be pointed at
    FailureClasses,    \* values of the FailureClass enumeration
    Fixes              \* the fix proposals a model may make

ReadFileTool     == "read_file"
ReadManifestTool == "read_manifest_node"
SubmitTool       == "submit_diagnosis"

\* A tool call: arg is a path, a <<unique_id>>, or for submit_diagnosis the pair
\* <<failure_class, proposed_fix>>.  A proposed_fix is NoFix when it is missing
\* or not a dict; BadFix is a dict that lacks the rationale or the diff, and any
\* other ill-formed diagnosis shows as a failure_class outside the enumeration.
NoFix  == "no_fix"
BadFix == "bad_fix"
ToolCall   == [id : STRING, name : STRING, arg : Seq(STRING)]
Completion == [calls : Seq(ToolCall), usage : Tokens, cost : Nat]

WellFormedCall(call) ==
    /\ call.name = SubmitTool =>
          Len(call.arg) = 2 /\ call.arg[2] \in Fixes \union {NoFix, BadFix}
    /\ call.name = ReadManifestTool => Len(call.arg) = 1

ASSUME LoopAssumption ==
    /\ MaxIterations \in Nat
    /\ MaxCost \in Nat
    /\ Completions \subseteq Completion
    /\ \A c \in Completions : \A i \in DOMAIN c.calls : WellFormedCall(c.calls[i])
    /\ \A p \in Projects : ProjectTree(p)
    /\ FailureClasses \subseteq STRING \ {"none"}

\* Completions come from AnthropicProvider.complete, which prices its own.
ASSUME PriceAssumption ==
    \A c \in Completions : c.cost = EstimateCost(Model, c.usage)

VARIABLES
    project,           \* ctx: the tree the tools read, fixed for the run
    pc,                \* "loop" head, "awaiting" the provider, "done", "raised"
    iterN,             \* iter_n of the iteration the loop head is about to start
    messages,          \* the conversation, as roles and tool-use ids
    iterations,        \* run_record.iterations
    totalCost,         \* run_record.total_cost_usd
    totalUsage,        \* run_record.total_token_usage
    diagnosis,         \* run_record.final_diagnosis
    fix,               \* run_record.final_fix
    stopReason         \* run_record.stop_reason

trace == <<iterations, totalCost, totalUsage>>
verdict == <<diagnosis, fix, stopReason>>
vars == <<project, pc, iterN, messages, trace, verdict>>

NoDiagnosis == [class |-> "none", cost |-> 0, usage |-> NoTokens]
StopReasons == {"diagnosis_submitted", "max_iterations", "cost_cap", "error"}

-----------------------------------------------------------------------------
IsSubmit(call) == call.name = SubmitTool
HasSubmit(c) == \E i \in DOMAIN c.calls : IsSubmit(c.calls[i])

\* The arguments of the first submit_diagnosis call; later ones are ignored.
SubmitArgs(c) == c.calls[SelectInSeq(c.calls, IsSubmit)].arg

\* FailureClass(args["failure_class"]) raises on anything else.
AcceptAnyClass(class) == TRUE
ValidClass(class) == class \in FailureClasses

\* The Diagnosis is charged the run's totals, the completion that holds it included.
DiagnosisBeforeBilling(args) ==
    [class |-> args[1], cost |-> totalCost, usage |-> totalUsage]
DiagnosisOf(args) ==
    [class |-> args[1], cost |-> totalCost', usage |-> totalUsage']

\* What the dispatcher makes of one call.
Dispatch(call) ==
    CASE call.name = ReadFileTool     -> ReadFile(project, call.arg)
      [] call.name = ReadManifestTool -> ReadManifestNode(project, call.arg)
      [] OTHER                        -> "error"

ToolsRaise(c) == \E i \in DOMAIN c.calls : Dispatch(c.calls[i]) = "raise"

SuccessfulResults(c) ==
    LET answered == SelectSeq(c.calls, LAMBDA call : Dispatch(call) # "error")
    IN  [i \in DOMAIN answered |-> [id |-> answered[i].id, isError |-> FALSE]]

ToolResults(c) ==
    [i \in DOMAIN c.calls |->
        [id |-> c.calls[i].id, isError |-> Dispatch(c.calls[i]) = "error"]]

Ids(seq) == [i \in DOMAIN seq |-> seq[i].id]

Message(role, ids) == [role |-> role, ids |-> ids]

\* run_record.iterations.append and the totals; tool calls and results are
\* assigned to the iteration only once every tool has answered.
Billed(c, calls, results) ==
    [n |-> iterN, usage |-> c.usage, cost |-> c.cost, calls |-> calls, results |-> results]

BillToolTurnsOnly(c, calls, results) ==
    /\ iterations' = Append(iterations, Billed(c, calls, results))
    /\ IF calls = << >> THEN UNCHANGED <<totalUsage, totalCost>>
       ELSE /\ totalUsage' = AddTokens(totalUsage, c.usage)
            /\ totalCost' = totalCost + c.cost

Bill(c, calls, results) ==
    /\ iterations' = Append(iterations, Billed(c, calls, results))
    /\ totalUsage' = AddTokens(totalUsage, c.usage)
    /\ totalCost' = totalCost + c.cost

Stop(reason) ==
    /\ pc' = "done"
    /\ stopReason' = reason

Raise ==
    /\ pc' = "raised"
    /\ UNCHANGED stopReason

AtMostCap == totalCost <= MaxCost
UnderCap == totalCost < MaxCost

-----------------------------------------------------------------------------
Init ==
    /\ project \in Projects
    /\ pc = "loop"
    /\ iterN = 1
    /\ messages = <<Message("user", << >>)>>
    /\ iterations = << >>
    /\ totalCost = 0
    /\ totalUsage = NoTokens
    /\ diagnosis = NoDiagnosis
    /\ fix = NoFix
    /\ stopReason = "none"

\* The head of the loop: the cap is looked at before a call, never after one.
CallModel ==
    /\ pc = "loop"
    /\ iterN <= MaxIterations
    /\ UnderCap
    /\ pc' = "awaiting"
    /\ UNCHANGED <<project, iterN, messages, trace, verdict>>

HitCostCap ==
    /\ pc = "loop"
    /\ iterN <= MaxIterations
    /\ ~UnderCap
    /\ Stop("cost_cap")
    /\ UNCHANGED <<project, iterN, messages, trace, diagnosis, fix>>

ExhaustAsError ==
    /\ pc = "loop"
    /\ iterN > MaxIterations
    /\ Stop("error")
    /\ UNCHANGED <<project, iterN, messages, trace, diagnosis, fix>>

ExhaustIterations ==
    /\ pc = "loop"
    /\ iterN > MaxIterations
    /\ Stop("max_iterations")
    /\ UNCHANGED <<project, iterN, messages, trace, diagnosis, fix>>

\* The provider raises (LLMError, or ConfigError from an exhausted mock).
RetryProvider ==
    /\ pc = "awaiting"
    /\ pc' = "loop"
    /\ UNCHANGED <<project, iterN, messages, trace, verdict>>

ProviderRaises ==
    /\ pc = "awaiting"
    /\ Raise
    /\ UNCHANGED <<project, iterN, messages, trace, diagnosis, fix>>

\* A submit_diagnosis call ends the run; other calls of the completion are
\* neither dispatched nor recorded.
SubmitDiagnosis(c) ==
    /\ pc = "awaiting"
    /\ HasSubmit(c)
    /\ ValidClass(SubmitArgs(c)[1])
    /\ SubmitArgs(c)[2] # BadFix
    /\ Bill(c, << >>, << >>)
    /\ diagnosis' = DiagnosisOf(SubmitArgs(c))
    /\ fix' = SubmitArgs(c)[2]
    /\ Stop("diagnosis_submitted")
    /\ UNCHANGED <<project, iterN, messages>>

\* An ill-formed diagnosis raises before it is set, an ill-formed fix after.
MalformedSubmit(c) ==
    /\ pc = "awaiting"
    /\ HasSubmit(c)
    /\ Bill(c, << >>, << >>)
    /\ \/ /\ ~ValidClass(SubmitArgs(c)[1])
          /\ UNCHANGED diagnosis
       \/ /\ ValidClass(SubmitArgs(c)[1])
          /\ SubmitArgs(c)[2] = BadFix
          /\ diagnosis' = DiagnosisOf(SubmitArgs(c))
    /\ Raise
    /\ UNCHANGED <<project, iterN, messages, fix>>

GiveUp(c) ==
    /\ pc = "awaiting"
    /\ c.calls = << >>
    /\ Bill(c, << >>, << >>)
    /\ Stop("error")
    /\ UNCHANGED <<project, iterN, messages, diagnosis, fix>>

\* Every call is dispatched in order and answered in the next user turn.
RunTools(c) ==
    /\ pc = "awaiting"
    /\ c.calls # << >>
    /\ ~HasSubmit(c)
    /\ ~ToolsRaise(c)
    /\ Bill(c, c.calls, ToolResults(c))
    /\ messages' = messages \o <<Message("assistant", Ids(c.calls)),
                                 Message("user", Ids(ToolResults(c)))>>
    /\ iterN' = iterN + 1
    /\ pc' = "loop"
    /\ UNCHANGED <<project, verdict>>

\* A tool raises: the iteration is on the record without its calls.
RaiseInTools(c) ==
    /\ pc = "awaiting"
    /\ ~HasSubmit(c)
    /\ ToolsRaise(c)
    /\ Bill(c, << >>, << >>)
    /\ Raise
    /\ UNCHANGED <<project, iterN, messages, diagnosis, fix>>

Receive(c) ==
    \/ SubmitDiagnosis(c)
    \/ MalformedSubmit(c)
    \/ GiveUp(c)
    \/ RunTools(c)
    \/ RaiseInTools(c)

Step ==
    \/ CallModel
    \/ HitCostCap
    \/ ExhaustIterations
    \/ ProviderRaises
    \/ \E c \in Completions : Receive(c)

Finished == pc \in {"done", "raised"}

\* A run that has returned or raised stays as it is.
Over == Finished /\ UNCHANGED vars

Next == Step \/ Over

\* The loop is sequential code, and a provider call returns or raises.
Fairness == WF_vars(Step)

Spec == Init /\ [][Next]_vars /\ Fairness
-----------------------------------------------------------------------------
Iteration == [n : Nat, usage : Tokens, cost : Nat, calls : Seq(ToolCall),
              results : Seq([id : STRING, isError : BOOLEAN])]

\* The type invariant.
TypeOK ==
    /\ project \in Projects
    /\ pc \in {"loop", "awaiting", "done", "raised"}
    /\ iterN \in Nat \ {0}
    /\ messages \in Seq([role : {"user", "assistant"}, ids : Seq(STRING)])
    /\ iterations \in Seq(Iteration)
    /\ totalCost \in Nat
    /\ totalUsage \in Tokens
    /\ diagnosis \in [class : FailureClasses \union {"none"}, cost : Nat, usage : Tokens]
    /\ fix \in Fixes \union {NoFix}
    /\ stopReason \in StopReasons \union {"none"}

\* Whenever the provider is called, and ever after, the conversation is the
\* opening turn followed by one assistant and one user turn per dispatched
\* iteration: each tool_use has exactly its own tool_result in the next turn,
\* in the order of the calls, and nothing the trace does not hold was sent.
ConversationMatchesTrace ==
    /\ Len(messages) = 2 * iterN - 1
    /\ messages[1] = Message("user", << >>)
    /\ Len(iterations) \in {iterN - 1, iterN}
    /\ ~Finished => Len(iterations) = iterN - 1
    /\ \A k \in 1 .. (iterN - 1) :
          /\ iterations[k].n = k
          /\ messages[2 * k] = Message("assistant", Ids(iterations[k].calls))
          /\ messages[2 * k + 1] = Message("user", Ids(iterations[k].results))
          /\ Ids(iterations[k].calls) = Ids(iterations[k].results)

\* Both caps hold where they are meant to: a call is in flight only under
\* them, so the run overshoots max_cost_usd by at most its last call, and the
\* stop reason blames a cap only when that cap was reached.
BudgetHeld ==
    /\ pc = "awaiting" => iterN <= MaxIterations /\ totalCost < MaxCost
    /\ Len(iterations) <= MaxIterations
    /\ iterations # << >> =>
          totalCost - iterations[Len(iterations)].cost < MaxCost
    /\ stopReason = "cost_cap" =>
          totalCost >= MaxCost /\ Len(iterations) < MaxIterations
    /\ stopReason = "max_iterations" => Len(iterations) = MaxIterations

\* What a caller may conclude from stop_reason: it is set exactly when run()
\* returned, a diagnosis comes with "diagnosis_submitted" only and is charged
\* the whole run, and a fix never comes without a diagnosis.
VerdictConsistent ==
    /\ stopReason # "none" <=> pc = "done"
    /\ ~Finished => diagnosis = NoDiagnosis
    /\ pc = "done" => (diagnosis # NoDiagnosis <=> stopReason = "diagnosis_submitted")
    /\ diagnosis # NoDiagnosis =>
          diagnosis.cost = totalCost /\ diagnosis.usage = totalUsage
    /\ fix # NoFix => stopReason = "diagnosis_submitted"

\* The two totals of a record answer to each other and to its trace.  A run
\* never shows a lower cost than its own tokens would be priced at, and exactly
\* that cost unless a call reported more cached tokens than prompt tokens (then
\* max(0, ...) priced that call alone).
CostCoversUsage ==
    /\ totalCost >= EstimateCost(Model, totalUsage)
    /\ (\A k \in DOMAIN iterations :
           iterations[k].usage.cached <= iterations[k].usage.prompt)
       => totalCost = EstimateCost(Model, totalUsage)

\* What one call may be billed: all its tokens at no less than the cache rate
\* and no more than the prompt rate, whichever of the two counts the vendor
\* reported is the larger; a token is never billed twice.
PricedWithinRates ==
    \A k \in DOMAIN iterations :
        LET used == iterations[k].usage
            rate == Pricing[Model]
            sent == IF used.cached <= used.prompt THEN used.prompt ELSE used.cached
            output == rate.completion * used.completion
        IN  Model \in DOMAIN Pricing =>
                /\ rate.cached * sent + output <= iterations[k].cost
                /\ iterations[k].cost <= rate.prompt * sent + output

\* No step rewrites history: a completion that is used is billed and put on
\* the record once, at the end, with the next number; nothing else is billed.
BillingStep ==
    /\ pc = "awaiting" /\ pc' \notin {"awaiting", "raised"} =>
          iterations' # iterations
    /\ IF iterations' = iterations THEN totalCost' = totalCost
       ELSE /\ iterations' = Append(iterations, iterations'[iterN])
            /\ iterations'[iterN].n = iterN
            /\ totalCost' = totalCost + iterations'[iterN].cost
BilledOnce == [][BillingStep]_vars

\* A run ends, however the model behaves and whatever the tools answer.
RunEnds == <>Finished

\* The loop implements the metered run.
outcome == IF pc = "raised" THEN "raised"
           ELSE IF stopReason = "none" THEN "running" ELSE stopReason

Metered == INSTANCE MeteredRun WITH
    MaxCalls <- MaxIterations, Budget <- MaxCost,
    Prices <- {c.cost : c \in Completions},
    calls <- Len(iterations), spent <- totalCost

ImplementsMeteredRun == Metered!Spec

\* The docstring of run(): an AgentRun is returned "regardless of outcome".
ReturnsRegardless == pc # "raised"
=============================================================================
