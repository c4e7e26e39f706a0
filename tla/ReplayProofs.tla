---------------------------- MODULE ReplayProofs ---------------------------
(***************************************************************************)
(* What a replay guarantees for every recording, every model and every     *)
(* tree: the mock never runs dry under caps that fit, and a replay that    *)
(* returns is the recorded run again.                                      *)
(***************************************************************************)
EXTENDS RecordReplay, SequenceTheorems, WellFoundedInduction, TLAPS

-----------------------------------------------------------------------------
(* The inductive invariant.                                                *)

\* A turn that the loop goes on from.
ToolTurn(it) ==
    /\ it.calls # << >>
    /\ \A i \in DOMAIN it.calls : ~Rep!IsSubmit(it.calls[i])

\* f[k] and u[k] are what the first k iterations cost and used.
Ledger(its, f, u) ==
    /\ f \in [0 .. Len(its) -> Nat]
    /\ u \in [0 .. Len(its) -> Rep!Tokens]
    /\ f[0] = 0 /\ u[0] = Rep!NoTokens
    /\ \A k \in 1 .. Len(its) :
          /\ f[k] = f[k - 1] + its[k].cost
          /\ u[k] = Rep!AddTokens(u[k - 1], its[k].usage)

\* The totals of a run add up, and no call was made at or over the cap.
LedgerOf(its, cost, usage, f, u) ==
    /\ Ledger(its, f, u)
    /\ f[Len(its)] = cost /\ u[Len(its)] = usage
    /\ \A k \in 0 .. (Len(its) - 1) : f[k] < RecMaxCost

AddsUp(its, cost, usage) == \E f, u : LedgerOf(its, cost, usage, f, u)

Capped(run) == run.stopReason \in {"cost_cap", "max_iterations"}

\* What record.py may have saved.  Only the last iteration of a run that ended
\* by itself lacks tool calls, and only a submitted run has a verdict.
WellRecorded(run) ==
    LET n == Len(run.iterations)
    IN  /\ run.iterations \in Seq(Rep!Iteration)
        /\ run.stopReason \in Rep!StopReasons
        /\ n <= RecMaxIterations
        /\ AddsUp(run.iterations, run.totalCost, run.totalUsage)
        /\ \A k \in 1 .. (n - 1) : ToolTurn(run.iterations[k])
        /\ IF Capped(run) THEN n > 0 => ToolTurn(run.iterations[n])
           ELSE n > 0 /\ run.iterations[n].calls = << >>
        /\ IF run.stopReason = "diagnosis_submitted"
           THEN /\ run.diagnosis.class \in FailureClasses
                /\ run.diagnosis = [class |-> run.diagnosis.class,
                                    cost |-> run.totalCost, usage |-> run.totalUsage]
                /\ run.fix \in STRING /\ run.fix # Rep!BadFix
           ELSE run.diagnosis = Rep!NoDiagnosis /\ run.fix = Rep!NoFix
        /\ run.stopReason = "cost_cap" => n < RecMaxIterations
        /\ run.stopReason = "max_iterations" => n = RecMaxIterations

Undecided == diagnosis = Rep!NoDiagnosis /\ fix = Rep!NoFix
GoingOn == pc \in {"loop", "awaiting"}

\* While record.py runs.
RecordingInv ==
    phase = "recording" =>
        /\ recording = NoRun /\ queue = << >>
        /\ GoingOn =>
              /\ iterN = Len(iterations) + 1
              /\ iterations \in Seq(Rep!Iteration)
              /\ Len(iterations) <= RecMaxIterations
              /\ \A k \in 1 .. Len(iterations) : ToolTurn(iterations[k])
              /\ AddsUp(iterations, totalCost, totalUsage)
              /\ Undecided
        /\ pc = "awaiting" => Len(iterations) < RecMaxIterations /\ totalCost < RecMaxCost
        /\ pc = "done" => WellRecorded(AgentRun)

SavedInv == phase = "saved" => WellRecorded(recording) /\ queue = << >>

SameTurn(it, recorded) ==
    it.calls = recorded.calls /\ it.usage = recorded.usage /\ it.cost = recorded.cost

\* The replay has done what the first iterations of the recording did, and the
\* mock holds the completions of the others.
Following ==
    LET n == Len(recording.iterations)
        k == Len(iterations)
    IN  /\ k <= n
        /\ \A j \in 1 .. k : SameTurn(iterations[j], recording.iterations[j])
        /\ Len(queue) = n - k
        /\ \A j \in 1 .. Len(queue) : queue[j] = RecordedCompletion(recording, k + j)
        /\ \E f, u :
              /\ LedgerOf(recording.iterations, recording.totalCost, recording.totalUsage, f, u)
              /\ totalCost = f[k] /\ totalUsage = u[k]

\* A replay that was not ended by the recording's own end.
CutShort ==
    /\ Undecided
    /\ Len(iterations) <= RepMaxIterations
    /\ Len(iterations) = Len(recording.iterations) => Capped(recording)

ReplayInv ==
    phase = "replay" =>
        /\ WellRecorded(recording)
        /\ iterations \in Seq(Rep!Iteration)
        /\ queue \in Seq(Rep!Completion)
        /\ incident.hint \in FailureClasses
        /\ pc # "raised" => Following
        /\ GoingOn => iterN = Len(iterations) + 1 /\ CutShort
        /\ pc = "awaiting" => Len(iterations) < RepMaxIterations /\ totalCost < RepMaxCost
        /\ pc = "done" =>
              \/ /\ CutShort
                 /\ stopReason = "cost_cap" => /\ totalCost >= RepMaxCost
                                               /\ Len(iterations) < RepMaxIterations
                 /\ stopReason = "max_iterations" => Len(iterations) = RepMaxIterations
                 /\ stopReason \in {"cost_cap", "max_iterations"}
              \/ /\ Len(iterations) = Len(recording.iterations)
                 /\ diagnosis = recording.diagnosis
                 /\ fix = recording.fix
                 /\ stopReason = recording.stopReason

Phases ==
    /\ phase \in {"recording", "saved", "replay"}
    /\ pc \in {"loop", "awaiting", "done", "raised"}

RRIInv == Phases /\ RecordingInv /\ SavedInv /\ ReplayInv

-----------------------------------------------------------------------------
(* Lemmas on the loop's operators.  Those that do not look at the caps are *)
(* the same for the recording and for the replaying loop.                  *)

LEMMA SameLoop ==
    /\ Rec!Tokens = Rep!Tokens
    /\ Rec!NoTokens = Rep!NoTokens
    /\ Rec!NoDiagnosis = Rep!NoDiagnosis
    /\ Rec!NoFix = Rep!NoFix
    /\ Rec!BadFix = Rep!BadFix
    /\ Rec!StopReasons = Rep!StopReasons
    /\ \A a, b : Rec!AddTokens(a, b) = Rep!AddTokens(a, b)
    /\ \A c, calls, results : Rec!Billed(c, calls, results) = Rep!Billed(c, calls, results)
  BY DEF Rec!Tokens, Rep!Tokens, Rec!NoTokens, Rep!NoTokens, Rec!NoDiagnosis, Rep!NoDiagnosis,
     Rec!NoFix, Rep!NoFix, Rec!BadFix, Rep!BadFix, Rec!StopReasons, Rep!StopReasons,
     Rec!AddTokens, Rep!AddTokens, Rec!Billed, Rep!Billed

LEMMA CompletionType ==
    ASSUME NEW c \in Rep!Completion
    PROVE  /\ c.calls \in Seq(Rep!ToolCall)
           /\ c.cost \in Nat
           /\ c.usage \in Rep!Tokens
           /\ Len(c.calls) \in Nat
           /\ DOMAIN c.calls = 1 .. Len(c.calls)
           /\ \A i \in DOMAIN c.calls : c.calls[i] \in Rep!ToolCall
  <1>1. c.calls \in Seq(Rep!ToolCall) /\ c.cost \in Nat /\ c.usage \in Rep!Tokens
    BY DEF Rep!Completion
  <1>2. Len(c.calls) \in Nat /\ DOMAIN c.calls = 1 .. Len(c.calls)
    BY <1>1, LenProperties
  <1>3. \A i \in DOMAIN c.calls : c.calls[i] \in Rep!ToolCall
    BY <1>1, <1>2, ElementOfSeq
  <1> QED
    BY <1>1, <1>2, <1>3

LEMMA IterationType ==
    ASSUME NEW it \in Rep!Iteration
    PROVE  /\ it.calls \in Seq(Rep!ToolCall)
           /\ it.cost \in Nat
           /\ it.usage \in Rep!Tokens
  BY DEF Rep!Iteration

LEMMA AddTokensType ==
    ASSUME NEW a \in Rep!Tokens, NEW b \in Rep!Tokens
    PROVE  Rep!AddTokens(a, b) \in Rep!Tokens
  <1>1. /\ a.prompt + b.prompt \in Nat
        /\ a.cached + b.cached \in Nat
        /\ a.completion + b.completion \in Nat
    BY DEF Rep!Tokens
  <1> QED
    BY <1>1 DEF Rep!AddTokens, Rep!Tokens

\* The submission a model makes: its fix is a name, ill-formed or not.
LEMMA SubmitArgsType ==
    ASSUME NEW c \in Completions, Rec!HasSubmit(c)
    PROVE  Rec!SubmitArgs(c)[2] \in STRING
  <1> DEFINE I == {i \in 1 .. Len(c.calls) : Rec!IsSubmit(c.calls[i])}
             first == Rec!SelectInSeq(c.calls, Rec!IsSubmit)
  <1>0. c \in Rep!Completion
    BY ReplayAssumption
  <1>1. I # {} /\ I \subseteq Nat
    BY <1>0, CompletionType DEF Rec!HasSubmit
  <1>2. PICK x \in I : \A y \in I : ~(<<y, x>> \in OpToRel(<, Nat))
    BY <1>1, WFMin, NatLessThanWellFounded
  <1>3. \A y \in I : x =< y
    <2>1. TAKE y \in I
    <2>2. x \in Nat /\ y \in Nat
      BY <1>1
    <2>3. ~(y < x)
      BY <1>2, <2>2 DEF OpToRel
    <2> QED
      BY <2>2, <2>3
  <1>4. first = Rec!Min(I)
    BY <1>1 DEF Rec!SelectInSeq
  <1>5. first \in I
    BY <1>3, <1>4 DEF Rec!Min
  <1>6. c.calls[first] \in Rep!ToolCall /\ Rep!WellFormedCall(c.calls[first])
    BY <1>0, <1>5, CompletionType, ReplayAssumption
  <1>7. c.calls[first].arg \in Seq(STRING) /\ Len(c.calls[first].arg) = 2
    BY <1>5, <1>6 DEF Rep!WellFormedCall, Rec!IsSubmit, Rep!ToolCall, Rec!SubmitTool, Rep!SubmitTool
  <1>8. c.calls[first].arg[2] \in STRING
    BY <1>7, ElementOfSeq
  <1> QED
    BY <1>8 DEF Rec!SubmitArgs

\* The only call of a sequence is the one that is found.
LEMMA SubmitArgsOfOne ==
    ASSUME NEW c, NEW call, c.calls = <<call>>, Rep!IsSubmit(call)
    PROVE  Rep!HasSubmit(c) /\ Rep!SubmitArgs(c) = call.arg
  <1> DEFINE I == {i \in 1 .. Len(c.calls) : Rep!IsSubmit(c.calls[i])}
  <1>1. I = {1}
    OBVIOUS
  <1>2. Rep!SelectInSeq(c.calls, Rep!IsSubmit) = Rep!Min(I)
    BY <1>1 DEF Rep!SelectInSeq
  <1>3. Rep!Min(I) = 1
    BY <1>1 DEF Rep!Min
  <1>4. Rep!SubmitArgs(c) = call.arg
    BY <1>2, <1>3 DEF Rep!SubmitArgs
  <1>5. Rep!HasSubmit(c)
    BY DEF Rep!HasSubmit
  <1> QED
    BY <1>4, <1>5

\* A completion with or without the calls and results of its turn is an
\* iteration of the record.
LEMMA BilledType ==
    ASSUME NEW c \in Rep!Completion, iterN \in Nat
    PROVE  /\ Rep!Billed(c, << >>, << >>) \in Rep!Iteration
           /\ Rep!Billed(c, c.calls, Rep!ToolResults(c)) \in Rep!Iteration
           /\ Rep!Billed(c, c.calls, Rec!ToolResults(c)) \in Rep!Iteration
  <1> DEFINE Result == [id : STRING, isError : BOOLEAN]
  <1>1. /\ c.calls \in Seq(Rep!ToolCall) /\ c.cost \in Nat /\ c.usage \in Rep!Tokens
        /\ Len(c.calls) \in Nat
        /\ DOMAIN c.calls = 1 .. Len(c.calls)
        /\ \A i \in 1 .. Len(c.calls) : c.calls[i].id \in STRING
    BY CompletionType DEF Rep!ToolCall
  <1>2. << >> \in Seq(Rep!ToolCall) /\ << >> \in Seq(Result)
    OBVIOUS
  <1>3. Rep!ToolResults(c) \in Seq(Result)
    <2>1. \A i \in 1 .. Len(c.calls) :
             [id |-> c.calls[i].id, isError |-> Rep!Dispatch(c.calls[i]) = "error"] \in Result
      BY <1>1
    <2> HIDE DEF Result
    <2> QED
      BY <1>1, <2>1 DEF Rep!ToolResults
  <1>4. Rec!ToolResults(c) \in Seq(Result)
    <2>1. \A i \in 1 .. Len(c.calls) :
             [id |-> c.calls[i].id, isError |-> Rec!Dispatch(c.calls[i]) = "error"] \in Result
      BY <1>1
    <2> HIDE DEF Result
    <2> QED
      BY <1>1, <2>1 DEF Rec!ToolResults
  <1> QED
    BY <1>1, <1>2, <1>3, <1>4 DEF Rep!Billed, Rep!Iteration

\* A call made under the cap extends the ledger.
LEMMA AddsUpExtends ==
    ASSUME NEW its \in Seq(Rep!Iteration), NEW it \in Rep!Iteration, NEW cost, NEW usage,
           AddsUp(its, cost, usage), cost < RecMaxCost
    PROVE  AddsUp(Append(its, it), cost + it.cost, Rep!AddTokens(usage, it.usage))
  <1> DEFINE n == Len(its)
             more == Append(its, it)
  <1>1. PICK f, u : LedgerOf(its, cost, usage, f, u)
    BY DEF AddsUp
  <1>2. /\ n \in Nat /\ Len(more) = n + 1
        /\ \A k \in 1 .. n : more[k] = its[k]
        /\ more[n + 1] = it
    BY AppendProperties, LenProperties
  <1>3. it.cost \in Nat /\ it.usage \in Rep!Tokens
    BY IterationType
  <1>4. /\ f \in [0 .. n -> Nat] /\ u \in [0 .. n -> Rep!Tokens]
        /\ f[0] = 0 /\ u[0] = Rep!NoTokens
        /\ f[n] = cost /\ u[n] = usage
    BY <1>1 DEF LedgerOf, Ledger
  <1>5. \A k \in 1 .. n : /\ f[k] = f[k - 1] + its[k].cost
                          /\ u[k] = Rep!AddTokens(u[k - 1], its[k].usage)
    BY <1>1 DEF LedgerOf, Ledger
  <1>6. \A k \in 0 .. n : f[k] < RecMaxCost
    <2>1. \A k \in 0 .. (n - 1) : f[k] < RecMaxCost
      BY <1>1 DEF LedgerOf
    <2> QED
      BY <1>2, <1>4, <2>1
  <1> DEFINE g == [k \in 0 .. (n + 1) |-> IF k = n + 1 THEN cost + it.cost ELSE f[k]]
             v == [k \in 0 .. (n + 1) |->
                      IF k = n + 1 THEN Rep!AddTokens(usage, it.usage) ELSE u[k]]
  <1> HIDE DEF more
  <1>7. \A k \in 0 .. n : k # n + 1 /\ k \in 0 .. (n + 1)
    BY <1>2
  <1>8. \A k \in 0 .. n : g[k] = f[k] /\ v[k] = u[k]
    BY <1>7
  <1>9. n + 1 \in 0 .. (n + 1) /\ n \in 0 .. n /\ 0 \in 0 .. n
    BY <1>2
  <1>10. g[n + 1] = cost + it.cost /\ v[n + 1] = Rep!AddTokens(usage, it.usage)
    BY <1>9
  <1>11. \A k \in 0 .. (n + 1) : k = n + 1 \/ k \in 0 .. n
    BY <1>2
  <1>12. g \in [0 .. (n + 1) -> Nat]
    <2>1. cost + it.cost \in Nat
      BY <1>3, <1>4, <1>9
    <2> QED
      BY <1>4, <1>11, <2>1
  <1>13. v \in [0 .. (n + 1) -> Rep!Tokens]
    <2>1. Rep!AddTokens(usage, it.usage) \in Rep!Tokens
      BY <1>3, <1>4, <1>9, AddTokensType
    <2> QED
      BY <1>4, <1>11, <2>1
  <1> HIDE DEF g, v
  <1>14. ASSUME NEW k \in 1 .. (n + 1)
         PROVE  /\ g[k] = g[k - 1] + more[k].cost
                /\ v[k] = Rep!AddTokens(v[k - 1], more[k].usage)
    <2>1. CASE k = n + 1
      <3>1. k - 1 = n
        BY <1>2, <2>1
      <3>2. g[k - 1] = cost /\ v[k - 1] = usage
        BY <1>4, <1>8, <1>9, <3>1
      <3> QED
        BY <1>2, <1>10, <2>1, <3>2
    <2>2. CASE k # n + 1
      <3>1. k \in 1 .. n /\ k \in 0 .. n /\ k - 1 \in 0 .. n
        BY <1>2, <2>2
      <3> QED
        BY <1>2, <1>5, <1>8, <3>1
    <2> QED
      BY <2>1, <2>2
  <1>15. Ledger(more, g, v)
    BY <1>2, <1>4, <1>8, <1>9, <1>12, <1>13, <1>14 DEF Ledger
  <1>16. \A k \in 0 .. (Len(more) - 1) : g[k] < RecMaxCost
    <2>1. Len(more) - 1 = n
      BY <1>2
    <2> QED
      BY <1>6, <1>8, <2>1
  <1>17. LedgerOf(more, cost + it.cost, Rep!AddTokens(usage, it.usage), g, v)
    BY <1>2, <1>10, <1>15, <1>16 DEF LedgerOf
  <1> QED
    BY <1>17 DEF AddsUp, more

-----------------------------------------------------------------------------
(* The recording.                                                          *)

\* A billed completion is on the record, and the record still adds up.
LEMMA RecordingBills ==
    ASSUME RRIInv, phase = "recording", pc = "awaiting",
           NEW c \in Completions, NEW calls, NEW results,
           Rec!Bill(c, calls, results),
           Rep!Billed(c, calls, results) \in Rep!Iteration
    PROVE  /\ iterations' \in Seq(Rep!Iteration)
           /\ Len(iterations) \in Nat
           /\ Len(iterations') = Len(iterations) + 1
           /\ Len(iterations') <= RecMaxIterations
           /\ \A k \in 1 .. Len(iterations) : ToolTurn(iterations'[k])
           /\ iterations'[Len(iterations')].calls = calls
           /\ AddsUp(iterations', totalCost', totalUsage')
  <1> DEFINE it == Rep!Billed(c, calls, results)
  <1>1. /\ iterations \in Seq(Rep!Iteration)
        /\ Len(iterations) < RecMaxIterations /\ totalCost < RecMaxCost
        /\ \A k \in 1 .. Len(iterations) : ToolTurn(iterations[k])
        /\ AddsUp(iterations, totalCost, totalUsage)
    BY DEF RRIInv, RecordingInv, GoingOn
  <1>2. /\ iterations' = Append(iterations, it)
        /\ totalCost' = totalCost + it.cost
        /\ totalUsage' = Rep!AddTokens(totalUsage, it.usage)
        /\ it.calls = calls
    BY SameLoop DEF Rec!Bill, Rep!Billed
  <1> HIDE DEF it
  <1>3. it \in Rep!Iteration
    BY DEF it
  <1>4. /\ iterations' \in Seq(Rep!Iteration)
        /\ Len(iterations') = Len(iterations) + 1
        /\ \A k \in 1 .. Len(iterations) : iterations'[k] = iterations[k]
        /\ iterations'[Len(iterations) + 1] = it
    BY <1>1, <1>2, <1>3, AppendProperties
  <1>5. AddsUp(iterations', totalCost', totalUsage')
    BY <1>1, <1>2, <1>3, AddsUpExtends
  <1>6. Len(iterations) \in Nat /\ RecMaxIterations \in Nat
    BY <1>1, LenProperties, ReplayAssumption
  <1> QED
    BY <1>1, <1>2, <1>4, <1>5, <1>6

\* A completion that ends the recording.
LEMMA RecordingEnds ==
    ASSUME RRIInv, phase = "recording", NEW c \in Completions,
           Rec!SubmitDiagnosis(c) \/ Rec!MalformedSubmit(c) \/ Rec!GiveUp(c)
             \/ Rec!RaiseInTools(c),
           UNCHANGED <<phase, recording, queue, incident>>
    PROVE  RRIInv'
  <1>1. pc = "awaiting" /\ Rec!Bill(c, << >>, << >>) /\ pc' \in {"done", "raised"}
    BY DEF Rec!SubmitDiagnosis, Rec!MalformedSubmit, Rec!GiveUp, Rec!RaiseInTools,
       Rec!Stop, Rec!Raise
  <1>2. recording = NoRun /\ queue = << >> /\ iterN \in Nat /\ Undecided
    <2>1. /\ recording = NoRun /\ queue = << >> /\ Undecided
          /\ iterN = Len(iterations) + 1
          /\ iterations \in Seq(Rep!Iteration)
      BY <1>1 DEF RRIInv, RecordingInv, GoingOn
    <2>2. Len(iterations) \in Nat
      BY <2>1, LenProperties
    <2> QED
      BY <2>1, <2>2
  <1>3. /\ iterations' \in Seq(Rep!Iteration)
        /\ Len(iterations) \in Nat
        /\ Len(iterations') = Len(iterations) + 1
        /\ Len(iterations') <= RecMaxIterations
        /\ \A k \in 1 .. Len(iterations) : ToolTurn(iterations'[k])
        /\ iterations'[Len(iterations')].calls = << >>
        /\ AddsUp(iterations', totalCost', totalUsage')
    <2>1. Rep!Billed(c, << >>, << >>) \in Rep!Iteration
      BY <1>2, BilledType, ReplayAssumption
    <2> QED
      BY <1>1, <2>1, RecordingBills
  <1> DEFINE run == AgentRun'
  <1>4. /\ run.iterations = iterations' /\ run.totalCost = totalCost'
        /\ run.totalUsage = totalUsage' /\ run.diagnosis = diagnosis'
        /\ run.fix = fix' /\ run.stopReason = stopReason'
    BY DEF AgentRun
  <1> HIDE DEF run
  <1>5. ASSUME pc' = "done" PROVE WellRecorded(run)
    <2>1. CASE Rec!SubmitDiagnosis(c)
      <3>1. stopReason' = "diagnosis_submitted"
        BY <2>1 DEF Rec!SubmitDiagnosis, Rec!Stop
      <3>2. /\ diagnosis' = [class |-> Rec!SubmitArgs(c)[1],
                             cost |-> totalCost', usage |-> totalUsage']
            /\ Rec!SubmitArgs(c)[1] \in FailureClasses
        BY <2>1 DEF Rec!SubmitDiagnosis, Rec!DiagnosisOf, Rec!ValidClass
      <3>3. diagnosis'.class = Rec!SubmitArgs(c)[1]
        BY <3>2
      <3>4. fix' \in STRING /\ fix' # Rep!BadFix
        BY <2>1, SubmitArgsType, SameLoop DEF Rec!SubmitDiagnosis
      <3> QED
        BY <1>3, <1>4, <3>1, <3>2, <3>3, <3>4 DEF WellRecorded, Capped, Rep!StopReasons
    <2>2. CASE Rec!GiveUp(c)
      <3>1. /\ stopReason' = "error"
            /\ diagnosis' = Rep!NoDiagnosis /\ fix' = Rep!NoFix
        BY <1>2, <2>2 DEF Rec!GiveUp, Rec!Stop, Undecided
      <3> QED
        BY <1>3, <1>4, <3>1 DEF WellRecorded, Capped, Rep!StopReasons
    <2>3. CASE Rec!MalformedSubmit(c) \/ Rec!RaiseInTools(c)
      BY <1>5, <2>3 DEF Rec!MalformedSubmit, Rec!RaiseInTools, Rec!Raise
    <2> QED
      BY <2>1, <2>2, <2>3
  <1>6. Phases'
    BY <1>1 DEF RRIInv, Phases
  <1>7. RecordingInv'
    BY <1>1, <1>2, <1>5 DEF RecordingInv, GoingOn, NoRun, run
  <1>8. SavedInv' /\ ReplayInv'
    BY DEF SavedInv, ReplayInv
  <1> QED
    BY <1>6, <1>7, <1>8 DEF RRIInv

\* A completion whose tools the recording ran.
LEMMA RecordingGoesOn ==
    ASSUME RRIInv, phase = "recording", NEW c \in Completions, Rec!RunTools(c),
           UNCHANGED <<phase, recording, queue, incident>>
    PROVE  RRIInv'
  <1>1. /\ pc = "awaiting" /\ pc' = "loop"
        /\ Rec!Bill(c, c.calls, Rec!ToolResults(c))
        /\ iterN' = iterN + 1
        /\ UNCHANGED <<diagnosis, fix>>
        /\ c.calls # << >>
    BY DEF Rec!RunTools, Rec!verdict
  <1>2. /\ recording = NoRun /\ queue = << >> /\ Undecided
        /\ iterN = Len(iterations) + 1
        /\ iterations \in Seq(Rep!Iteration)
        /\ \A k \in 1 .. Len(iterations) : ToolTurn(iterations[k])
    BY <1>1 DEF RRIInv, RecordingInv, GoingOn
  <1>3. iterN \in Nat
    BY <1>2, LenProperties
  <1>4. /\ iterations' \in Seq(Rep!Iteration)
        /\ Len(iterations) \in Nat
        /\ Len(iterations') = Len(iterations) + 1
        /\ Len(iterations') <= RecMaxIterations
        /\ \A k \in 1 .. Len(iterations) : ToolTurn(iterations'[k])
        /\ iterations'[Len(iterations')].calls = c.calls
        /\ AddsUp(iterations', totalCost', totalUsage')
    <2>1. Rep!Billed(c, c.calls, Rec!ToolResults(c)) \in Rep!Iteration
      BY <1>3, BilledType, ReplayAssumption
    <2> QED
      BY <1>1, <2>1, RecordingBills
  <1>5. \A i \in DOMAIN c.calls : ~Rep!IsSubmit(c.calls[i])
    BY DEF Rec!RunTools, Rec!HasSubmit, Rec!IsSubmit, Rep!IsSubmit,
       Rec!SubmitTool, Rep!SubmitTool
  <1>6. \A k \in 1 .. Len(iterations') : ToolTurn(iterations'[k])
    <2>1. TAKE k \in 1 .. Len(iterations')
    <2>2. CASE k = Len(iterations')
      BY <1>1, <1>4, <1>5, <2>2 DEF ToolTurn
    <2>3. CASE k # Len(iterations')
      <3>1. k \in 1 .. Len(iterations)
        BY <1>4, <2>3
      <3> QED
        BY <1>4, <3>1
    <2> QED
      BY <2>2, <2>3
  <1>7. iterN' = Len(iterations') + 1
    BY <1>1, <1>2, <1>4
  <1>8. Phases'
    BY <1>1 DEF RRIInv, Phases
  <1>9. RecordingInv'
    BY <1>1, <1>2, <1>4, <1>6, <1>7 DEF RecordingInv, GoingOn, NoRun, Undecided
  <1>10. SavedInv' /\ ReplayInv'
    BY DEF SavedInv, ReplayInv
  <1> QED
    BY <1>8, <1>9, <1>10 DEF RRIInv

\* The head of the recording loop, and a provider that raises.
LEMMA RecordingHead ==
    ASSUME RRIInv, phase = "recording",
           Rec!CallModel \/ Rec!HitCostCap \/ Rec!ExhaustIterations \/ Rec!ProviderRaises,
           UNCHANGED <<phase, recording, queue, incident>>
    PROVE  RRIInv'
  <1>1. /\ GoingOn
        /\ UNCHANGED <<iterN, iterations, totalCost, totalUsage, diagnosis, fix>>
        /\ pc' \in {"awaiting", "done", "raised"}
    BY DEF Rec!CallModel, Rec!HitCostCap, Rec!ExhaustIterations, Rec!ProviderRaises, Rec!Stop,
       Rec!Raise, Rec!trace, Rec!verdict, GoingOn
  <1>2. /\ recording = NoRun /\ queue = << >> /\ Undecided
        /\ iterN = Len(iterations) + 1
        /\ iterations \in Seq(Rep!Iteration)
        /\ Len(iterations) <= RecMaxIterations
        /\ \A k \in 1 .. Len(iterations) : ToolTurn(iterations[k])
        /\ AddsUp(iterations, totalCost, totalUsage)
    BY <1>1 DEF RRIInv, RecordingInv
  <1>3. Len(iterations) \in Nat /\ RecMaxIterations \in Nat
    BY <1>2, LenProperties, ReplayAssumption
  <1>4. pc' = "awaiting" => Len(iterations) < RecMaxIterations /\ totalCost < RecMaxCost
    BY <1>2, <1>3 DEF Rec!CallModel, Rec!HitCostCap, Rec!ExhaustIterations, Rec!ProviderRaises,
       Rec!Stop, Rec!Raise, Rec!UnderCap
  <1> DEFINE run == AgentRun'
  <1>5. /\ run.iterations = iterations /\ run.totalCost = totalCost
        /\ run.totalUsage = totalUsage /\ run.diagnosis = diagnosis
        /\ run.fix = fix /\ run.stopReason = stopReason'
    BY <1>1 DEF AgentRun
  <1> HIDE DEF run
  <1>6. ASSUME pc' = "done" PROVE WellRecorded(run)
    <2>1. \/ stopReason' = "cost_cap" /\ Len(iterations) < RecMaxIterations
          \/ stopReason' = "max_iterations" /\ Len(iterations) = RecMaxIterations
      BY <1>2, <1>3, <1>6 DEF Rec!CallModel, Rec!HitCostCap, Rec!ExhaustIterations,
         Rec!ProviderRaises, Rec!Stop, Rec!Raise
    <2>2. \A k \in 1 .. (Len(iterations) - 1) : ToolTurn(iterations[k])
      BY <1>2, <1>3
    <2>3. Len(iterations) > 0 => ToolTurn(iterations[Len(iterations)])
      BY <1>2, <1>3
    <2> QED
      BY <1>2, <1>5, <2>1, <2>2, <2>3 DEF WellRecorded, Capped, Undecided, Rep!StopReasons
  <1>7. Phases'
    BY <1>1 DEF RRIInv, Phases
  <1>8. RecordingInv'
    BY <1>1, <1>2, <1>4, <1>6 DEF RecordingInv, GoingOn, NoRun, Undecided, run
  <1>9. SavedInv' /\ ReplayInv'
    BY DEF SavedInv, ReplayInv
  <1> QED
    BY <1>7, <1>8, <1>9 DEF RRIInv

-----------------------------------------------------------------------------
(* From the saved run to its replay.                                       *)

LEMMA InitRRIInv == RRInit => RRIInv
  <1> SUFFICES ASSUME RRInit PROVE RRIInv
    OBVIOUS
  <1>1. /\ pc = "loop" /\ iterN = 1 /\ iterations = << >>
        /\ totalCost = 0 /\ totalUsage = Rep!NoTokens /\ Undecided
        /\ phase = "recording" /\ recording = NoRun /\ queue = << >>
    BY SameLoop DEF RRInit, Rec!Init, Undecided
  <1>2. AddsUp(iterations, totalCost, totalUsage)
    <2> DEFINE f == [k \in 0 .. 0 |-> 0]
               u == [k \in 0 .. 0 |-> Rep!NoTokens]
    <2>1. Rep!NoTokens \in Rep!Tokens
      BY DEF Rep!NoTokens, Rep!Tokens
    <2>2. Ledger(<< >>, f, u)
      BY <2>1 DEF Ledger
    <2>3. LedgerOf(<< >>, 0, Rep!NoTokens, f, u)
      BY <2>2 DEF LedgerOf
    <2> QED
      BY <1>1, <2>3 DEF AddsUp
  <1>3. RecordingInv
    BY <1>1, <1>2, ReplayAssumption DEF RecordingInv, GoingOn
  <1> QED
    BY <1>1, <1>3 DEF RRIInv, Phases, SavedInv, ReplayInv

LEMMA SaveKeepsRRIInv == RRIInv /\ Save => RRIInv'
  <1> SUFFICES ASSUME RRIInv, Save PROVE RRIInv'
    OBVIOUS
  <1>1. /\ WellRecorded(AgentRun) /\ queue = << >>
        /\ recording' = AgentRun /\ queue' = queue /\ pc' = pc
        /\ phase' = "saved"
    BY DEF RRIInv, RecordingInv, Save, loop
  <1> QED
    BY <1>1 DEF RRIInv, Phases, RecordingInv, SavedInv, ReplayInv

\* What the mock is handed: as many completions as were recorded, of the right
\* types.
LEMMA CompletionsType ==
    ASSUME NEW run, WellRecorded(run)
    PROVE  /\ CompletionsFromRun(run) \in Seq(Rep!Completion)
           /\ Len(CompletionsFromRun(run)) = Len(run.iterations)
           /\ \A k \in 1 .. Len(run.iterations) :
                 CompletionsFromRun(run)[k] = RecordedCompletion(run, k)
  <1> DEFINE n == Len(run.iterations)
  <1>1. /\ run.iterations \in Seq(Rep!Iteration)
        /\ n \in Nat /\ DOMAIN run.iterations = 1 .. n
        /\ \A k \in 1 .. n : run.iterations[k] \in Rep!Iteration
    BY LenProperties, ElementOfSeq DEF WellRecorded
  <1>2. ASSUME NEW k \in 1 .. n
        PROVE  RecordedCompletion(run, k) \in Rep!Completion
    <2> DEFINE it == run.iterations[k]
    <2>1. /\ it.calls \in Seq(Rep!ToolCall) /\ it.cost \in Nat /\ it.usage \in Rep!Tokens
      BY <1>1, IterationType
    <2> HIDE DEF it
    <2>2. ASSUME k = n, Diagnosed(run) PROVE TerminalBlock(run) \in Rep!ToolCall
      <3>1. run.diagnosis.class \in STRING /\ run.fix \in STRING
        BY <2>2, ReplayAssumption DEF WellRecorded, Diagnosed
      <3> DEFINE arg == <<run.diagnosis.class, run.fix>>
      <3>2. arg \in Seq(STRING)
        BY <3>1
      <3>3. TerminalBlock(run) = [id |-> ReplayId, name |-> Rep!SubmitTool, arg |-> arg]
        BY DEF TerminalBlock
      <3>4. ReplayId \in STRING /\ Rep!SubmitTool \in STRING
        BY ReplayAssumption
      <3> HIDE DEF arg
      <3> QED
        BY <3>2, <3>3, <3>4 DEF Rep!ToolCall
    <2>3. RecordedCalls(run, k) \in Seq(Rep!ToolCall)
      BY <2>1, <2>2, AppendProperties DEF RecordedCalls, it
    <2> QED
      BY <2>1, <2>3 DEF RecordedCompletion, Rep!Completion, it
  <1> QED
    BY <1>1, <1>2 DEF CompletionsFromRun

LEMMA StartKeepsRRIInv == RRIInv /\ StartReplay => RRIInv'
  <1> SUFFICES ASSUME RRIInv, StartReplay PROVE RRIInv'
    OBVIOUS
  <1> DEFINE n == Len(recording.iterations)
  <1>1. /\ WellRecorded(recording) /\ recording' = recording
        /\ queue' = CompletionsFromRun(recording)
        /\ incident' = IncidentFromRecording(recording)
        /\ phase' = "replay" /\ pc' = "loop" /\ iterN' = 1 /\ iterations' = << >>
        /\ totalCost' = 0 /\ totalUsage' = Rep!NoTokens
        /\ diagnosis' = Rep!NoDiagnosis /\ fix' = Rep!NoFix
    BY DEF RRIInv, SavedInv, StartReplay, Restart
  <1>2. /\ queue' \in Seq(Rep!Completion) /\ Len(queue') = n
        /\ \A k \in 1 .. n : queue'[k] = RecordedCompletion(recording, k)
    BY <1>1, CompletionsType
  <1>3. incident'.hint \in FailureClasses
    <2>1. Diagnosed(recording) => recording.diagnosis.class \in FailureClasses
      BY <1>1 DEF WellRecorded, Diagnosed
    <2> QED
      BY <1>1, <2>1, ReplayAssumption DEF IncidentFromRecording
  <1>4. n \in Nat
    BY <1>1, LenProperties DEF WellRecorded
  <1>5. Len(iterations') = 0
    BY <1>1
  <1>6. Following'
    <2>1. PICK f, u :
             LedgerOf(recording.iterations, recording.totalCost, recording.totalUsage, f, u)
      BY <1>1 DEF WellRecorded, AddsUp
    <2>2. totalCost' = f[0] /\ totalUsage' = u[0]
      BY <1>1, <2>1 DEF LedgerOf, Ledger
    <2>3. \E g, v :
             /\ LedgerOf(recording'.iterations, recording'.totalCost, recording'.totalUsage, g, v)
             /\ totalCost' = g[Len(iterations')] /\ totalUsage' = v[Len(iterations')]
      BY <1>1, <1>5, <2>1, <2>2
    <2>4. \A j \in 1 .. Len(queue') : queue'[j] = RecordedCompletion(recording', 0 + j)
      BY <1>1, <1>2
    <2> QED
      BY <1>1, <1>2, <1>4, <1>5, <2>3, <2>4 DEF Following
  <1>7. CutShort'
    <2>1. n = 0 => Capped(recording)
      BY <1>1 DEF WellRecorded
    <2> QED
      BY <1>1, <1>5, <2>1, ReplayAssumption DEF CutShort, Undecided
  <1>8. ReplayInv'
    BY <1>1, <1>2, <1>3, <1>5, <1>6, <1>7 DEF ReplayInv, GoingOn
  <1> QED
    BY <1>1, <1>8 DEF RRIInv, Phases, RecordingInv, SavedInv

-----------------------------------------------------------------------------
(* The replay.                                                             *)

LEMMA HeadKeepsRRIInv == RRIInv /\ ReplayHead => RRIInv'
  <1> SUFFICES ASSUME RRIInv, ReplayHead PROVE RRIInv'
    OBVIOUS
  <1>1. /\ phase = "replay" /\ pc = "loop" /\ pc' \in {"awaiting", "done"}
        /\ UNCHANGED <<iterN, iterations, totalCost, totalUsage, diagnosis, fix,
                       phase, recording, queue, incident>>
    BY DEF ReplayHead, Rep!CallModel, Rep!HitCostCap, Rep!ExhaustIterations, Rep!Stop,
       Rep!trace, Rep!verdict
  <1>2. /\ WellRecorded(recording) /\ Following /\ CutShort
        /\ iterations \in Seq(Rep!Iteration)
        /\ queue \in Seq(Rep!Completion)
        /\ incident.hint \in FailureClasses
        /\ iterN = Len(iterations) + 1
    BY <1>1 DEF RRIInv, ReplayInv, GoingOn
  <1>3. /\ Len(iterations) \in Nat /\ RepMaxIterations \in Nat
        /\ Len(iterations) <= RepMaxIterations
        /\ RepMaxCost \in Nat
    BY <1>2, LenProperties, ReplayAssumption DEF CutShort
  <1>4. totalCost \in Nat
    <2>1. PICK f, u :
             /\ LedgerOf(recording.iterations, recording.totalCost, recording.totalUsage, f, u)
             /\ totalCost = f[Len(iterations)]
      BY <1>2 DEF Following
    <2>2. Len(iterations) \in 0 .. Len(recording.iterations)
      <3>1. recording.iterations \in Seq(Rep!Iteration)
        BY <1>2 DEF WellRecorded
      <3>2. Len(recording.iterations) \in Nat
        BY <3>1, LenProperties
      <3> QED
        BY <1>2, <1>3, <3>2 DEF Following
    <2> QED
      BY <2>1, <2>2 DEF LedgerOf, Ledger
  <1>5. /\ Following' /\ CutShort'
    BY <1>1, <1>2 DEF Following, CutShort, Undecided
  <1>6. pc' = "awaiting" => Len(iterations) < RepMaxIterations /\ totalCost < RepMaxCost
    BY <1>2, <1>3 DEF ReplayHead, Rep!CallModel, Rep!HitCostCap, Rep!ExhaustIterations,
       Rep!Stop, Rep!UnderCap
  <1>7. pc' = "done" =>
           \/ /\ stopReason' = "cost_cap"
              /\ totalCost >= RepMaxCost /\ Len(iterations) < RepMaxIterations
           \/ stopReason' = "max_iterations" /\ Len(iterations) = RepMaxIterations
    BY <1>2, <1>3, <1>4 DEF ReplayHead, Rep!CallModel, Rep!HitCostCap, Rep!ExhaustIterations,
       Rep!Stop, Rep!UnderCap
  <1>8. ReplayInv'
    BY <1>1, <1>2, <1>5, <1>6, <1>7 DEF ReplayInv, GoingOn
  <1> QED
    BY <1>1, <1>8 DEF RRIInv, Phases, RecordingInv, SavedInv

\* A provider that raises takes the run with it.
LEMMA ExhaustedKeepsRRIInv == RRIInv /\ Exhausted => RRIInv'
  <1> SUFFICES ASSUME RRIInv, Exhausted PROVE RRIInv'
    OBVIOUS
  <1>1. /\ phase = "replay" /\ pc' = "raised"
        /\ UNCHANGED <<iterations, phase, recording, queue, incident>>
    BY DEF Exhausted, Rep!ProviderRaises, Rep!Raise, Rep!trace
  <1> QED
    BY <1>1 DEF RRIInv, Phases, RecordingInv, SavedInv, ReplayInv, GoingOn

\* The completion the mock hands out next is that of the next iteration: tools
\* again, the rebuilt submission, or nothing at all.
LEMMA NextCompletion ==
    ASSUME WellRecorded(recording), Following, queue # << >>,
           queue \in Seq(Rep!Completion), iterations \in Seq(Rep!Iteration)
    PROVE  LET n == Len(recording.iterations)
               k == Len(iterations) + 1
               c == Head(queue)
               it == recording.iterations[k]
           IN  /\ k \in 1 .. n
               /\ n \in Nat
               /\ c \in Rep!Completion
               /\ c.cost = it.cost /\ c.usage = it.usage
               /\ \/ /\ ToolTurn(it) /\ c.calls = it.calls
                     /\ k = n => Capped(recording)
                  \/ /\ k = n /\ it.calls = << >>
                     /\ recording.stopReason = "diagnosis_submitted"
                     /\ c.calls = <<TerminalBlock(recording)>>
                  \/ /\ k = n /\ it.calls = << >> /\ c.calls = << >>
                     /\ recording.stopReason = "error"
  <1> DEFINE n == Len(recording.iterations)
             k == Len(iterations) + 1
             it == recording.iterations[k]
  <1>1. /\ recording.iterations \in Seq(Rep!Iteration)
        /\ n \in Nat /\ Len(iterations) \in Nat /\ Len(queue) \in Nat \ {0}
    BY LenProperties, EmptySeq DEF WellRecorded
  <1>2. Len(queue) = n - Len(iterations)
    BY DEF Following
  <1>3. k \in 1 .. n
    BY <1>1, <1>2
  <1>4. Head(queue) = queue[1] /\ Head(queue) \in Rep!Completion
    BY HeadTailProperties
  <1>5. Head(queue) = RecordedCompletion(recording, k)
    <2>1. queue[1] = RecordedCompletion(recording, Len(iterations) + 1)
      BY <1>1 DEF Following
    <2> QED
      BY <1>4, <2>1
  <1>6. /\ Head(queue).cost = it.cost /\ Head(queue).usage = it.usage
        /\ Head(queue).calls = RecordedCalls(recording, k)
    BY <1>5 DEF RecordedCompletion
  <1>7. CASE k # n
    <2>1. k \in 1 .. (n - 1)
      BY <1>1, <1>3, <1>7
    <2>2. ToolTurn(it)
      BY <2>1 DEF WellRecorded
    <2>3. RecordedCalls(recording, k) = it.calls
      BY <1>7 DEF RecordedCalls
    <2> QED
      BY <1>1, <1>3, <1>4, <1>6, <1>7, <2>2, <2>3
  <1>8. CASE k = n /\ Capped(recording)
    <2>1. ToolTurn(it)
      BY <1>1, <1>3, <1>8 DEF WellRecorded
    <2>2. ~Diagnosed(recording)
      BY <1>8 DEF WellRecorded, Capped, Diagnosed
    <2>3. RecordedCalls(recording, k) = it.calls
      BY <2>2 DEF RecordedCalls
    <2> QED
      BY <1>1, <1>3, <1>4, <1>6, <1>8, <2>1, <2>3
  <1>9. CASE k = n /\ ~Capped(recording)
    <2>1. it.calls = << >>
      BY <1>9 DEF WellRecorded
    <2>2. recording.stopReason \in {"diagnosis_submitted", "error"}
      BY <1>9 DEF WellRecorded, Capped, Rep!StopReasons
    <2>3. CASE recording.stopReason = "diagnosis_submitted"
      <3>1. recording.diagnosis.class # "none"
        BY <2>3, ReplayAssumption DEF WellRecorded
      <3>2. Diagnosed(recording)
        BY <3>1 DEF Diagnosed, Rep!NoDiagnosis
      <3>3. RecordedCalls(recording, k) = Append(it.calls, TerminalBlock(recording))
        BY <1>9, <2>1, <3>2 DEF RecordedCalls
      <3>4. Append(<< >>, TerminalBlock(recording)) = <<TerminalBlock(recording)>>
        OBVIOUS
      <3>5. Head(queue).calls = <<TerminalBlock(recording)>>
        BY <1>6, <2>1, <3>3, <3>4
      <3> QED
        BY <1>1, <1>3, <1>4, <1>6, <1>9, <2>1, <2>3, <3>5
    <2>4. CASE recording.stopReason = "error"
      <3>1. ~Diagnosed(recording)
        BY <2>4 DEF WellRecorded, Diagnosed
      <3>2. Head(queue).calls = << >>
        BY <1>6, <2>1, <3>1 DEF RecordedCalls
      <3> QED
        BY <1>1, <1>3, <1>4, <1>6, <1>9, <2>1, <2>4, <3>2
    <2> QED
      BY <2>2, <2>3, <2>4
  <1> QED
    BY <1>7, <1>8, <1>9

\* A completion that is billed as its recorded turn was keeps the replay on
\* the recording's track.
LEMMA DeliverBills ==
    ASSUME WellRecorded(recording), Following, queue # << >>,
           queue \in Seq(Rep!Completion), iterations \in Seq(Rep!Iteration),
           NEW calls, NEW results,
           Rep!Bill(Head(queue), calls, results),
           Rep!Billed(Head(queue), calls, results) \in Rep!Iteration,
           queue' = Tail(queue), recording' = recording
    PROVE  /\ iterations' \in Seq(Rep!Iteration)
           /\ queue' \in Seq(Rep!Completion)
           /\ Len(iterations') = Len(iterations) + 1
           /\ calls = recording.iterations[Len(iterations) + 1].calls => Following'
  <1> DEFINE n == Len(recording.iterations)
             k == Len(iterations) + 1
             it == Rep!Billed(Head(queue), calls, results)
             recorded == recording.iterations[k]
  <1>1. /\ k \in 1 .. n /\ n \in Nat
        /\ Head(queue).cost = recorded.cost /\ Head(queue).usage = recorded.usage
    BY NextCompletion
  <1>2. /\ iterations' = Append(iterations, it)
        /\ totalCost' = totalCost + recorded.cost
        /\ totalUsage' = Rep!AddTokens(totalUsage, recorded.usage)
        /\ it.calls = calls /\ it.cost = recorded.cost /\ it.usage = recorded.usage
    BY <1>1 DEF Rep!Bill, Rep!Billed
  <1> HIDE DEF it, recorded
  <1>3. it \in Rep!Iteration
    BY DEF it
  <1>4. /\ iterations' \in Seq(Rep!Iteration)
        /\ Len(iterations') = k
        /\ \A j \in 1 .. (k - 1) : iterations'[j] = iterations[j]
        /\ iterations'[k] = it
        /\ Len(iterations) \in Nat
    <2>1. Len(iterations) \in Nat
      BY LenProperties
    <2>2. /\ iterations' \in Seq(Rep!Iteration)
          /\ Len(iterations') = k
          /\ \A j \in 1 .. Len(iterations) : iterations'[j] = iterations[j]
          /\ iterations'[k] = it
      BY <1>2, <1>3, AppendProperties
    <2> QED
      BY <2>1, <2>2
  <1>5. /\ queue' \in Seq(Rep!Completion)
        /\ Len(queue') = Len(queue) - 1
        /\ \A j \in 1 .. Len(queue') : queue'[j] = queue[j + 1]
        /\ Len(queue) \in Nat
    BY HeadTailProperties, LenProperties
  <1>6. ASSUME calls = recorded.calls PROVE Following'
    <2>1. \A j \in 1 .. k : SameTurn(iterations'[j], recording.iterations[j])
      <3>1. TAKE j \in 1 .. k
      <3>2. CASE j = k
        BY <1>2, <1>4, <1>6, <3>2 DEF SameTurn, recorded
      <3>3. CASE j # k
        <4>1. j \in 1 .. (k - 1) /\ j \in 1 .. Len(iterations)
          BY <1>4, <3>3
        <4>2. SameTurn(iterations[j], recording.iterations[j])
          BY <4>1 DEF Following
        <4> QED
          BY <1>4, <4>1, <4>2
      <3> QED
        BY <3>2, <3>3
    <2>2. Len(queue') = n - k
      <3>1. Len(queue) = n - Len(iterations)
        BY DEF Following
      <3> QED
        BY <1>1, <1>4, <1>5, <3>1
    <2>3. \A j \in 1 .. Len(queue') : queue'[j] = RecordedCompletion(recording, k + j)
      <3>1. TAKE j \in 1 .. Len(queue')
      <3>2. j + 1 \in 1 .. Len(queue) /\ Len(iterations) + (j + 1) = k + j
        BY <1>4, <1>5
      <3>3. queue[j + 1] = RecordedCompletion(recording, Len(iterations) + (j + 1))
        BY <3>2 DEF Following
      <3> QED
        BY <1>5, <3>2, <3>3
    <2>4. PICK f, u :
             /\ LedgerOf(recording.iterations, recording.totalCost, recording.totalUsage, f, u)
             /\ totalCost = f[Len(iterations)] /\ totalUsage = u[Len(iterations)]
      BY DEF Following
    <2>5. totalCost' = f[k] /\ totalUsage' = u[k]
      <3>1. f[k] = f[k - 1] + recorded.cost /\ u[k] = Rep!AddTokens(u[k - 1], recorded.usage)
        BY <1>1, <2>4 DEF LedgerOf, Ledger, recorded
      <3>2. k - 1 = Len(iterations)
        BY <1>4
      <3> QED
        BY <1>2, <2>4, <3>1, <3>2
    <2>6. k <= n
      BY <1>1
    <2>7. recording' = recording
      OBVIOUS
    <2> QED
      BY <1>4, <2>1, <2>2, <2>3, <2>4, <2>5, <2>6, <2>7 DEF Following
  <1> QED
    BY <1>4, <1>5, <1>6 DEF recorded

LEMMA DeliverKeepsRRIInv == RRIInv /\ Deliver => RRIInv'
  <1> SUFFICES ASSUME RRIInv, Deliver PROVE RRIInv'
    OBVIOUS
  <1> DEFINE c == Head(queue)
             n == Len(recording.iterations)
             k == Len(iterations) + 1
             it == recording.iterations[k]
  <1>1. /\ phase = "replay" /\ queue # << >> /\ Rep!Receive(c) /\ pc = "awaiting"
        /\ queue' = Tail(queue) /\ phase' = phase /\ recording' = recording
        /\ incident' = incident
    BY DEF Deliver, Rep!Receive, Rep!SubmitDiagnosis, Rep!MalformedSubmit, Rep!GiveUp,
       Rep!RunTools, Rep!RaiseInTools
  <1>2. /\ WellRecorded(recording) /\ Following /\ CutShort
        /\ iterations \in Seq(Rep!Iteration) /\ queue \in Seq(Rep!Completion)
        /\ incident.hint \in FailureClasses
        /\ iterN = Len(iterations) + 1
        /\ Len(iterations) < RepMaxIterations
    BY <1>1 DEF RRIInv, ReplayInv, GoingOn
  <1>3. /\ Len(iterations) \in Nat /\ RepMaxIterations \in Nat /\ iterN \in Nat
    BY <1>2, LenProperties, ReplayAssumption
  <1>4. /\ k \in 1 .. n /\ n \in Nat /\ c \in Rep!Completion
        /\ \/ /\ ToolTurn(it) /\ c.calls = it.calls
              /\ k = n => Capped(recording)
           \/ /\ k = n /\ it.calls = << >>
              /\ recording.stopReason = "diagnosis_submitted"
              /\ c.calls = <<TerminalBlock(recording)>>
           \/ /\ k = n /\ it.calls = << >> /\ c.calls = << >>
              /\ recording.stopReason = "error"
    BY <1>1, <1>2, NextCompletion
  <1>5. /\ Rep!Billed(c, << >>, << >>) \in Rep!Iteration
        /\ Rep!Billed(c, c.calls, Rep!ToolResults(c)) \in Rep!Iteration
    BY <1>3, <1>4, BilledType
  <1>6. ASSUME NEW calls, NEW results, Rep!Bill(c, calls, results),
               Rep!Billed(c, calls, results) \in Rep!Iteration
        PROVE  /\ iterations' \in Seq(Rep!Iteration)
               /\ queue' \in Seq(Rep!Completion)
               /\ Len(iterations') = k
               /\ calls = it.calls => Following'
    BY <1>1, <1>2, <1>6, DeliverBills
  <1> HIDE DEF c, it
  <1>7. CASE ToolTurn(it) /\ c.calls = it.calls /\ (k = n => Capped(recording))
    <2>1. c.calls # << >> /\ ~Rep!HasSubmit(c)
      BY <1>7 DEF ToolTurn, Rep!HasSubmit
    <2>2. CASE Rep!RunTools(c)
      <3>1. /\ iterN' = iterN + 1 /\ pc' = "loop"
            /\ UNCHANGED <<diagnosis, fix>>
            /\ Rep!Bill(c, c.calls, Rep!ToolResults(c))
        BY <2>2 DEF Rep!RunTools, Rep!verdict
      <3>2. /\ iterations' \in Seq(Rep!Iteration) /\ queue' \in Seq(Rep!Completion)
            /\ Len(iterations') = k /\ Following'
        BY <1>5, <1>6, <1>7, <3>1
      <3>3. CutShort'
        BY <1>1, <1>2, <1>3, <1>7, <3>1, <3>2 DEF CutShort, Undecided
      <3>4. ReplayInv'
        BY <1>1, <1>2, <3>1, <3>2, <3>3 DEF ReplayInv, GoingOn
      <3> QED
        BY <1>1, <3>1, <3>4 DEF RRIInv, Phases, RecordingInv, SavedInv
    <2>3. CASE Rep!RaiseInTools(c)
      <3>1. pc' = "raised" /\ Rep!Bill(c, << >>, << >>)
        BY <2>3 DEF Rep!RaiseInTools, Rep!Raise
      <3>2. iterations' \in Seq(Rep!Iteration) /\ queue' \in Seq(Rep!Completion)
        BY <1>5, <1>6, <3>1
      <3>3. ReplayInv'
        BY <1>1, <1>2, <3>1, <3>2 DEF ReplayInv, GoingOn
      <3> QED
        BY <1>1, <3>1, <3>3 DEF RRIInv, Phases, RecordingInv, SavedInv
    <2> QED
      BY <1>1, <2>1, <2>2, <2>3
         DEF Rep!Receive, Rep!SubmitDiagnosis, Rep!MalformedSubmit, Rep!GiveUp, c
  <1>8. ASSUME k = n, it.calls = << >>, Rep!Bill(c, << >>, << >>), pc' = "done",
               diagnosis' = recording.diagnosis, fix' = recording.fix,
               stopReason' = recording.stopReason
        PROVE  RRIInv'
    <2>1. /\ iterations' \in Seq(Rep!Iteration) /\ queue' \in Seq(Rep!Completion)
          /\ Len(iterations') = k /\ Following'
      BY <1>5, <1>6, <1>8
    <2>2. ReplayInv'
      BY <1>1, <1>2, <1>8, <2>1 DEF ReplayInv, GoingOn
    <2> QED
      BY <1>1, <1>8, <2>2 DEF RRIInv, Phases, RecordingInv, SavedInv
  <1>9. CASE /\ k = n /\ it.calls = << >>
             /\ recording.stopReason = "diagnosis_submitted"
             /\ c.calls = <<TerminalBlock(recording)>>
    <2>1. Rep!HasSubmit(c) /\ Rep!SubmitArgs(c) = <<recording.diagnosis.class, recording.fix>>
      <3>1. /\ Rep!IsSubmit(TerminalBlock(recording))
            /\ TerminalBlock(recording).arg = <<recording.diagnosis.class, recording.fix>>
        BY DEF TerminalBlock, Rep!IsSubmit
      <3> QED
        BY <1>9, <3>1, SubmitArgsOfOne
    <2>2. /\ Rep!SubmitArgs(c)[1] = recording.diagnosis.class
          /\ Rep!SubmitArgs(c)[2] = recording.fix
      BY <2>1
    <2>3. /\ recording.diagnosis.class \in FailureClasses
          /\ recording.diagnosis = [class |-> recording.diagnosis.class,
                                    cost |-> recording.totalCost, usage |-> recording.totalUsage]
          /\ recording.fix # Rep!BadFix
      BY <1>2, <1>9 DEF WellRecorded
    <2>4. Rep!SubmitDiagnosis(c)
      <3>1. ~Rep!MalformedSubmit(c)
        BY <2>2, <2>3 DEF Rep!MalformedSubmit, Rep!ValidClass
      <3>2. ~Rep!GiveUp(c)
        BY <1>9 DEF Rep!GiveUp
      <3>3. ~Rep!RunTools(c) /\ ~Rep!RaiseInTools(c)
        BY <2>1 DEF Rep!RunTools, Rep!RaiseInTools
      <3>4. Rep!Receive(c)
        BY <1>1 DEF c
      <3> QED
        BY <3>1, <3>2, <3>3, <3>4 DEF Rep!Receive
    <2>5. /\ Rep!Bill(c, << >>, << >>) /\ pc' = "done"
          /\ stopReason' = recording.stopReason
          /\ fix' = recording.fix
          /\ diagnosis' = [class |-> recording.diagnosis.class,
                           cost |-> totalCost', usage |-> totalUsage']
      BY <1>9, <2>2, <2>4 DEF Rep!SubmitDiagnosis, Rep!Stop, Rep!DiagnosisOf
    <2>6. Following' /\ Len(iterations') = n
      BY <1>5, <1>6, <1>9, <2>5
    <2>7. totalCost' = recording.totalCost /\ totalUsage' = recording.totalUsage
      <3>1. PICK f, u :
               /\ LedgerOf(recording'.iterations, recording'.totalCost,
                           recording'.totalUsage, f, u)
               /\ totalCost' = f[Len(iterations')] /\ totalUsage' = u[Len(iterations')]
        BY <2>6 DEF Following
      <3> QED
        BY <1>1, <2>6, <3>1 DEF LedgerOf
    <2> QED
      BY <1>8, <1>9, <2>3, <2>5, <2>7
  <1>10. CASE /\ k = n /\ it.calls = << >> /\ c.calls = << >>
              /\ recording.stopReason = "error"
    <2>1. ~Rep!HasSubmit(c) /\ ~Rep!ToolsRaise(c)
      BY <1>10 DEF Rep!HasSubmit, Rep!ToolsRaise
    <2>2. Rep!GiveUp(c)
      BY <1>1, <1>10, <2>1
         DEF Rep!Receive, Rep!SubmitDiagnosis, Rep!MalformedSubmit, Rep!RunTools,
             Rep!RaiseInTools, c
    <2>3. /\ Rep!Bill(c, << >>, << >>) /\ pc' = "done"
          /\ stopReason' = recording.stopReason
          /\ UNCHANGED <<diagnosis, fix>>
      BY <1>10, <2>2 DEF Rep!GiveUp, Rep!Stop
    <2>4. recording.diagnosis = diagnosis /\ recording.fix = fix
      BY <1>2, <1>10 DEF WellRecorded, CutShort, Undecided
    <2> QED
      BY <1>8, <1>10, <2>3, <2>4
  <1> QED
    BY <1>4, <1>7, <1>9, <1>10

LEMMA NextRRIInv == RRIInv /\ [RRNext]_rrVars => RRIInv'
  <1> SUFFICES ASSUME RRIInv, [RRNext]_rrVars PROVE RRIInv'
    OBVIOUS
  <1>1. CASE Record
    <2>1. phase = "recording" /\ UNCHANGED <<phase, recording, queue, incident>> /\ Rec!Step
      BY <1>1 DEF Record
    <2>2. CASE Rec!CallModel \/ Rec!HitCostCap \/ Rec!ExhaustIterations \/ Rec!ProviderRaises
      BY <2>1, <2>2, RecordingHead
    <2>3. ASSUME NEW c \in Completions, Rec!Receive(c) PROVE RRIInv'
      <3>1. CASE Rec!SubmitDiagnosis(c) \/ Rec!MalformedSubmit(c) \/ Rec!GiveUp(c)
                   \/ Rec!RaiseInTools(c)
        BY <2>1, <3>1, RecordingEnds
      <3>2. CASE Rec!RunTools(c)
        BY <2>1, <3>2, RecordingGoesOn
      <3> QED
        BY <2>3, <3>1, <3>2 DEF Rec!Receive
    <2> QED
      BY <2>1, <2>2, <2>3 DEF Rec!Step
  <1>2. CASE Save
    BY <1>2, SaveKeepsRRIInv
  <1>3. CASE StartReplay
    BY <1>3, StartKeepsRRIInv
  <1>4. CASE ReplayHead
    BY <1>4, HeadKeepsRRIInv
  <1>5. CASE Deliver
    BY <1>5, DeliverKeepsRRIInv
  <1>6. CASE Exhausted
    BY <1>6, ExhaustedKeepsRRIInv
  <1>7. CASE UNCHANGED rrVars
    BY <1>7 DEF rrVars, loop, RRIInv, Phases, RecordingInv, SavedInv, ReplayInv, GoingOn,
       Following, CutShort, Undecided, AgentRun
  <1> QED
    BY <1>1, <1>2, <1>3, <1>4, <1>5, <1>6, <1>7 DEF RRNext, RRStep, RROver

LEMMA RRInvariance == RRSpec => []RRIInv
  <1>1. RRInit => RRIInv
    BY InitRRIInv
  <1>2. RRIInv /\ [RRNext]_rrVars => RRIInv'
    BY NextRRIInv
  <1> QED
    BY <1>1, <1>2, PTL DEF RRSpec

-----------------------------------------------------------------------------
(* What follows from it.                                                   *)

\* What lies between the two runs: the saved AgentRun, the mock's queue and
\* the rebuilt incident keep their types.
THEOREM RecordingTypes == RRSpec => []RRTypeOK
  <1>1. RRIInv => RRTypeOK
    <2> SUFFICES ASSUME RRIInv PROVE RRTypeOK
      OBVIOUS
    <2>1. CASE phase = "recording"
      <3>1. recording = NoRun /\ queue = << >>
        BY <2>1 DEF RRIInv, RecordingInv
      <3> QED
        BY <2>1, <3>1 DEF RRTypeOK, NoRun
    <2>2. CASE phase = "saved"
      <3>1. WellRecorded(recording) /\ queue = << >>
        BY <2>2 DEF RRIInv, SavedInv
      <3> QED
        BY <2>2, <3>1 DEF RRTypeOK, WellRecorded
    <2>3. CASE phase = "replay"
      <3>1. /\ WellRecorded(recording) /\ queue \in Seq(Rep!Completion)
            /\ incident.hint \in FailureClasses
        BY <2>3 DEF RRIInv, ReplayInv
      <3> QED
        BY <2>3, <3>1 DEF RRTypeOK, WellRecorded
    <2> QED
      BY <2>1, <2>2, <2>3 DEF RRIInv, Phases
  <1> QED
    BY <1>1, RRInvariance, PTL

\* How far a replay can get under caps that fit.
LEMMA ReplayCounts ==
    ASSUME RRIInv, Replaying, pc \in {"awaiting", "done"}
    PROVE  LET n == Len(recording.iterations)
               k == Len(iterations)
           IN  /\ WellRecorded(recording) /\ Following
               /\ iterations \in Seq(Rep!Iteration)
               /\ recording.iterations \in Seq(Rep!Iteration)
               /\ queue \in Seq(Rep!Completion)
               /\ n \in Nat /\ k \in Nat /\ k <= n /\ n <= RecMaxIterations
               /\ Len(queue) = n - k
               /\ totalCost \in Nat
               /\ k < n => totalCost < RecMaxCost
               /\ k = n => /\ totalCost = recording.totalCost
                           /\ totalUsage = recording.totalUsage
  <1> DEFINE n == Len(recording.iterations)
             k == Len(iterations)
  <1>1. /\ WellRecorded(recording) /\ Following
        /\ iterations \in Seq(Rep!Iteration) /\ queue \in Seq(Rep!Completion)
    BY DEF RRIInv, ReplayInv, Replaying
  <1>2. recording.iterations \in Seq(Rep!Iteration) /\ n <= RecMaxIterations
    BY <1>1 DEF WellRecorded
  <1>3. n \in Nat /\ k \in Nat
    BY <1>1, <1>2, LenProperties
  <1>4. k <= n /\ Len(queue) = n - k
    BY <1>1 DEF Following
  <1>5. PICK f, u :
           /\ LedgerOf(recording.iterations, recording.totalCost, recording.totalUsage, f, u)
           /\ totalCost = f[k] /\ totalUsage = u[k]
    BY <1>1 DEF Following
  <1>6. f[k] \in Nat
    <2>1. k \in 0 .. n
      BY <1>3, <1>4
    <2> QED
      BY <1>5, <2>1 DEF LedgerOf, Ledger
  <1>7. k < n => f[k] < RecMaxCost
    <2>1. k < n => k \in 0 .. (n - 1)
      BY <1>3
    <2> QED
      BY <1>5, <2>1 DEF LedgerOf
  <1>8. f[n] = recording.totalCost /\ u[n] = recording.totalUsage
    BY <1>5 DEF LedgerOf
  <1> QED
    BY <1>1, <1>2, <1>3, <1>4, <1>5, <1>6, <1>7, <1>8

\* The mock never runs dry under caps that fit: whenever the replaying loop
\* awaits an answer, MockProvider has one.
THEOREM MockCoversReplay == RRSpec => []RecordingCoversReplay
  <1>1. RRIInv => RecordingCoversReplay
    <2> SUFFICES ASSUME RRIInv, Replaying, pc = "awaiting", Replayable, queue = << >>
                 PROVE  FALSE
      BY DEF RecordingCoversReplay
    <2> DEFINE n == Len(recording.iterations)
               k == Len(iterations)
    <2>1. /\ n \in Nat /\ k \in Nat /\ Len(queue) = n - k
          /\ WellRecorded(recording)
          /\ k = n => totalCost = recording.totalCost
      BY ReplayCounts
    <2>2. k = n
      <3>1. Len(queue) = 0
        OBVIOUS
      <3> QED
        BY <2>1, <3>1
    <2>3. /\ Capped(recording) /\ k < RepMaxIterations /\ totalCost < RepMaxCost
      BY <2>2 DEF RRIInv, ReplayInv, Replaying, GoingOn, CutShort
    <2>4. CASE recording.stopReason = "cost_cap"
      <3>1. recording.totalCost >= RepMaxCost
        BY <2>4 DEF Replayable
      <3>2. totalCost = recording.totalCost /\ totalCost \in Nat /\ RepMaxCost \in Nat
        BY <2>1, <2>2, ReplayCounts, ReplayAssumption
      <3> QED
        BY <2>3, <3>1, <3>2
    <2>5. CASE recording.stopReason = "max_iterations"
      <3>1. n = RecMaxIterations /\ RecMaxIterations = RepMaxIterations
        BY <2>1, <2>5 DEF WellRecorded, Replayable
      <3> QED
        BY <2>1, <2>2, <2>3, <3>1
    <2> QED
      BY <2>3, <2>4, <2>5 DEF Capped
  <1> QED
    BY <1>1, RRInvariance, PTL

\* Where a replay that returns stands, whatever the caps: it was cut short by a
\* cap, or it ended as the recording did.
LEMMA ReplayReturns ==
    ASSUME RRIInv, Replaying, pc = "done"
    PROVE  \/ /\ CutShort
              /\ \/ /\ stopReason = "cost_cap"
                    /\ totalCost >= RepMaxCost
                    /\ Len(iterations) < RepMaxIterations
                 \/ /\ stopReason = "max_iterations"
                    /\ Len(iterations) = RepMaxIterations
           \/ /\ Len(iterations) = Len(recording.iterations)
              /\ diagnosis = recording.diagnosis
              /\ fix = recording.fix
              /\ stopReason = recording.stopReason
  BY DEF RRIInv, ReplayInv, Replaying

\* A replay that got to the end of the recording has asked what it asked.
LEMMA ReplayAsksTheSame ==
    ASSUME RRIInv, Replaying, pc = "done", Len(iterations) = Len(recording.iterations)
    PROVE  Asked(iterations) = Asked(recording.iterations)
  <1>1. /\ Following
        /\ iterations \in Seq(Rep!Iteration) /\ recording.iterations \in Seq(Rep!Iteration)
    BY ReplayCounts
  <1>2. /\ DOMAIN iterations = 1 .. Len(iterations)
        /\ DOMAIN recording.iterations = 1 .. Len(iterations)
    BY <1>1, LenProperties
  <1>3. \A j \in 1 .. Len(iterations) : SameTurn(iterations[j], recording.iterations[j])
    BY <1>1 DEF Following
  <1> QED
    BY <1>2, <1>3 DEF Asked, SameTurn

\* A replay that returns is the recorded run again: the same calls at the same
\* cost, the same verdict and fix, every completion used, on whatever tree the
\* tools ran.
THEOREM ReplayIsTheRecordedRun == RRSpec => []ReplayReproducesRun
  <1>1. RRIInv => ReplayReproducesRun
    <2> SUFFICES ASSUME RRIInv, Replaying, pc = "done", Replayable
                 PROVE  /\ Asked(iterations) = Asked(recording.iterations)
                        /\ totalCost = recording.totalCost
                        /\ totalUsage = recording.totalUsage
                        /\ diagnosis = recording.diagnosis
                        /\ fix = recording.fix
                        /\ stopReason = recording.stopReason
                        /\ queue = << >>
      BY DEF ReplayReproducesRun
    <2> DEFINE n == Len(recording.iterations)
               k == Len(iterations)
    <2>1. /\ n \in Nat /\ k \in Nat /\ k <= n /\ n <= RecMaxIterations
          /\ Len(queue) = n - k
          /\ totalCost \in Nat
          /\ k < n => totalCost < RecMaxCost
      BY ReplayCounts
    <2>2. /\ WellRecorded(recording) /\ queue \in Seq(Rep!Completion)
          /\ k = n => totalCost = recording.totalCost /\ totalUsage = recording.totalUsage
      BY ReplayCounts
    <2>3. /\ RecMaxIterations \in Nat /\ RepMaxIterations \in Nat
          /\ RecMaxCost \in Nat /\ RepMaxCost \in Nat
          /\ RecMaxIterations <= RepMaxIterations /\ RecMaxCost <= RepMaxCost
      BY ReplayAssumption DEF Replayable, CapsCover
    <2>4. /\ recording.stopReason = "cost_cap" => n < RecMaxIterations
          /\ recording.stopReason = "max_iterations" => n = RecMaxIterations
          /\ recording.stopReason = "max_iterations" => RecMaxIterations = RepMaxIterations
          /\ Capped(recording) => recording.diagnosis = Rep!NoDiagnosis /\ recording.fix = Rep!NoFix
      BY <2>2 DEF WellRecorded, Replayable, Capped
    <2>5. CASE /\ CutShort
               /\ stopReason = "cost_cap"
               /\ totalCost >= RepMaxCost /\ k < RepMaxIterations
      <3>1. k = n
        BY <2>1, <2>3, <2>5
      <3>2. Capped(recording)
        BY <2>5, <3>1 DEF CutShort
      <3>3. recording.stopReason # "max_iterations"
        BY <2>1, <2>3, <2>4, <2>5, <3>1
      <3> QED
        BY <2>1, <2>2, <2>4, <2>5, <3>1, <3>2, <3>3, ReplayAsksTheSame, EmptySeq
           DEF Capped, CutShort, Undecided
    <2>6. CASE /\ CutShort
               /\ stopReason = "max_iterations"
               /\ k = RepMaxIterations
      <3>1. k = n /\ n = RecMaxIterations
        BY <2>1, <2>3, <2>6
      <3>2. Capped(recording)
        BY <2>6, <3>1 DEF CutShort
      <3>3. recording.stopReason # "cost_cap"
        BY <2>1, <2>3, <2>4, <3>1
      <3> QED
        BY <2>1, <2>2, <2>4, <2>6, <3>1, <3>2, <3>3, ReplayAsksTheSame, EmptySeq
           DEF Capped, CutShort, Undecided
    <2>7. CASE /\ k = n
               /\ diagnosis = recording.diagnosis
               /\ fix = recording.fix
               /\ stopReason = recording.stopReason
      <3>1. Len(queue) = 0
        BY <2>1, <2>7
      <3> QED
        BY <2>2, <2>7, <3>1, ReplayAsksTheSame, EmptySeq
    <2> QED
      BY <2>5, <2>6, <2>7, ReplayReturns
  <1> QED
    BY <1>1, RRInvariance, PTL
=============================================================================
