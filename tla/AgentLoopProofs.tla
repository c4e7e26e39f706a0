-------------------------- MODULE AgentLoopProofs --------------------------
(***************************************************************************)
(* What AgentLoop guarantees for every model, every project and every      *)
(* value of the caps: type correctness, the conversation, the budget, the  *)
(* verdict, the billing of single steps, and the refinement of MeteredRun  *)
(* (its safety part).                                                      *)
(***************************************************************************)
EXTENDS AgentLoop, SequenceTheorems, WellFoundedInduction, TLAPS

Result == [id : STRING, isError : BOOLEAN]

-----------------------------------------------------------------------------
(* Lemmas on the operators of the loop.                                    *)

\* Completions are well-typed values.
LEMMA CompletionType ==
    ASSUME NEW c \in Completions
    PROVE  /\ c.calls \in Seq(ToolCall)
           /\ c.cost \in Nat
           /\ c.usage \in Tokens
           /\ DOMAIN c.calls = 1 .. Len(c.calls)
           /\ Len(c.calls) \in Nat
           /\ \A i \in DOMAIN c.calls :
                 /\ c.calls[i] \in ToolCall
                 /\ WellFormedCall(c.calls[i])
  <1>1. c \in Completion
    BY LoopAssumption
  <1>2. c.calls \in Seq(ToolCall) /\ c.cost \in Nat /\ c.usage \in Tokens
    BY <1>1 DEF Completion
  <1>3. \A i \in DOMAIN c.calls : WellFormedCall(c.calls[i])
    BY LoopAssumption
  <1>4. /\ DOMAIN c.calls = 1 .. Len(c.calls)
        /\ Len(c.calls) \in Nat
    BY <1>2, LenProperties
  <1>5. \A i \in DOMAIN c.calls : c.calls[i] \in ToolCall
    BY <1>2, <1>4, ElementOfSeq
  <1> QED
    BY <1>2, <1>3, <1>4, <1>5

\* next(c for c in tool_calls if c.name == "submit_diagnosis"): when there is
\* one, SubmitArgs are the two arguments of a submit_diagnosis call.
LEMMA SubmitArgsType ==
    ASSUME NEW c \in Completions, HasSubmit(c)
    PROVE  /\ SubmitArgs(c) \in Seq(STRING)
           /\ SubmitArgs(c)[2] \in Fixes \union {NoFix, BadFix}
  <1> DEFINE I == {i \in 1 .. Len(c.calls) : IsSubmit(c.calls[i])}
             first == SelectInSeq(c.calls, IsSubmit)
  <1>1. I # {} /\ I \subseteq Nat
    BY CompletionType DEF HasSubmit
  <1>2. PICK x \in I : \A y \in I : ~(<<y, x>> \in OpToRel(<, Nat))
    BY <1>1, WFMin, NatLessThanWellFounded
  <1>3. \A y \in I : x =< y
    <2>1. TAKE y \in I
    <2>2. x \in Nat /\ y \in Nat
      BY <1>1
    <2>3. ~(y < x)
      BY <1>2, <2>2 DEF OpToRel
    <2> QED
      BY <2>2, <2>3
  <1>4. first = Min(I)
    BY <1>1 DEF SelectInSeq
  <1>5. first \in I
    BY <1>3, <1>4 DEF Min
  <1>6. /\ c.calls[first] \in ToolCall
        /\ c.calls[first].arg[2] \in Fixes \union {NoFix, BadFix}
    BY <1>5, CompletionType DEF WellFormedCall, IsSubmit
  <1> QED
    BY <1>6 DEF SubmitArgs, ToolCall

\* Every call has one result, with its own id, in its own place.
LEMMA ToolResultsAnswer ==
    ASSUME NEW c \in Completions
    PROVE  /\ ToolResults(c) \in Seq(Result)
           /\ Ids(ToolResults(c)) = Ids(c.calls)
           /\ Ids(c.calls) \in Seq(STRING)
  <1> DEFINE n == Len(c.calls)
  <1>1. /\ n \in Nat
        /\ DOMAIN c.calls = 1 .. n
        /\ \A i \in 1 .. n : c.calls[i].id \in STRING
    BY CompletionType DEF ToolCall
  <1>2. \A i \in 1 .. n :
           [id |-> c.calls[i].id, isError |-> Dispatch(c.calls[i]) = "error"] \in Result
    BY <1>1 DEF Result
  <1>3. ToolResults(c) \in Seq(Result)
    BY <1>1, <1>2 DEF ToolResults
  <1>4. /\ DOMAIN ToolResults(c) = 1 .. n
        /\ \A i \in 1 .. n : ToolResults(c)[i].id = c.calls[i].id
    BY <1>1 DEF ToolResults
  <1>5. Ids(ToolResults(c)) = Ids(c.calls)
    BY <1>1, <1>4 DEF Ids
  <1>6. Ids(c.calls) \in Seq(STRING)
    BY <1>1 DEF Ids
  <1> QED
    BY <1>3, <1>5, <1>6

\* Usages add up to a usage.
LEMMA AddTokensType ==
    ASSUME NEW a \in Tokens, NEW b \in Tokens
    PROVE  AddTokens(a, b) \in Tokens
  <1>1. /\ a.prompt + b.prompt \in Nat
        /\ a.cached + b.cached \in Nat
        /\ a.completion + b.completion \in Nat
    BY DEF Tokens
  <1> QED
    BY <1>1 DEF AddTokens, Tokens

\* What billing a completion does to the trace.
LEMMA BillAppends ==
    ASSUME TypeOK, NEW c \in Completions,
           NEW calls \in Seq(ToolCall), NEW results \in Seq(Result),
           Bill(c, calls, results)
    PROVE  /\ iterations' \in Seq(Iteration)
           /\ Len(iterations') = Len(iterations) + 1
           /\ \A k \in 1 .. Len(iterations) : iterations'[k] = iterations[k]
           /\ iterations'[Len(iterations) + 1] =
                 Billed(c, calls, results)
           /\ totalCost' = totalCost + c.cost
           /\ totalUsage' = AddTokens(totalUsage, c.usage)
           /\ totalUsage' \in Tokens
           /\ totalCost' \in Nat
           /\ Len(iterations) \in Nat
  <1> DEFINE it == Billed(c, calls, results)
  <1>1. it \in Iteration
    BY CompletionType DEF TypeOK, Billed, Iteration, Result
  <1>2. iterations \in Seq(Iteration) /\ iterations' = Append(iterations, it)
    BY DEF TypeOK, Bill
  <1>3. totalCost' = totalCost + c.cost /\ totalCost' \in Nat
    BY CompletionType DEF TypeOK, Bill
  <1>4. totalUsage' = AddTokens(totalUsage, c.usage)
    BY DEF Bill
  <1>5. totalUsage' \in Tokens
    BY <1>4, CompletionType, AddTokensType DEF TypeOK
  <1> HIDE DEF it
  <1>6. Len(iterations) \in Nat /\ Len(iterations') = Len(iterations) + 1
    BY <1>1, <1>2
  <1>7. /\ iterations' \in Seq(Iteration)
        /\ \A k \in 1 .. Len(iterations) : iterations'[k] = iterations[k]
        /\ iterations'[Len(iterations) + 1] = it
    BY <1>1, <1>2
  <1> QED
    BY <1>3, <1>4, <1>5, <1>6, <1>7 DEF it
-----------------------------------------------------------------------------
(* Type correctness.                                                       *)

LEMMA TypeInit == Init => TypeOK
  <1> SUFFICES ASSUME Init PROVE TypeOK
    OBVIOUS
  <1>1. messages \in Seq([role : {"user", "assistant"}, ids : Seq(STRING)])
    <2>1. Message("user", << >>) \in [role : {"user", "assistant"}, ids : Seq(STRING)]
      BY DEF Message
    <2> QED
      BY <2>1 DEF Init
  <1>2. << >> \in Seq(Iteration)
    OBVIOUS
  <1>3. NoDiagnosis \in [class : FailureClasses \union {"none"}, cost : Nat, usage : Tokens]
    BY DEF NoDiagnosis, NoTokens, Tokens
  <1>4. fix \in Fixes \union {NoFix}
    BY DEF Init
  <1>5. iterN = 1 /\ totalCost = 0 /\ pc = "loop" /\ stopReason = "none"
    BY DEF Init
  <1>6. iterations \in Seq(Iteration) /\ project \in Projects
    BY <1>2 DEF Init
  <1>7. diagnosis \in [class : FailureClasses \union {"none"}, cost : Nat, usage : Tokens]
    BY <1>3 DEF Init
  <1>8. totalUsage \in Tokens
    BY DEF Init, NoTokens, Tokens
  <1> QED
    BY <1>1, <1>4, <1>5, <1>6, <1>7, <1>8 DEF TypeOK

\* Receiving a completion keeps the types, whatever the completion holds.
LEMMA TypeReceive ==
    ASSUME TypeOK, NEW c \in Completions, Receive(c)
    PROVE  TypeOK'
  <1> DEFINE Empty == << >>
  <1>0. Empty \in Seq(ToolCall) /\ Empty \in Seq(Result)
    OBVIOUS
  <1>1. CASE SubmitDiagnosis(c)
    <2>1. iterations' \in Seq(Iteration) /\ totalCost' \in Nat /\ totalUsage' \in Tokens
      BY <1>0, <1>1, BillAppends DEF SubmitDiagnosis
    <2>2. SubmitArgs(c)[2] \in Fixes \union {NoFix}
      BY <1>1, SubmitArgsType DEF SubmitDiagnosis
    <2> QED
      BY <1>1, <2>1, <2>2 DEF SubmitDiagnosis, ValidClass, DiagnosisOf, Stop, StopReasons, TypeOK
  <1>2. CASE MalformedSubmit(c)
    <2>1. iterations' \in Seq(Iteration) /\ totalCost' \in Nat /\ totalUsage' \in Tokens
      BY <1>0, <1>2, BillAppends DEF MalformedSubmit
    <2> QED
      BY <1>2, <2>1 DEF MalformedSubmit, ValidClass, DiagnosisOf, Raise, StopReasons, TypeOK
  <1>3. CASE GiveUp(c)
    <2>1. iterations' \in Seq(Iteration) /\ totalCost' \in Nat /\ totalUsage' \in Tokens
      BY <1>0, <1>3, BillAppends DEF GiveUp
    <2> QED
      BY <1>3, <2>1 DEF GiveUp, Stop, StopReasons, TypeOK
  <1>4. CASE RunTools(c)
    <2>1. iterations' \in Seq(Iteration) /\ totalCost' \in Nat /\ totalUsage' \in Tokens
      BY <1>4, CompletionType, ToolResultsAnswer, BillAppends DEF RunTools
    <2>2. /\ Message("assistant", Ids(c.calls))
                \in [role : {"user", "assistant"}, ids : Seq(STRING)]
          /\ Message("user", Ids(ToolResults(c)))
                \in [role : {"user", "assistant"}, ids : Seq(STRING)]
      BY ToolResultsAnswer DEF Message
    <2>3. messages' \in Seq([role : {"user", "assistant"}, ids : Seq(STRING)])
      BY <1>4, <2>2 DEF RunTools, TypeOK
    <2> QED
      BY <1>4, <2>1, <2>3 DEF RunTools, verdict, TypeOK
  <1>5. CASE RaiseInTools(c)
    <2>1. iterations' \in Seq(Iteration) /\ totalCost' \in Nat /\ totalUsage' \in Tokens
      BY <1>0, <1>5, BillAppends DEF RaiseInTools
    <2> QED
      BY <1>5, <2>1 DEF RaiseInTools, Raise, TypeOK
  <1> QED
    BY <1>1, <1>2, <1>3, <1>4, <1>5 DEF Receive

LEMMA TypeStep == TypeOK /\ [Next]_vars => TypeOK'
  <1> SUFFICES ASSUME TypeOK, [Next]_vars PROVE TypeOK'
    OBVIOUS
  <1> USE DEF TypeOK, trace, verdict
  <1>1. CASE CallModel
    BY <1>1 DEF CallModel
  <1>2. CASE HitCostCap
    BY <1>2 DEF HitCostCap, Stop, StopReasons
  <1>3. CASE ExhaustIterations
    BY <1>3 DEF ExhaustIterations, Stop, StopReasons
  <1>4. CASE ProviderRaises
    BY <1>4 DEF ProviderRaises, Raise
  <1>5. ASSUME NEW c \in Completions, Receive(c) PROVE TypeOK'
    BY <1>5, TypeReceive
  <1>6. CASE Over \/ UNCHANGED vars
    BY <1>6 DEF Over, vars
  <1> QED
    BY <1>1, <1>2, <1>3, <1>4, <1>5, <1>6 DEF Next, Step

\* The variables of a run keep their types for every model and project.
THEOREM TypeCorrect == Spec => []TypeOK
  BY TypeInit, TypeStep, PTL DEF Spec

-----------------------------------------------------------------------------
(* The invariants.  They are proved together: the budget at the loop head  *)
(* counts iterations by iter_n, which the conversation ties to the trace.  *)
IInv ==
    /\ TypeOK
    /\ ConversationMatchesTrace
    /\ BudgetHeld
    /\ VerdictConsistent

LEMMA InvariantInit == Init => IInv
  <1> SUFFICES ASSUME Init PROVE IInv
    OBVIOUS
  <1>1. TypeOK
    BY TypeInit
  <1>2. ConversationMatchesTrace
    BY DEF Init, ConversationMatchesTrace, Finished
  <1>3. BudgetHeld
    BY LoopAssumption DEF Init, BudgetHeld
  <1>4. VerdictConsistent
    BY DEF Init, VerdictConsistent, NoDiagnosis, NoFix, Finished
  <1> QED
    BY <1>1, <1>2, <1>3, <1>4 DEF IInv

\* A step that ends the loop head without a call, or that loses the provider.
LEMMA HeadStep ==
    ASSUME IInv, CallModel \/ HitCostCap \/ ExhaustIterations \/ ProviderRaises
    PROVE  IInv'
  <1> USE DEF IInv, trace, verdict
  <1>0. TypeOK'
    BY TypeStep DEF Next, Step
  <1>1. UNCHANGED <<iterN, messages, trace, diagnosis, fix>>
    BY DEF CallModel, HitCostCap, ExhaustIterations, ProviderRaises
  <1>2. ~Finished
    BY DEF CallModel, HitCostCap, ExhaustIterations, ProviderRaises, Finished
  <1>3. ConversationMatchesTrace'
    BY <1>1, <1>2 DEF ConversationMatchesTrace
  <1>4. /\ Len(iterations) = iterN - 1
        /\ Len(iterations) \in Nat
        /\ iterN \in Nat
        /\ totalCost \in Nat
        /\ MaxIterations \in Nat
        /\ MaxCost \in Nat
    BY <1>2, LoopAssumption, LenProperties DEF ConversationMatchesTrace, TypeOK
  <1>5. BudgetHeld'
    <2>1. CASE CallModel
      BY <2>1, <1>1 DEF CallModel, BudgetHeld, UnderCap
    <2>2. CASE HitCostCap
      BY <2>2, <1>1, <1>4 DEF HitCostCap, Stop, BudgetHeld, UnderCap
    <2>3. CASE ExhaustIterations
      BY <2>3, <1>1, <1>4 DEF ExhaustIterations, Stop, BudgetHeld, UnderCap
    <2>4. CASE ProviderRaises
      BY <2>4, <1>1 DEF ProviderRaises, Raise, BudgetHeld, UnderCap
    <2> QED
      BY <2>1, <2>2, <2>3, <2>4
  <1>6. VerdictConsistent'
    <2>1. CASE CallModel
      BY <2>1, <1>2 DEF CallModel, VerdictConsistent, Finished
    <2>2. CASE HitCostCap
      BY <2>2, <1>2 DEF HitCostCap, Stop, VerdictConsistent, Finished
    <2>3. CASE ExhaustIterations
      BY <2>3, <1>2 DEF ExhaustIterations, Stop, VerdictConsistent, Finished
    <2>4. CASE ProviderRaises
      BY <2>4, <1>2 DEF ProviderRaises, Raise, VerdictConsistent, Finished
    <2> QED
      BY <2>1, <2>2, <2>3, <2>4
  <1> QED
    BY <1>0, <1>3, <1>5, <1>6

\* A completion that ends the run: one iteration without calls is recorded.
LEMMA LastCallStep ==
    ASSUME IInv, NEW c \in Completions,
           SubmitDiagnosis(c) \/ MalformedSubmit(c) \/ GiveUp(c) \/ RaiseInTools(c)
    PROVE  IInv'
  <1> USE DEF IInv
  <1>0. TypeOK'
    BY TypeReceive DEF Receive
  <1>1. /\ UNCHANGED <<iterN, messages>>
        /\ pc = "awaiting" /\ pc' \in {"done", "raised"}
        /\ Bill(c, << >>, << >>)
    BY DEF SubmitDiagnosis, MalformedSubmit, GiveUp, RaiseInTools, Stop, Raise
  <1>2. /\ iterations' \in Seq(Iteration)
        /\ Len(iterations') = Len(iterations) + 1
        /\ \A k \in 1 .. Len(iterations) : iterations'[k] = iterations[k]
        /\ iterations'[Len(iterations) + 1].cost = c.cost
        /\ totalCost' = totalCost + c.cost
        /\ totalCost \in Nat /\ c.cost \in Nat /\ MaxCost \in Nat
    <2>1. << >> \in Seq(ToolCall) /\ << >> \in Seq(Result)
      OBVIOUS
    <2>2. TypeOK
      OBVIOUS
    <2>3. totalCost \in Nat /\ c.cost \in Nat /\ MaxCost \in Nat
      BY CompletionType, LoopAssumption DEF TypeOK
    <2>4. iterations'[Len(iterations) + 1] =
             Billed(c, << >>, << >>)
      BY <1>1, <2>1, <2>2, BillAppends
    <2>5. /\ iterations' \in Seq(Iteration)
          /\ Len(iterations') = Len(iterations) + 1
          /\ \A k \in 1 .. Len(iterations) : iterations'[k] = iterations[k]
          /\ totalCost' = totalCost + c.cost
      BY <1>1, <2>1, <2>2, BillAppends
    <2> QED
      BY <2>3, <2>4, <2>5 DEF Billed
  <1>3. /\ Len(iterations) = iterN - 1
        /\ iterN \in Nat \ {0}
        /\ iterN <= MaxIterations
        /\ totalCost < MaxCost
    BY <1>1 DEF Finished, ConversationMatchesTrace, TypeOK, BudgetHeld, UnderCap
  <1>4. ConversationMatchesTrace'
    <2>1. \A k \in 1 .. (iterN - 1) : iterations'[k] = iterations[k]
      BY <1>2, <1>3
    <2>2. Len(iterations') = iterN
      BY <1>2, <1>3
    <2> QED
      BY <1>1, <2>1, <2>2 DEF ConversationMatchesTrace, Finished
  <1>5. /\ stopReason' # "cost_cap" /\ stopReason' # "max_iterations"
        /\ pc' # "awaiting"
    <2>1. stopReason = "none"
      BY <1>1 DEF VerdictConsistent, TypeOK
    <2> QED
      BY <1>1, <2>1
      DEF SubmitDiagnosis, MalformedSubmit, GiveUp, RaiseInTools, Stop, Raise
  <1>6. BudgetHeld'
    <2>1. Len(iterations') <= MaxIterations
      BY <1>2, <1>3, LoopAssumption
    <2>2. totalCost' - iterations'[Len(iterations')].cost < MaxCost
      BY <1>2, <1>3
    <2> QED
      BY <1>5, <2>1, <2>2 DEF BudgetHeld
  <1>7. diagnosis = NoDiagnosis /\ fix = NoFix /\ stopReason = "none"
    BY <1>1 DEF VerdictConsistent, Finished
  <1>8. VerdictConsistent'
    <2>1. CASE SubmitDiagnosis(c)
      <3>1. SubmitArgs(c)[1] # "none"
        BY <2>1, LoopAssumption DEF SubmitDiagnosis, ValidClass
      <3>2. /\ diagnosis'.class # "none"
            /\ diagnosis'.cost = totalCost' /\ diagnosis'.usage = totalUsage'
        BY <2>1, <3>1 DEF SubmitDiagnosis, DiagnosisOf
      <3>3. diagnosis' # NoDiagnosis
        BY <3>2 DEF NoDiagnosis
      <3> QED
        BY <2>1, <3>2, <3>3 DEF SubmitDiagnosis, Stop, VerdictConsistent, Finished
    <2>2. CASE MalformedSubmit(c)
      <3>1. \/ diagnosis' = NoDiagnosis
            \/ diagnosis'.cost = totalCost' /\ diagnosis'.usage = totalUsage'
        BY <2>2, <1>7 DEF MalformedSubmit, DiagnosisOf
      <3> QED
        BY <2>2, <1>7, <3>1 DEF MalformedSubmit, Raise, VerdictConsistent, Finished
    <2>3. CASE GiveUp(c)
      BY <2>3, <1>7 DEF GiveUp, Stop, VerdictConsistent, Finished
    <2>4. CASE RaiseInTools(c)
      BY <2>4, <1>7 DEF RaiseInTools, Raise, VerdictConsistent, Finished
    <2> QED
      BY <2>1, <2>2, <2>3, <2>4
  <1> QED
    BY <1>0, <1>4, <1>6, <1>8

\* Two turns more on a conversation.
LEMMA TwoMore ==
    ASSUME NEW S, NEW s \in Seq(S), NEW a, NEW b
    PROVE  /\ Len(s \o <<a, b>>) = Len(s) + 2
           /\ \A k \in 1 .. Len(s) : (s \o <<a, b>>)[k] = s[k]
           /\ (s \o <<a, b>>)[Len(s) + 1] = a
           /\ (s \o <<a, b>>)[Len(s) + 2] = b
  OBVIOUS

\* A completion whose tools all answer: the conversation grows by two turns
\* that match the iteration just recorded.
LEMMA ToolsStep ==
    ASSUME IInv, NEW c \in Completions, RunTools(c)
    PROVE  IInv'
  <1> USE DEF IInv
  <1> DEFINE asked == Message("assistant", Ids(c.calls))
             answered == Message("user", Ids(ToolResults(c)))
  <1>0. TypeOK'
    BY TypeReceive DEF Receive
  <1>1. /\ pc = "awaiting" /\ pc' = "loop"
        /\ iterN' = iterN + 1
        /\ messages' = messages \o <<asked, answered>>
        /\ UNCHANGED <<diagnosis, fix, stopReason>>
        /\ Bill(c, c.calls, ToolResults(c))
    BY DEF RunTools, verdict
  <1>2. /\ Len(iterations') = Len(iterations) + 1
        /\ \A k \in 1 .. Len(iterations) : iterations'[k] = iterations[k]
        /\ iterations'[Len(iterations) + 1] = Billed(c, c.calls, ToolResults(c))
        /\ totalCost' = totalCost + c.cost
        /\ totalCost \in Nat /\ c.cost \in Nat /\ MaxCost \in Nat
    BY <1>1, BillAppends, ToolResultsAnswer, CompletionType, LoopAssumption DEF TypeOK
  <1>3. /\ Len(iterations) = iterN - 1
        /\ iterN \in Nat \ {0}
        /\ iterN <= MaxIterations
        /\ totalCost < MaxCost
    BY <1>1 DEF Finished, ConversationMatchesTrace, TypeOK, BudgetHeld, UnderCap
  <1>4. /\ Len(messages) = 2 * iterN - 1
        /\ Len(messages') = 2 * iterN + 1
        /\ \A k \in 1 .. (2 * iterN - 1) : messages'[k] = messages[k]
        /\ messages'[2 * iterN] = asked
        /\ messages'[2 * iterN + 1] = answered
    <2>1. messages \in Seq([role : {"user", "assistant"}, ids : Seq(STRING)])
      BY DEF TypeOK
    <2>2. Len(messages) = 2 * iterN - 1
      BY DEF ConversationMatchesTrace
    <2>3. /\ Len(messages') = Len(messages) + 2
          /\ \A k \in 1 .. Len(messages) : messages'[k] = messages[k]
          /\ messages'[Len(messages) + 1] = asked
          /\ messages'[Len(messages) + 2] = answered
      BY <1>1, <2>1, TwoMore
    <2>4. Len(messages) + 1 = 2 * iterN /\ Len(messages) + 2 = 2 * iterN + 1
      BY <1>3, <2>2
    <2> HIDE DEF IInv, asked, answered
    <2> QED
      BY <1>3, <2>2, <2>3, <2>4
  <1>5. ConversationMatchesTrace'
    <2>1. ASSUME NEW k \in 1 .. (iterN - 1)
          PROVE  /\ iterations'[k] = iterations[k]
                 /\ messages'[2 * k] = messages[2 * k]
                 /\ messages'[2 * k + 1] = messages[2 * k + 1]
      <3>1. 2 * k \in 1 .. (2 * iterN - 1) /\ 2 * k + 1 \in 1 .. (2 * iterN - 1)
        BY <1>3
      <3>2. k \in 1 .. Len(iterations)
        BY <1>3
      <3> QED
        BY <1>2, <1>4, <3>1, <3>2
    <2>2. ASSUME NEW k \in 1 .. (iterN' - 1)
          PROVE  /\ iterations'[k].n = k
                 /\ messages'[2 * k] = Message("assistant", Ids(iterations'[k].calls))
                 /\ messages'[2 * k + 1] = Message("user", Ids(iterations'[k].results))
                 /\ Ids(iterations'[k].calls) = Ids(iterations'[k].results)
      <3>1. CASE k = iterN
        <4>1. /\ iterations'[k].n = k
              /\ iterations'[k].calls = c.calls
              /\ iterations'[k].results = ToolResults(c)
          BY <3>1, <1>2, <1>3 DEF Billed
        <4>2. messages'[2 * k] = asked /\ messages'[2 * k + 1] = answered
          BY <3>1, <1>4
        <4> QED
          BY <4>1, <4>2, ToolResultsAnswer
      <3>2. CASE k \in 1 .. (iterN - 1)
        BY <3>2, <2>1 DEF ConversationMatchesTrace
      <3> QED
        <4>1. k \in 1 .. iterN
          BY <1>1, <1>3
        <4> QED
          BY <3>1, <3>2, <4>1, <1>3
    <2>3. messages'[1] = Message("user", << >>)
      BY <1>3, <1>4 DEF ConversationMatchesTrace
    <2>4. Len(messages') = 2 * iterN' - 1 /\ Len(iterations') = iterN' - 1
      <3>1. Len(messages') = 2 * iterN + 1 /\ Len(iterations') = iterN
        BY <1>2, <1>3, <1>4
      <3>2. iterN' = iterN + 1 /\ iterN \in Nat
        BY <1>1, <1>3
      <3>3. iterN = iterN' - 1 /\ 2 * iterN + 1 = 2 * iterN' - 1
        BY <3>2
      <3> QED
        BY <3>1, <3>3
    <2> QED
      BY <1>3, <1>1, <2>2, <2>3, <2>4 DEF ConversationMatchesTrace
  <1>6. stopReason = "none" /\ diagnosis = NoDiagnosis
    BY <1>1 DEF VerdictConsistent, Finished
  <1>7. BudgetHeld'
    <2>1. Len(iterations') <= MaxIterations
      BY <1>2, <1>3, LoopAssumption
    <2>2. totalCost' - iterations'[Len(iterations')].cost < MaxCost
      BY <1>2, <1>3 DEF Billed
    <2> QED
      BY <1>1, <1>6, <2>1, <2>2 DEF BudgetHeld
  <1>8. VerdictConsistent'
    BY <1>1, <1>6 DEF VerdictConsistent, Finished
  <1> QED
    BY <1>0, <1>5, <1>7, <1>8

LEMMA InvariantStep == IInv /\ [Next]_vars => IInv'
  <1> SUFFICES ASSUME IInv, [Next]_vars PROVE IInv'
    OBVIOUS
  <1>1. CASE CallModel \/ HitCostCap \/ ExhaustIterations \/ ProviderRaises
    BY <1>1, HeadStep
  <1>2. ASSUME NEW c \in Completions, Receive(c) PROVE IInv'
    BY <1>2, LastCallStep, ToolsStep DEF Receive
  <1>3. CASE Over \/ UNCHANGED vars
    <2>1. UNCHANGED vars
      BY <1>3 DEF Over
    <2> QED
      BY <2>1 DEF vars, trace, verdict, IInv, TypeOK, ConversationMatchesTrace,
                  BudgetHeld, VerdictConsistent, Finished, UnderCap
  <1> QED
    BY <1>1, <1>2, <1>3 DEF Next, Step

LEMMA Invariant == Spec => []IInv
  BY InvariantInit, InvariantStep, PTL DEF Spec

\* Every tool_use is answered by its own tool_result, for every model.
THEOREM ConversationCorrect == Spec => []ConversationMatchesTrace
  BY Invariant, PTL DEF IInv

\* No call starts over a cap, for all caps and prices.
THEOREM BudgetCorrect == Spec => []BudgetHeld
  BY Invariant, PTL DEF IInv

\* stop_reason tells the caller what the record holds.
THEOREM VerdictCorrect == Spec => []VerdictConsistent
  BY Invariant, PTL DEF IInv

-----------------------------------------------------------------------------
(* Properties of single steps.                                             *)

\* A completion that is received is recorded once, with the next number.
LEMMA ReceiveBills ==
    ASSUME IInv, NEW c \in Completions, Receive(c)
    PROVE  BillingStep /\ Len(iterations') = Len(iterations) + 1
  <1> USE DEF IInv
  <1>1. PICK calls \in Seq(ToolCall), results \in Seq(Result) : Bill(c, calls, results)
    <2>1. << >> \in Seq(ToolCall) /\ << >> \in Seq(Result)
      OBVIOUS
    <2>2. c.calls \in Seq(ToolCall) /\ ToolResults(c) \in Seq(Result)
      BY CompletionType, ToolResultsAnswer
    <2> QED
      BY <2>1, <2>2
      DEF Receive, SubmitDiagnosis, MalformedSubmit, GiveUp, RunTools, RaiseInTools
  <1> DEFINE it == Billed(c, calls, results)
  <1>2. /\ Len(iterations') = Len(iterations) + 1
        /\ iterations'[Len(iterations) + 1] = it
        /\ totalCost' = totalCost + c.cost
        /\ Len(iterations) \in Nat
    BY <1>1, BillAppends
  <1>3. pc = "awaiting"
    BY DEF Receive, SubmitDiagnosis, MalformedSubmit, GiveUp, RunTools, RaiseInTools
  <1>4. Len(iterations) + 1 = iterN
    BY <1>3 DEF ConversationMatchesTrace, Finished, TypeOK
  <1>5. iterations'[iterN] = it /\ iterations' # iterations
    BY <1>2, <1>4
  <1>6. iterations' = Append(iterations, iterations'[iterN])
    BY <1>1, <1>5 DEF Bill
  <1>7. /\ iterations'[iterN].n = iterN
        /\ totalCost' = totalCost + iterations'[iterN].cost
    BY <1>2, <1>5 DEF Billed
  <1> QED
    BY <1>2, <1>5, <1>6, <1>7 DEF BillingStep

\* The steps that use no completion bill nothing.
LEMMA OtherStepsBillNothing ==
    ASSUME CallModel \/ HitCostCap \/ ExhaustIterations \/ ProviderRaises \/ UNCHANGED vars
    PROVE  BillingStep /\ UNCHANGED trace
  <1>1. UNCHANGED trace
    BY DEF CallModel, HitCostCap, ExhaustIterations, ProviderRaises, vars
  <1>2. pc = "awaiting" => pc' \in {"awaiting", "raised"}
    BY DEF CallModel, HitCostCap, ExhaustIterations, ProviderRaises, Raise, vars
  <1> QED
    BY <1>1, <1>2 DEF BillingStep, trace

\* History is only ever appended to, one billed iteration at a time.
THEOREM BillingCorrect == Spec => BilledOnce
  <1>1. IInv /\ [Next]_vars => [BillingStep]_vars
    <2> SUFFICES ASSUME IInv, [Next]_vars PROVE BillingStep
      OBVIOUS
    <2>1. ASSUME NEW c \in Completions, Receive(c) PROVE BillingStep
      BY <2>1, ReceiveBills
    <2> QED
      BY <2>1, OtherStepsBillNothing DEF Next, Step, Over
  <1> QED
    BY <1>1, Invariant, PTL DEF Spec, BilledOnce

-----------------------------------------------------------------------------
(* The refinement of MeteredRun.                                           *)

\* The head steps and a lost provider are steps of the metered run.
LEMMA HeadRefines ==
    ASSUME IInv, CallModel \/ HitCostCap \/ ExhaustIterations \/ ProviderRaises
    PROVE  [Metered!Next]_(Metered!meterVars)
  <1> USE DEF IInv
  <1>1. /\ Len(iterations) = iterN - 1
        /\ Len(iterations) \in Nat
        /\ Len(iterations) <= MaxIterations
        /\ iterN \in Nat /\ totalCost \in Nat
        /\ MaxIterations \in Nat /\ MaxCost \in Nat
        /\ stopReason = "none" /\ pc \in {"loop", "awaiting"}
    <2>1. ~Finished /\ pc \in {"loop", "awaiting"}
      BY DEF CallModel, HitCostCap, ExhaustIterations, ProviderRaises, Finished
    <2>2. stopReason = "none"
      BY <2>1 DEF VerdictConsistent
    <2>3. /\ Len(iterations) = iterN - 1
          /\ Len(iterations) <= MaxIterations
      BY <2>1 DEF ConversationMatchesTrace, BudgetHeld
    <2> QED
      BY <2>1, <2>2, <2>3, LoopAssumption DEF TypeOK
  <1>2. outcome = "running"
    BY <1>1 DEF outcome
  <1>3. UNCHANGED <<iterations, totalCost>>
    BY DEF CallModel, HitCostCap, ExhaustIterations, ProviderRaises, trace
  <1>4. CASE CallModel
    <2>1. outcome' = outcome
      BY <1>1, <1>4 DEF CallModel, outcome, verdict
    <2> QED
      BY <1>3, <2>1 DEF Metered!meterVars
  <1>5. CASE HitCostCap
    <2>1. outcome' = "cost_cap"
      BY <1>5 DEF HitCostCap, Stop, outcome
    <2>2. Len(iterations) < MaxIterations /\ totalCost >= MaxCost
      BY <1>1, <1>5 DEF HitCostCap, UnderCap
    <2> QED
      BY <1>2, <1>3, <2>1, <2>2 DEF Metered!Next, Metered!StopAtBudget
  <1>6. CASE ExhaustIterations
    <2>1. outcome' = "max_iterations"
      BY <1>6 DEF ExhaustIterations, Stop, outcome
    <2>2. Len(iterations) = MaxIterations
      BY <1>1, <1>6 DEF ExhaustIterations
    <2> QED
      BY <1>2, <1>3, <2>1, <2>2 DEF Metered!Next, Metered!StopAtLimit
  <1>7. CASE ProviderRaises
    <2>1. outcome' = "raised"
      BY <1>7 DEF ProviderRaises, Raise, outcome
    <2>2. Len(iterations) < MaxIterations /\ totalCost < MaxCost
      BY <1>1, <1>7 DEF ProviderRaises, BudgetHeld, UnderCap
    <2> QED
      BY <1>2, <1>3, <2>1, <2>2 DEF Metered!Next, Metered!Lose, Metered!MayCall
  <1> QED
    BY <1>4, <1>5, <1>6, <1>7

\* Receiving a completion pays its price, once, under both limits.
LEMMA ReceiveRefines ==
    ASSUME IInv, NEW c \in Completions, Receive(c)
    PROVE  [Metered!Next]_(Metered!meterVars)
  <1> USE DEF IInv
  <1>1. pc = "awaiting"
    BY DEF Receive, SubmitDiagnosis, MalformedSubmit, GiveUp, RunTools, RaiseInTools
  <1>2. /\ stopReason = "none"
        /\ Len(iterations) = iterN - 1
        /\ iterN <= MaxIterations
        /\ totalCost < MaxCost
    BY <1>1 DEF Finished, VerdictConsistent, ConversationMatchesTrace, BudgetHeld, UnderCap
  <1>3. Metered!MayCall
    <2>1. iterN \in Nat /\ MaxIterations \in Nat
      BY LoopAssumption DEF TypeOK
    <2>2. Len(iterations) < MaxIterations
      BY <1>2, <2>1
    <2>3. outcome = "running"
      BY <1>1, <1>2 DEF outcome
    <2> QED
      BY <1>2, <2>2, <2>3 DEF Metered!MayCall
  <1>4. outcome' \in {"running", "diagnosis_submitted", "error", "raised"}
    BY <1>2 DEF Receive, SubmitDiagnosis, MalformedSubmit, GiveUp, RunTools,
                RaiseInTools, Stop, Raise, outcome, verdict
  <1>5. totalCost' = totalCost + c.cost
    BY DEF Receive, SubmitDiagnosis, MalformedSubmit, GiveUp, RunTools, RaiseInTools, Bill
  <1>6. Metered!Pay(c.cost)
    BY <1>3, <1>4, <1>5, ReceiveBills DEF Metered!Pay
  <1> QED
    BY <1>6 DEF Metered!Next

\* Every behaviour of the loop is one of the metered run (safety part).
THEOREM LoopImplementsMeteredRun ==
    Spec => Metered!Init /\ [][Metered!Next]_(Metered!meterVars)
  <1>1. Init => Metered!Init
    BY DEF Init, Metered!Init, outcome
  <1>2. IInv /\ [Next]_vars => [Metered!Next]_(Metered!meterVars)
    <2> SUFFICES ASSUME IInv, [Next]_vars
                 PROVE  [Metered!Next]_(Metered!meterVars)
      OBVIOUS
    <2>1. CASE CallModel \/ HitCostCap \/ ExhaustIterations \/ ProviderRaises
      BY <2>1, HeadRefines
    <2>2. ASSUME NEW c \in Completions, Receive(c)
          PROVE  [Metered!Next]_(Metered!meterVars)
      BY <2>2, ReceiveRefines
    <2>3. CASE Over \/ UNCHANGED vars
      BY <2>3 DEF Over, vars, trace, verdict, outcome, Metered!meterVars
    <2> QED
      BY <2>1, <2>2, <2>3 DEF Next, Step
  <1> QED
    BY <1>1, <1>2, Invariant, PTL DEF Spec
=============================================================================
