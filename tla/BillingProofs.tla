--------------------------- MODULE BillingProofs ---------------------------
(***************************************************************************)
(* What the totals of a run are worth, for every price table, every model  *)
(* and every usage the vendor reports: the cost of a record covers its     *)
(* tokens, and each call is billed within the rates of the table.          *)
(***************************************************************************)
EXTENDS AgentLoopProofs

-----------------------------------------------------------------------------
(* Arithmetic of prices.                                                   *)

LEMMA Distributes ==
    ASSUME NEW r \in Nat, NEW x \in Nat, NEW y \in Nat
    PROVE  r * (x + y) = r * x + r * y /\ r * x \in Nat
  OBVIOUS

LEMMA Monotonic ==
    ASSUME NEW r \in Nat, NEW x \in Nat, NEW y \in Nat, x <= y
    PROVE  r * x <= r * y
  <1>1. PICK d \in Nat : y = x + d
    <2>1. y - x \in Nat /\ y = x + (y - x)
      OBVIOUS
    <2> QED
      BY <2>1
  <1>2. r * y = r * x + r * d /\ r * d \in Nat /\ r * x \in Nat
    BY <1>1, Distributes
  <1> QED
    BY <1>2

LEMMA CheaperRate ==
    ASSUME NEW r \in Nat, NEW s \in Nat, NEW x \in Nat, r <= s
    PROVE  r * x <= s * x
  <1>1. x * r <= x * s
    BY Monotonic
  <1>2. x * r = r * x /\ x * s = s * x
    OBVIOUS
  <1> QED
    BY <1>1, <1>2

-----------------------------------------------------------------------------
(* EstimateCost.                                                           *)

\* The estimate of a whole never exceeds the estimates of its parts, and is
\* their sum when neither part counts more cached than prompt tokens.
LEMMA EstimateAdds ==
    ASSUME NEW a \in Tokens, NEW b \in Tokens
    PROVE  LET whole == EstimateCost(Model, AddTokens(a, b))
               parts == EstimateCost(Model, a) + EstimateCost(Model, b)
           IN  /\ EstimateCost(Model, a) \in Nat
               /\ whole \in Nat
               /\ whole <= parts
               /\ a.cached <= a.prompt /\ b.cached <= b.prompt => whole = parts
  <1> DEFINE ab == AddTokens(a, b)
             P == Pricing[Model].prompt
             K == Pricing[Model].cached
             C == Pricing[Model].completion
  <1>1. CASE Model \notin DOMAIN Pricing
    BY <1>1 DEF EstimateCost
  <1>2. CASE Model \in DOMAIN Pricing
    <2>1. P \in Nat /\ K \in Nat /\ C \in Nat
      BY <1>2, PricingAssumption DEF Tokens
    <2>2. /\ a.cached \in Nat /\ a.prompt \in Nat /\ a.completion \in Nat
          /\ b.cached \in Nat /\ b.prompt \in Nat /\ b.completion \in Nat
          /\ ab.cached = a.cached + b.cached
          /\ ab.prompt = a.prompt + b.prompt
          /\ ab.completion = a.completion + b.completion
      BY DEF Tokens, AddTokens
    <2>3. /\ Uncached(a) \in Nat /\ Uncached(b) \in Nat /\ Uncached(ab) \in Nat
          /\ Uncached(ab) <= Uncached(a) + Uncached(b)
          /\ a.cached <= a.prompt /\ b.cached <= b.prompt
                => Uncached(ab) = Uncached(a) + Uncached(b)
      BY <2>2 DEF Uncached
    <2> HIDE DEF P, K, C, ab
    <2>4. /\ P * Uncached(ab) <= P * Uncached(a) + P * Uncached(b)
          /\ P * Uncached(a) \in Nat /\ P * Uncached(b) \in Nat /\ P * Uncached(ab) \in Nat
          /\ a.cached <= a.prompt /\ b.cached <= b.prompt
                => P * Uncached(ab) = P * Uncached(a) + P * Uncached(b)
      <3>1. Uncached(a) + Uncached(b) \in Nat
        BY <2>3
      <3>2. P * Uncached(ab) <= P * (Uncached(a) + Uncached(b))
        BY <2>1, <2>3, <3>1, Monotonic
      <3>3. /\ P * (Uncached(a) + Uncached(b)) = P * Uncached(a) + P * Uncached(b)
            /\ P * Uncached(a) \in Nat /\ P * Uncached(b) \in Nat /\ P * Uncached(ab) \in Nat
        BY <2>1, <2>3, Distributes
      <3> QED
        BY <2>3, <3>2, <3>3
    <2>5. /\ K * ab.cached = K * a.cached + K * b.cached
          /\ K * a.cached \in Nat /\ K * b.cached \in Nat
      BY <2>1, <2>2, Distributes
    <2>6. /\ C * ab.completion = C * a.completion + C * b.completion
          /\ C * a.completion \in Nat /\ C * b.completion \in Nat
      BY <2>1, <2>2, Distributes
    <2>7. /\ EstimateCost(Model, a) = P * Uncached(a) + K * a.cached + C * a.completion
          /\ EstimateCost(Model, b) = P * Uncached(b) + K * b.cached + C * b.completion
          /\ EstimateCost(Model, ab) = P * Uncached(ab) + K * ab.cached + C * ab.completion
      BY <1>2 DEF EstimateCost, P, K, C
    <2>8. /\ EstimateCost(Model, a) \in Nat
          /\ EstimateCost(Model, ab) \in Nat
          /\ EstimateCost(Model, ab) <= EstimateCost(Model, a) + EstimateCost(Model, b)
      BY <2>4, <2>5, <2>6, <2>7
    <2>9. a.cached <= a.prompt /\ b.cached <= b.prompt =>
             EstimateCost(Model, ab) = EstimateCost(Model, a) + EstimateCost(Model, b)
      BY <2>4, <2>5, <2>6, <2>7
    <2> QED
      BY <2>8, <2>9 DEF ab
  <1> QED
    BY <1>1, <1>2

\* Every token is billed once, between the cache rate and the prompt rate.
LEMMA EstimateWithinRates ==
    ASSUME NEW used \in Tokens, Model \in DOMAIN Pricing
    PROVE  LET rate == Pricing[Model]
               sent == IF used.cached <= used.prompt THEN used.prompt ELSE used.cached
               output == rate.completion * used.completion
           IN  /\ rate.cached * sent + output <= EstimateCost(Model, used)
               /\ EstimateCost(Model, used) <= rate.prompt * sent + output
  <1> DEFINE P == Pricing[Model].prompt
             K == Pricing[Model].cached
             C == Pricing[Model].completion
             output == C * used.completion
             sent == IF used.cached <= used.prompt THEN used.prompt ELSE used.cached
             fresh == Uncached(used)
  <1>1. P \in Nat /\ K \in Nat /\ C \in Nat /\ K <= P
    BY PricingAssumption DEF Tokens
  <1>2. used.cached \in Nat /\ used.prompt \in Nat /\ used.completion \in Nat
    BY DEF Tokens
  <1>3. fresh \in Nat /\ sent = fresh + used.cached /\ sent \in Nat
    BY <1>2 DEF Uncached
  <1>4. EstimateCost(Model, used) = P * fresh + K * used.cached + output
    BY DEF EstimateCost
  <1> HIDE DEF P, K, C, fresh, sent
  <1>5. output \in Nat
    BY <1>1, <1>2, Distributes
  <1>6. K * sent = K * fresh + K * used.cached /\ P * sent = P * fresh + P * used.cached
    BY <1>1, <1>2, <1>3, Distributes
  <1>7. /\ K * fresh \in Nat /\ P * fresh \in Nat
        /\ K * used.cached \in Nat /\ P * used.cached \in Nat
    BY <1>1, <1>2, <1>3, Distributes
  <1>8. K * fresh <= P * fresh /\ K * used.cached <= P * used.cached
    BY <1>1, <1>2, <1>3, CheaperRate
  <1> HIDE DEF output
  <1>9. /\ K * sent + output <= EstimateCost(Model, used)
        /\ EstimateCost(Model, used) <= P * sent + output
    BY <1>4, <1>5, <1>6, <1>7, <1>8
  <1> QED
    BY <1>9 DEF P, K, C, output, sent

-----------------------------------------------------------------------------
(* The invariant: the totals add up, iteration by iteration.               *)

Regular(used) == used.cached <= used.prompt

BillingInv ==
    /\ IInv
    /\ \A k \in 1 .. Len(iterations) :
          /\ iterations[k].usage \in Tokens
          /\ iterations[k].cost = EstimateCost(Model, iterations[k].usage)
    /\ EstimateCost(Model, totalUsage) <= totalCost
    /\ (\A k \in 1 .. Len(iterations) : Regular(iterations[k].usage))
       => Regular(totalUsage) /\ totalCost = EstimateCost(Model, totalUsage)

LEMMA BillingInit == Init => BillingInv
  <1> SUFFICES ASSUME Init PROVE BillingInv
    OBVIOUS
  <1>1. IInv
    BY InvariantInit
  <1>2. EstimateCost(Model, NoTokens) = 0
    <2>1. CASE Model \in DOMAIN Pricing
      <3>1. Pricing[Model] \in Tokens
        BY <2>1, PricingAssumption
      <3>2. /\ Pricing[Model].prompt * 0 = 0
            /\ Pricing[Model].cached * 0 = 0
            /\ Pricing[Model].completion * 0 = 0
        BY <3>1 DEF Tokens
      <3>3. Uncached(NoTokens) = 0
        BY DEF Uncached, NoTokens
      <3> QED
        BY <2>1, <3>2, <3>3 DEF EstimateCost, NoTokens
    <2> QED
      BY <2>1 DEF EstimateCost
  <1>3. Regular(NoTokens)
    BY DEF Regular, NoTokens
  <1>4. Len(iterations) = 0 /\ totalCost = 0 /\ totalUsage = NoTokens
    BY DEF Init
  <1> QED
    BY <1>1, <1>2, <1>3, <1>4 DEF BillingInv

LEMMA BillingReceive ==
    ASSUME BillingInv, NEW c \in Completions, Receive(c)
    PROVE  BillingInv'
  <1>0. IInv /\ TypeOK
    BY DEF BillingInv, IInv
  <1>1. IInv'
    BY <1>0, InvariantStep DEF Next, Step
  <1>2. PICK calls \in Seq(ToolCall), results \in Seq(Result) : Bill(c, calls, results)
    <2>1. << >> \in Seq(ToolCall) /\ << >> \in Seq(Result)
      OBVIOUS
    <2>2. c.calls \in Seq(ToolCall) /\ ToolResults(c) \in Seq(Result)
      BY CompletionType, ToolResultsAnswer
    <2> QED
      BY <2>1, <2>2
      DEF Receive, SubmitDiagnosis, MalformedSubmit, GiveUp, RunTools, RaiseInTools
  <1> DEFINE last == Len(iterations) + 1
  <1>3. /\ Len(iterations) \in Nat
        /\ Len(iterations') = last
        /\ \A k \in 1 .. Len(iterations) : iterations'[k] = iterations[k]
        /\ iterations'[last].usage = c.usage
        /\ iterations'[last].cost = c.cost
        /\ totalCost' = totalCost + c.cost
        /\ totalUsage' = AddTokens(totalUsage, c.usage)
    <2>1. /\ Len(iterations) \in Nat
          /\ Len(iterations') = last
          /\ \A k \in 1 .. Len(iterations) : iterations'[k] = iterations[k]
          /\ iterations'[last] = Billed(c, calls, results)
          /\ totalCost' = totalCost + c.cost
          /\ totalUsage' = AddTokens(totalUsage, c.usage)
      BY <1>0, <1>2, BillAppends
    <2>2. iterations'[last].usage = c.usage /\ iterations'[last].cost = c.cost
      BY <2>1 DEF Billed
    <2> QED
      BY <2>1, <2>2
  <1>4. /\ c.usage \in Tokens /\ totalUsage \in Tokens
        /\ c.cost = EstimateCost(Model, c.usage)
        /\ c.cost \in Nat /\ totalCost \in Nat
    BY <1>0, CompletionType, PriceAssumption DEF TypeOK
  <1>5. \A k \in 1 .. Len(iterations') : k = last \/ k \in 1 .. Len(iterations)
    BY <1>3
  <1>6. \A k \in 1 .. Len(iterations') :
           /\ iterations'[k].usage \in Tokens
           /\ iterations'[k].cost = EstimateCost(Model, iterations'[k].usage)
    BY <1>3, <1>4, <1>5 DEF BillingInv
  <1> DEFINE whole == EstimateCost(Model, AddTokens(totalUsage, c.usage))
             sofar == EstimateCost(Model, totalUsage)
  <1>7. /\ whole \in Nat /\ sofar \in Nat
        /\ whole <= sofar + c.cost
        /\ Regular(totalUsage) /\ Regular(c.usage) => whole = sofar + c.cost
    BY <1>4, EstimateAdds DEF Regular
  <1>8. sofar <= totalCost
    BY DEF BillingInv
  <1>9. whole <= totalCost + c.cost
    <2> HIDE DEF whole, sofar
    <2> QED
      BY <1>4, <1>7, <1>8
  <1>10. ASSUME \A k \in 1 .. Len(iterations') : Regular(iterations'[k].usage)
         PROVE  Regular(totalUsage') /\ totalCost' = EstimateCost(Model, totalUsage')
    <2>1. \A k \in 1 .. Len(iterations) : Regular(iterations[k].usage)
      BY <1>3, <1>10
    <2>2. Regular(totalUsage) /\ totalCost = sofar
      BY <2>1 DEF BillingInv
    <2>3. Regular(c.usage)
      BY <1>3, <1>10
    <2>4. Regular(AddTokens(totalUsage, c.usage))
      BY <1>4, <2>2, <2>3 DEF Regular, AddTokens, Tokens
    <2> QED
      BY <1>3, <1>7, <2>2, <2>3, <2>4
  <1> QED
    BY <1>1, <1>3, <1>6, <1>9, <1>10 DEF BillingInv

LEMMA BillingStepKeeps == BillingInv /\ [Next]_vars => BillingInv'
  <1> SUFFICES ASSUME BillingInv, [Next]_vars PROVE BillingInv'
    OBVIOUS
  <1>1. ASSUME NEW c \in Completions, Receive(c) PROVE BillingInv'
    BY <1>1, BillingReceive
  <1>2. CASE UNCHANGED trace
    <2>1. IInv'
      BY InvariantStep DEF BillingInv
    <2> QED
      BY <1>2, <2>1 DEF trace, BillingInv
  <1> QED
    BY <1>1, <1>2, OtherStepsBillNothing DEF Next, Step, Over

LEMMA BillingInvariant == Spec => []BillingInv
  BY BillingInit, BillingStepKeeps, PTL DEF Spec

LEMMA TraceDomain ==
    ASSUME TypeOK
    PROVE  DOMAIN iterations = 1 .. Len(iterations)
  <1>1. iterations \in Seq(Iteration)
    BY DEF TypeOK
  <1> QED
    BY <1>1

\* The cost on a record covers the tokens on it, for all prices and usages.
THEOREM CostCorrect == Spec => []CostCoversUsage
  <1>1. BillingInv => CostCoversUsage
    <2> SUFFICES ASSUME BillingInv PROVE CostCoversUsage
      OBVIOUS
    <2>1. TypeOK
      BY DEF BillingInv, IInv
    <2>2. totalUsage \in Tokens /\ totalCost \in Nat
      BY <2>1 DEF TypeOK
    <2>3. EstimateCost(Model, totalUsage) \in Nat
      BY <2>2, EstimateAdds
    <2>4. totalCost >= EstimateCost(Model, totalUsage)
      BY <2>2, <2>3 DEF BillingInv
    <2> QED
      BY <2>1, <2>4, TraceDomain DEF BillingInv, CostCoversUsage, Regular
  <1> QED
    BY <1>1, BillingInvariant, PTL

\* No call is billed outside the rates of its model.
THEOREM PricesCorrect == Spec => []PricedWithinRates
  <1>1. BillingInv => PricedWithinRates
    <2> SUFFICES ASSUME BillingInv PROVE PricedWithinRates
      OBVIOUS
    <2>1. DOMAIN iterations = 1 .. Len(iterations)
      BY TraceDomain DEF BillingInv, IInv
    <2>2. ASSUME NEW k \in 1 .. Len(iterations)
          PROVE  /\ iterations[k].usage \in Tokens
                 /\ iterations[k].cost = EstimateCost(Model, iterations[k].usage)
      BY DEF BillingInv
    <2> QED
      BY <2>1, <2>2, EstimateWithinRates DEF PricedWithinRates
  <1> QED
    BY <1>1, BillingInvariant, PTL
=============================================================================
