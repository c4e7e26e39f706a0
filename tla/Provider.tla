------------------------------ MODULE Provider -----------------------------
(***************************************************************************)
(* AnthropicProvider.complete after the vendor has answered: the response  *)
(* blocks become the tool calls of a completion, the usage fields become a *)
(* TokenUsage, and the price table turns them into an estimated cost.  The *)
(* request and the call itself are the vendor's; a call that fails is      *)
(* ProviderRaises of AgentLoop.                                            *)
(*                                                                         *)
(* Costs are in the unit in which every rate of _PRICING is a natural.     *)
(***************************************************************************)
EXTENDS Naturals, Sequences

CONSTANT
    Pricing            \* _PRICING: model -> rates per token

\* A response block: only a tool_use block has a call.  Other kinds (text,
\* thinking) never become one.
BlockTypes == {"text", "thinking", "tool_use"}

Tokens == [prompt : Nat, cached : Nat, completion : Nat]

\* A token read from the cache is never dearer than one that is not.
ASSUME PricingAssumption ==
    \A model \in DOMAIN Pricing :
        /\ Pricing[model] \in Tokens
        /\ Pricing[model].cached <= Pricing[model].prompt

NoTokens == [prompt |-> 0, cached |-> 0, completion |-> 0]

AddTokensWithoutCached(a, b) ==
    [prompt |-> a.prompt + b.prompt, cached |-> a.cached,
     completion |-> a.completion + b.completion]

\* The running total of a run's usage.
AddTokens(a, b) ==
    [prompt |-> a.prompt + b.prompt, cached |-> a.cached + b.cached,
     completion |-> a.completion + b.completion]

\* max(0, prompt - cached)
Uncached(usage) ==
    IF usage.cached <= usage.prompt THEN usage.prompt - usage.cached ELSE 0

EstimateIgnoringCache(model, usage) ==
    Pricing[model].prompt * usage.prompt
      + Pricing[model].cached * usage.cached
      + Pricing[model].completion * usage.completion

\* A model without a price is free.
EstimateCost(model, usage) ==
    IF model \notin DOMAIN Pricing THEN 0
    ELSE Pricing[model].prompt * Uncached(usage)
           + Pricing[model].cached * usage.cached
           + Pricing[model].completion * usage.completion

IsToolUse(block) == block.type = "tool_use"

\* The tool calls keep the order of their blocks.
CompletionOf(model, response) ==
    LET uses == SelectSeq(response.content, IsToolUse)
    IN  [calls |-> [i \in DOMAIN uses |-> uses[i].call],
         usage |-> response.usage,
         cost  |-> EstimateCost(model, response.usage)]
=============================================================================
