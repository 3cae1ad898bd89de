------------------------------ MODULE LlmRunner ------------------------------
(***************************************************************************)
(* LLMRunner.run (runner.ts): a call of a language model with its retries  *)
(* and its budget, as a record that every reply of the provider moves on.  *)
(* The callers in the apps pass no schema, so the text is returned as it   *)
(* came.                                                                   *)
(***************************************************************************)
EXTENDS Integers

CONSTANTS
  MaxRetries,    \* retryConfig.maxRetries
  RetryOn,       \* retryConfig.retryOn
  MaxTotalCost   \* budget.maxTotalCost

RetryCondition == {"rate_limit", "timeout", "server_error", "parse_error", "invalid_response"}

ASSUME RunnerAssumption ==
  /\ MaxRetries \in Nat /\ MaxTotalCost \in Nat
  /\ RetryOn \subseteq RetryCondition

(* What a provider does with a request: an answer and what it cost, success   *)
(* FALSE, or an error thrown.  The text of an answer may be empty.            *)
Text == {"", "good", "bad"}
Reply ==
  [kind : {"answer"}, cost : Nat, text : Text]
    \cup [kind : {"refusal"}] \cup [kind : {"throw"}, condition : RetryCondition]

(* A call: the attempt it is at while it runs, and what run() returned.       *)
NewCall == [pc |-> "running", attempt |-> 0, success |-> FALSE, text |-> ""]
Returned(call, success, text) == [call EXCEPT !.pc = "returned", !.success = success, !.text = text]
ErrorResponse(call) == Returned(call, FALSE, "")

ShouldRetry(call, condition) == call.attempt < MaxRetries /\ condition \in RetryOn

RetryOrFail(call, condition) ==
  IF ShouldRetry(call, condition) THEN [call EXCEPT !.attempt = @ + 1] ELSE ErrorResponse(call)

Attempted(call, reply) ==
  CASE reply.kind = "refusal" -> RetryOrFail(call, "server_error")
    [] reply.kind = "throw" -> RetryOrFail(call, reply.condition)
    [] reply.kind = "answer" ->
         IF reply.cost > MaxTotalCost THEN ErrorResponse(call)
         ELSE Returned(call, TRUE, reply.text)

(* response.success && response.rawContent                                    *)
HasContent(call) == call.success /\ call.text # ""
=============================================================================
