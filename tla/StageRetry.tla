----------------------------- MODULE StageRetry -----------------------------
(***************************************************************************)
(* The decisions of executeWithRetry (engine.go): whether an attempt of a  *)
(* stage is the last one, on which model the next one runs, and what the   *)
(* stage's outcome is.  The policy of each stage is read off its node and  *)
(* its graph once, before the first attempt.                               *)
(*                                                                         *)
(* What an attempt gives is one of Result: "ok"; "missing", an ok attempt  *)
(* that did not leave the files the node declares as outputs; and three    *)
(* failures, told apart by classifyFailureClass: "transient",              *)
(* "capability" (budget_exhausted, compilation_loop) and "fatal".          *)
(***************************************************************************)
EXTENDS Naturals

CONSTANTS
    Stage,        \* nodes
    MaxRetries,   \* max_retries of each node, with the defaults applied
    IsTool,       \* does the node have a tool_command
    AllowsPartial,\* allow_partial of each node
    Escalations,  \* length of each node's escalation_models
    RBE           \* retries_before_escalation of the graph

ASSUME StageAssumption ==
    /\ MaxRetries \in [Stage -> Nat]
    /\ IsTool \in [Stage -> BOOLEAN]
    /\ AllowsPartial \in [Stage -> BOOLEAN]
    /\ Escalations \in [Stage -> Nat]
    /\ RBE \in Nat

Result == {"ok", "missing", "transient", "capability", "fatal"}
Outcome == {"ok", "partial", "fail", "canceled"}

\* attempt: the loop variable; fails, idx: escalationFailCount and the number of
\* the model in use, 0 for the node's own.  caps, the capability failures so far,
\* is a record of the past.
Try == [attempt : Nat, fails : Nat, idx : Nat, caps : Nat]
FirstTry == [attempt |-> 1, fails |-> 0, idx |-> 0, caps |-> 0]

\* shouldRetryOutcome; a missing output is a deterministic failure
shouldRetryOutcome(result) == result \in {"transient", "capability"}

\* Mutant: one attempt too many.
CanRetryOnce(s, try, result) ==
    /\ try.attempt <= MaxRetries[s] + 1
    /\ IsTool[s] \/ shouldRetryOutcome(result)

\* canRetry for an attempt that did not succeed
CanRetry(s, try, result) ==
    /\ try.attempt < MaxRetries[s] + 1
    /\ IsTool[s] \/ shouldRetryOutcome(result)

\* isEscalatableFailureClass, for a node that has models to escalate to
Escalatable(s, result) == ~IsTool[s] /\ result = "capability" /\ Escalations[s] > 0

\* Mutant: the budget of the model counts the failure that uses it up.
SwitchesEarly(s, try, result) ==
    /\ Escalatable(s, result)
    /\ try.fails + 1 >= RBE
    /\ try.idx < Escalations[s]

\* A further model is taken up after this failure.
Switches(s, try, result) ==
    /\ Escalatable(s, result)
    /\ try.fails + 1 > RBE
    /\ try.idx < Escalations[s]

\* The loop's variables for the attempt after one that failed with result.
Failures(s, try, result) ==
    IF Switches(s, try, result) THEN 0
    ELSE IF Escalatable(s, result) THEN try.fails + 1 ELSE try.fails

Model(s, try, result) == IF Switches(s, try, result) THEN try.idx + 1 ELSE try.idx

\* Mutant: a further model gets all the attempts again.
NextTryAfresh(s, try, result) ==
    [attempt |-> IF Switches(s, try, result) THEN 1 ELSE try.attempt + 1,
     fails   |-> Failures(s, try, result),
     idx     |-> Model(s, try, result),
     caps    |-> IF result = "capability" THEN try.caps + 1 ELSE try.caps]

NextTry(s, try, result) ==
    [attempt |-> try.attempt + 1,
     fails   |-> Failures(s, try, result),
     idx     |-> Model(s, try, result),
     caps    |-> IF result = "capability" THEN try.caps + 1 ELSE try.caps]

\* The outcome when no attempt is left or allowed.
Exhausted(s) == IF AllowsPartial[s] THEN "partial" ELSE "fail"
=============================================================================
