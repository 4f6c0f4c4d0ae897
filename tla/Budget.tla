------------------------------- MODULE Budget -------------------------------
(***************************************************************************)
(* runtime/budget.py: one Budget object for a run, a wake and the granted  *)
(* successor wakes it shares its allowance with.  The wall clock is the    *)
(* boolean `late`: elapsed time has reached max_wall_ms.                   *)
(***************************************************************************)
EXTENDS Records

CONSTANTS MaxIterations, MaxTokens, MaxToolCalls

ASSUME BudgetAssumption ==
    /\ MaxIterations \in Nat /\ MaxTokens \in Nat /\ MaxToolCalls \in Nat
    /\ None \notin {"budget:iterations", "budget:tokens", "budget:tool_calls",
                    "budget:wall_clock"}

Budgets == [iterations : Nat, tokens : Nat, tool_calls : Nat, late : BOOLEAN]

FreshBudget == [iterations |-> 0, tokens |-> 0, tool_calls |-> 0, late |-> FALSE]

Charge(b, tokens) ==
    [b EXCEPT !.iterations = @ + 1, !.tokens = @ + tokens]

ChargeToolCalls(b, n) == [b EXCEPT !.tool_calls = @ + n]

\* The first limit reached, in the order exceeded() looks, or None.
Exceeded(b) ==
    IF b.iterations >= MaxIterations THEN "budget:iterations"
    ELSE IF b.tokens >= MaxTokens THEN "budget:tokens"
    ELSE IF b.tool_calls >= MaxToolCalls THEN "budget:tool_calls"
    ELSE IF b.late THEN "budget:wall_clock"
    ELSE None

Allows(b) == Exceeded(b) = None
=============================================================================
