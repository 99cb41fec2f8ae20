---------------------------- MODULE CircuitBreaker ----------------------------
(***************************************************************************)
(* One entry of CircuitBreakerRegistry (providers/circuit_breaker.py) and  *)
(* the registry's three methods as operators on an entry.  The registry    *)
(* itself is a function from provider to entry, kept by ProviderRouter:    *)
(* the router calls several of these methods between two awaits, in one    *)
(* atomic step, so they are functions and not actions.                     *)
(***************************************************************************)
EXTENDS Integers

CONSTANTS
    FailureThreshold,  \* consecutive failures that open a circuit
    ResetTimeout       \* clock ticks an open circuit rejects calls for

(* Neither value is validated by FailoverConfig beyond its type. *)
ASSUME BreakerAssumption ==
    FailureThreshold \in Int /\ ResetTimeout \in Int

CircuitState == {"closed", "open", "half_open"}

(* _BreakerEntry *)
Entry == [state : CircuitState, failures : Nat, openedAt : Nat]

(* What _entry() creates the first time a provider is named. *)
FreshEntry == [state |-> "closed", failures |-> 0, openedAt |-> 0]

(* before_call at time t returns, rather than raising CircuitOpenError. *)
Admits(e, t) == e.state = "open" => t - e.openedAt >= ResetTimeout

(* The effect of a before_call that returns. *)
BeforeCall(e) == IF e.state = "open" THEN [e EXCEPT !.state = "half_open"] ELSE e

(* Mutant: a success closes the circuit and leaves the count alone. *)
OnSuccessKeepsCount(e) == [e EXCEPT !.state = "closed"]

(* on_success: from any state, an open one included. *)
OnSuccess(e) == [e EXCEPT !.state = "closed", !.failures = 0]

(* Does this failure, the count already raised, open the circuit? *)
Trips(e) == e.state = "half_open" \/ e.failures + 1 >= FailureThreshold

(* Mutant: the circuit reopens and its timer is not restarted. *)
OnFailureKeepsTimer(e, t) ==
    [e EXCEPT !.failures = @ + 1, !.state = IF Trips(e) THEN "open" ELSE @]

(* on_failure at time t *)
OnFailure(e, t) ==
    [state    |-> IF Trips(e) THEN "open" ELSE e.state,
     failures |-> e.failures + 1,
     openedAt |-> IF Trips(e) THEN t ELSE e.openedAt]

(* The count and the state tell the same story: a circuit is closed exactly *)
(* while the failures since the last success stay below the threshold.      *)
CountAgrees(e) ==
    e.state = "closed" <=> (e.failures = 0 \/ e.failures < FailureThreshold)

=============================================================================
