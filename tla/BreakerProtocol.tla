---------------------------- MODULE BreakerProtocol ----------------------------
(***************************************************************************)
(* What the module docstring of providers/circuit_breaker.py promises of   *)
(* one provider's circuit:                                                 *)
(*                                                                         *)
(*   CLOSED -> (N consecutive failures) -> OPEN                            *)
(*     -> (after reset_timeout) -> HALF_OPEN                               *)
(*       -> (1 success) -> CLOSED                                          *)
(*       -> (1 failure) -> OPEN, timer restarts                            *)
(*                                                                         *)
(* The abstract specification the router's breaker table is compared with. *)
(***************************************************************************)
EXTENDS Integers

CONSTANTS FailureThreshold, ResetTimeout

VARIABLES
    state,      \* "closed", "open" or "half_open"
    failures,   \* failures since the last success
    openedAt,   \* when the timer was last started
    now         \* the clock, moved by the environment

breaker == <<state, failures, openedAt>>

Init == state = "closed" /\ failures = 0 /\ openedAt = 0

(* A call ends well: only in a state that lets calls through. *)
Succeed ==
    /\ state \in {"closed", "half_open"}
    /\ state' = "closed"
    /\ failures' = 0
    /\ UNCHANGED openedAt

(* A failure that is not the N-th in a row. *)
FailBelowThreshold ==
    /\ state = "closed"
    /\ failures + 1 < FailureThreshold
    /\ failures' = failures + 1
    /\ UNCHANGED <<state, openedAt>>

(* The N-th failure in a row, or the failure of a probe. *)
Open ==
    /\ \/ state = "closed" /\ failures + 1 >= FailureThreshold
       \/ state = "half_open"
    /\ state' = "open"
    /\ failures' = failures + 1
    /\ openedAt' = now

Probe ==
    /\ state = "open"
    /\ now - openedAt >= ResetTimeout
    /\ state' = "half_open"
    /\ UNCHANGED <<failures, openedAt>>

Next == Succeed \/ FailBelowThreshold \/ Open \/ Probe

Spec == Init /\ [][Next]_breaker

=============================================================================
