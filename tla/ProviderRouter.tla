---------------------------- MODULE ProviderRouter ----------------------------
(***************************************************************************)
(* ProviderRouter.route (src/aegis/providers/router.py) run by concurrent  *)
(* requests of one gateway process over one breaker registry.              *)
(*                                                                         *)
(* The process is a single asyncio event loop, so a request gives way to   *)
(* the others only at "await provider.chat".  A step of the model is what  *)
(* runs between two such awaits: for a failed call that is on_failure, the *)
(* walk over the remaining candidates with their before_call, and either   *)
(* the next provider.chat or the final NoHealthyProviderError.             *)
(***************************************************************************)
EXTENDS RoutingPolicy, CircuitBreaker, ProviderClients

CONSTANTS
    Request,      \* calls of route(), each made once
    Registered,   \* providers main.build_router constructs
    Reliable,     \* providers that always answer in this instance
    Events,       \* what backends do in this instance
    MaxTime       \* bound on the clock

ASSUME RouterAssumption ==
    /\ Registered \subseteq Provider
    /\ Reliable \subseteq Provider
    /\ Events \subseteq Event
    /\ MaxTime \in Nat

VARIABLES
    breakers,   \* CircuitBreakerRegistry._entries
    now,        \* time.monotonic()
    context,    \* each request's RoutingContext, an input
    status,     \* where each request is in route()
    attempt,    \* position in the candidate list of the call in flight
    started,    \* when the call in flight was made
    heard       \* what the backend did to the last call that ended

vars == <<breakers, now, context, status, attempt, started, heard>>

Outcome == {"success", "no_healthy", "auth_error", "crashed"}

Status == {"idle", "calling"} \cup Outcome

TypeOK ==
    /\ breakers \in [Provider -> Entry]
    /\ now \in Nat
    /\ context \in [Request -> Context]
    /\ status \in [Request -> Status]
    /\ attempt \in [Request -> Nat]
    /\ started \in [Request -> Nat]
    /\ heard \in [Request -> Event \cup {"none"}]

Init ==
    /\ breakers = [p \in Provider |-> FreshEntry]
    /\ now = 0
    /\ context \in [Request -> Context]
    /\ status = [r \in Request |-> "idle"]
    /\ attempt = [r \in Request |-> 0]
    /\ started = [r \in Request |-> 0]
    /\ heard = [r \in Request |-> "none"]

-----------------------------------------------------------------------------
(* The walk over the candidates. *)

Candidate(r, i) == CandidatesFor(context[r])[i]

Calling(r) == status[r] = "calling"

(* The provider a request in flight waits for. *)
Callee(r) == Candidate(r, attempt[r])

(* Candidate i of request r is registered and its circuit, in the breaker  *)
(* table b, lets a call through.                                           *)
Admissible(r, i, b) ==
    Candidate(r, i) \in Registered /\ Admits(b[Candidate(r, i)], now)

(* j is the first admissible position after position i. *)
IsNext(r, i, j, b) ==
    /\ j > i
    /\ Admissible(r, j, b)
    /\ \A k \in Slots(context[r]) : i < k /\ k < j => ~Admissible(r, k, b)

(* provider.chat of candidate j is awaited.  Whoever is registered is      *)
(* taken to be among the providers of the policy, where its model is read. *)
Call(r, j, b) ==
    /\ breakers' = [b EXCEPT ![Candidate(r, j)] = BeforeCall(@)]
    /\ status' = [status EXCEPT ![r] = "calling"]
    /\ attempt' = [attempt EXCEPT ![r] = j]
    /\ started' = [started EXCEPT ![r] = now]

(* route() is left with this outcome and breaker table b. *)
Leave(r, outcome, b) ==
    /\ breakers' = b
    /\ status' = [status EXCEPT ![r] = outcome]
    /\ UNCHANGED <<attempt, started>>

(* Mutant: with every circuit open the request waits for one to close. *)
ExhaustedWaits(r, b) ==
    /\ breakers' = b
    /\ status' = [status EXCEPT ![r] = "waiting"]
    /\ UNCHANGED <<attempt, started>>

(* NoHealthyProviderError after the loop, or before it on an empty list. *)
Exhausted(r, b) == Leave(r, "no_healthy", b)

(* The loop from position i on, with breaker table b, up to the next await. *)
Advance(r, i, b) ==
    \/ \E j \in Slots(context[r]) : IsNext(r, i, j, b) /\ Call(r, j, b)
    \/ /\ \A j \in Slots(context[r]) : j > i => ~Admissible(r, j, b)
       /\ Exhausted(r, b)

-----------------------------------------------------------------------------
(* What a call can end in. *)

Start(r) ==
    /\ status[r] = "idle"
    /\ Advance(r, 0, breakers)
    /\ UNCHANGED <<now, context, heard>>

(* The backend of the provider r waits for does something that its client  *)
(* turns into this result.                                                 *)
Hears(r, result) ==
    \E e \in Events :
        /\ Chat(Callee(r), e) = result
        /\ heard' = [heard EXCEPT ![r] = e]

AnswerSuccess(r) ==
    /\ Calling(r)
    /\ Hears(r, "response")
    /\ Leave(r, "success", [breakers EXCEPT ![Callee(r)] = OnSuccess(@)])
    /\ UNCHANGED <<now, context>>

(* Mutant: one breaker entry shared by all providers. *)
ChargeSharedEntry(r) == [p \in Provider |-> OnFailure(breakers[p], now)]

(* Mutant: on_failure is called where the error is caught and once more. *)
ChargeTwice(r) ==
    [breakers EXCEPT ![Callee(r)] = OnFailure(OnFailure(@, now), now)]

(* The breaker table after on_failure for the provider that failed. *)
Charge(r) == [breakers EXCEPT ![Callee(r)] = OnFailure(@, now)]

(* on_failure, and on to the next candidate.                               *)
AnswerFailure(r) ==
    /\ Calling(r)
    /\ Callee(r) \notin Reliable
    /\ Hears(r, "provider_error")
    /\ Advance(r, attempt[r], Charge(r))
    /\ UNCHANGED <<now, context>>

(* ProviderAuthError is re-raised: no failover, the breaker hears nothing. *)
AnswerAuthError(r) ==
    /\ Calling(r)
    /\ Callee(r) \notin Reliable
    /\ Hears(r, "auth_error")
    /\ Leave(r, "auth_error", breakers)
    /\ UNCHANGED <<now, context>>

(* An exception that is no ProviderError: no handler here, the breaker     *)
(* hears nothing.                                                          *)
AnswerUnclassified(r) ==
    /\ Calling(r)
    /\ Callee(r) \notin Reliable
    /\ Hears(r, "unclassified")
    /\ Leave(r, "crashed", breakers)
    /\ UNCHANGED <<now, context>>

Answer(r) ==
    \/ AnswerSuccess(r)
    \/ AnswerFailure(r)
    \/ AnswerAuthError(r)
    \/ AnswerUnclassified(r)

Tick ==
    /\ now < MaxTime
    /\ now' = now + 1
    /\ UNCHANGED <<breakers, context, status, attempt, started, heard>>

(* The gateway is idle: every request of the instance has been served. *)
Quiescent ==
    /\ \A r \in Request : status[r] \in Outcome
    /\ UNCHANGED vars

Next ==
    \/ \E r \in Request :
        \/ Start(r)
        \/ AnswerSuccess(r)
        \/ AnswerFailure(r)
        \/ AnswerAuthError(r)
        \/ AnswerUnclassified(r)
    \/ Tick
    \/ Quiescent

Spec == Init /\ [][Next]_vars

(* A call that was made ends: every provider client has a read timeout. *)
Fairness == \A r \in Request : WF_vars(Answer(r))

FairSpec == Spec /\ Fairness

-----------------------------------------------------------------------------
(* Properties.                                                             *)

(* The count and the state of every circuit agree whatever order late      *)
(* answers arrive in, and a circuit is half open only if it has been open  *)
(* for the reset timeout (circuit_breaker.py: before_call, on_failure).    *)
BreakersConsistent ==
    \A p \in Provider :
        /\ CountAgrees(breakers[p])
        /\ breakers[p].state = "half_open" =>
               now - breakers[p].openedAt >= ResetTimeout

(* While a circuit is open the only calls its provider still serves are    *)
(* those made before it opened: no later request reached the provider,     *)
(* by its first choice or by failover ("skips the provider entirely until  *)
(* a reset timeout elapses", docs/adr/0006).                               *)
CallsPredateOpening ==
    \A r \in Request :
        Calling(r) /\ breakers[Callee(r)].state = "open" =>
            started[r] <= breakers[Callee(r)].openedAt

(* A request whose candidates include a registered provider that always    *)
(* answers never ends in NoHealthyProviderError, whatever the other        *)
(* requests do to the other providers' circuits in the meantime.           *)
ReliableProviderServes ==
    \A r \in Request :
        status[r] = "no_healthy" =>
            \A i \in Slots(context[r]) :
                Candidate(r, i) \in Registered => Candidate(r, i) \notin Reliable

IsSensitive(ctx) == ctx.data_classification \in {"confidential", "restricted"}

(* A request on confidential or restricted data is never in flight at, nor *)
(* failed over to, a provider other than "local" (policies/routing.yaml).  *)
SensitiveStaysLocal ==
    \A r \in Request : Calling(r) /\ IsSensitive(context[r]) => Callee(r) = "local"

(* Every request that enters route() leaves it, by an answer or an         *)
(* exception, however its candidates fail and its circuits open meanwhile. *)
EveryRouteEnds ==
    \A r \in Request : Calling(r) ~> status[r] \in Outcome

Protocol(p) ==
    INSTANCE BreakerProtocol WITH
        state    <- breakers[p].state,
        failures <- breakers[p].failures,
        openedAt <- breakers[p].openedAt

(* A call made before the circuit of p opened ends while it is open. *)
AnsweredLate(p) ==
    /\ breakers[p].state = "open"
    /\ \E r \in Request :
        /\ Calling(r) /\ Callee(r) = p
        /\ started[r] <= breakers[p].openedAt
        /\ status'[r] # status[r] \/ attempt'[r] # attempt[r]

(* However requests overlap, every circuit starts and moves as the         *)
(* docstring of circuit_breaker.py says, but for the answers to calls that *)
(* were in flight when it opened: \A p \in Provider : Protocol(p)!Spec      *)
(* up to AnsweredLate(p), in the form TLC evaluates.                       *)
FollowsProtocol ==
    /\ \A p \in Provider : Protocol(p)!Init
    /\ [][\A p \in Provider :
              AnsweredLate(p) \/ [Protocol(p)!Next]_(Protocol(p)!breaker)]_vars

(* A call that its backend refuses with 401 or 403 ends the request: "not  *)
(* retryable, not failover-able, surfaced to caller immediately"           *)
(* (ProviderAuthError in providers/base.py).                               *)
RefusalSurfaces ==
    \A r \in Request :
        heard[r] \in {"unauthorized", "forbidden"} => status[r] = "auth_error"

=============================================================================
