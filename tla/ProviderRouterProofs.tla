------------------------- MODULE ProviderRouterProofs -------------------------
(***************************************************************************)
(* Theorems about ProviderRouter, for every policy, every number of        *)
(* requests and every threshold and timeout.                               *)
(***************************************************************************)
EXTENDS ProviderRouter, TLAPS

-----------------------------------------------------------------------------
(* Operators on one breaker entry.                                         *)

(* Each method of the registry maps an entry to an entry. *)
LEMMA EntryType ==
    ASSUME NEW e \in Entry, NEW t \in Nat
    PROVE  BeforeCall(e) \in Entry /\ OnSuccess(e) \in Entry /\ OnFailure(e, t) \in Entry
<1>1. BeforeCall(e) \in Entry
  BY DEF Entry, CircuitState, BeforeCall
<1>2. OnSuccess(e) \in Entry
  BY DEF Entry, CircuitState, OnSuccess
<1>3. OnFailure(e, t) \in Entry
  <2>1. (IF Trips(e) THEN "open" ELSE e.state) \in CircuitState
    BY DEF Entry, CircuitState
  <2>2. (IF Trips(e) THEN t ELSE e.openedAt) \in Nat /\ e.failures + 1 \in Nat
    BY DEF Entry
  <2> QED BY <2>1, <2>2 DEF Entry, OnFailure
<1> QED BY <1>1, <1>2, <1>3

(* The "entry.state == HALF_OPEN or" of on_failure decides nothing: in     *)
(* every state the registry reaches a half-open circuit has a count that   *)
(* trips by itself.                                                        *)
THEOREM HalfOpenTestIsRedundant ==
    ASSUME NEW e \in Entry, CountAgrees(e)
    PROVE  Trips(e) <=> e.failures + 1 >= FailureThreshold
  BY BreakerAssumption DEF Entry, CircuitState, CountAgrees, Trips

(* The methods keep the count and the state in agreement. *)
LEMMA EntryAgrees ==
    ASSUME NEW e \in Entry, NEW t \in Nat, CountAgrees(e)
    PROVE  CountAgrees(BeforeCall(e)) /\ CountAgrees(OnSuccess(e)) /\ CountAgrees(OnFailure(e, t))
  BY BreakerAssumption
     DEF Entry, CircuitState, CountAgrees, BeforeCall, OnSuccess, OnFailure, Trips

-----------------------------------------------------------------------------
(* What one step of the router does to one breaker entry.                  *)

(* At time t the entry e becomes f: a verdict on the call in flight, a     *)
(* before_call that returned, or both for the same provider.               *)
EntryMove(e, f, t) ==
    \/ f \in {e, OnSuccess(e), OnFailure(e, t)}
    \/ Admits(e, t) /\ f = BeforeCall(e)
    \/ Admits(OnFailure(e, t), t) /\ f = BeforeCall(OnFailure(e, t))

(* A move keeps an entry an entry. *)
LEMMA MoveType ==
    ASSUME NEW e \in Entry, NEW t \in Nat, NEW f, EntryMove(e, f, t)
    PROVE  f \in Entry
<1>1. e \in Entry /\ BeforeCall(e) \in Entry /\ OnSuccess(e) \in Entry /\ OnFailure(e, t) \in Entry
  BY EntryType
<1>2. BeforeCall(OnFailure(e, t)) \in Entry
  BY <1>1, EntryType
<1> QED BY <1>1, <1>2 DEF EntryMove

(* A move keeps the count and the state in agreement. *)
LEMMA MoveAgrees ==
    ASSUME NEW e \in Entry, NEW t \in Nat, NEW f, EntryMove(e, f, t), CountAgrees(e)
    PROVE  CountAgrees(f)
<1>1. CountAgrees(BeforeCall(e)) /\ CountAgrees(OnSuccess(e)) /\ CountAgrees(OnFailure(e, t))
  BY EntryAgrees
<1>2. CountAgrees(BeforeCall(OnFailure(e, t)))
  BY <1>1, EntryAgrees, EntryType
<1> QED BY <1>1, <1>2 DEF EntryMove

(* An entry that a move leaves half open has been open for ResetTimeout,   *)
(* given that a half-open entry has been before.                           *)
LEMMA MoveWaits ==
    ASSUME NEW e \in Entry, NEW t \in Nat, NEW f, EntryMove(e, f, t),
           e.state = "half_open" => t - e.openedAt >= ResetTimeout,
           f.state = "half_open"
    PROVE  t - f.openedAt >= ResetTimeout
<1> DEFINE g == OnFailure(e, t)
<1>1. g \in Entry
  BY EntryType
<1>2. g.state # "half_open"
  BY DEF OnFailure, Trips, Entry
<1>3. OnSuccess(e).state # "half_open"
  BY DEF OnSuccess, Entry
<1>4. CASE f = e
  BY <1>4
<1>5. ASSUME NEW h \in Entry, Admits(h, t), f = BeforeCall(h),
             h.state = "half_open" => t - h.openedAt >= ResetTimeout
      PROVE  t - f.openedAt >= ResetTimeout
  BY <1>5 DEF Entry, Admits, BeforeCall
<1>6. CASE Admits(e, t) /\ f = BeforeCall(e)
  BY <1>5, <1>6
<1>7. CASE Admits(g, t) /\ f = BeforeCall(g)
  BY <1>1, <1>2, <1>5, <1>7
<1> HIDE DEF g
<1> QED BY <1>2, <1>3, <1>4, <1>6, <1>7 DEF EntryMove, g

-----------------------------------------------------------------------------
(* Type correctness.                                                       *)

(* A request in flight waits for a registered provider of its list. *)
CalleeRegistered ==
    \A r \in Request :
        Calling(r) => attempt[r] \in Slots(context[r]) /\ Callee(r) \in Registered

(* The loop of route(), from any position and breaker table of its types,  *)
(* leaves well-typed state and calls only registered candidates.           *)
LEMMA AdvanceType ==
    ASSUME TypeOK, CalleeRegistered, NEW r \in Request, NEW i \in Nat,
           NEW b \in [Provider -> Entry], Advance(r, i, b), UNCHANGED <<now, context>>,
           heard' \in [Request -> Event \cup {"none"}]
    PROVE  TypeOK' /\ CalleeRegistered'
<1>1. ASSUME NEW j \in Slots(context[r]), IsNext(r, i, j, b), Call(r, j, b)
      PROVE  TypeOK' /\ CalleeRegistered'
  <2>1. j \in Nat
    BY PolicyAssumption DEF Slots
  <2>2. Candidate(r, j) \in Registered /\ Candidate(r, j) \in Provider
    BY <1>1, RouterAssumption DEF IsNext, Admissible
  <2>3. BeforeCall(b[Candidate(r, j)]) \in Entry
    BY <2>2, EntryType
  <2>4. breakers' \in [Provider -> Entry]
    BY <1>1, <2>2, <2>3 DEF Call
  <2>5. /\ status' = [status EXCEPT ![r] = "calling"]
        /\ attempt' = [attempt EXCEPT ![r] = j]
        /\ started' = [started EXCEPT ![r] = now]
    BY <1>1 DEF Call
  <2>6. TypeOK'
    BY <2>1, <2>4, <2>5 DEF TypeOK, Status
  <2>7. CalleeRegistered'
    BY <1>1, <2>2, <2>5 DEF TypeOK, CalleeRegistered, Calling, Callee, Candidate
  <2> QED BY <2>6, <2>7
<1>2. CASE Exhausted(r, b)
  BY <1>2 DEF TypeOK, Exhausted, Leave, Status, Outcome,
              CalleeRegistered, Calling, Callee, Candidate
<1> QED BY <1>1, <1>2 DEF Advance

(* What a backend does is one of the events of the instance. *)
LEMMA HeardType ==
    ASSUME TypeOK, NEW r \in Request, NEW result, Hears(r, result)
    PROVE  heard' \in [Request -> Event \cup {"none"}]
<1>1. PICK e \in Events : heard' = [heard EXCEPT ![r] = e]
  BY DEF Hears
<1> QED BY <1>1, RouterAssumption DEF TypeOK

(* Charging a call in flight keeps a table of entries. *)
LEMMA ChargeType ==
    ASSUME TypeOK, CalleeRegistered, NEW r \in Request, Calling(r)
    PROVE  Charge(r) \in [Provider -> Entry] /\ Callee(r) \in Provider
<1>1. Callee(r) \in Provider
  BY RouterAssumption DEF CalleeRegistered
<1>2. OnFailure(breakers[Callee(r)], now) \in Entry
  BY <1>1, EntryType DEF TypeOK
<1> QED BY <1>1, <1>2 DEF Charge, TypeOK

(* Both are inductive together. *)
LEMMA TypeStep ==
    TypeOK /\ CalleeRegistered /\ [Next]_vars => TypeOK' /\ CalleeRegistered'
<1> SUFFICES ASSUME TypeOK, CalleeRegistered, [Next]_vars
             PROVE  TypeOK' /\ CalleeRegistered'
  OBVIOUS
<1>1. ASSUME NEW r \in Request, Start(r)
      PROVE  TypeOK' /\ CalleeRegistered'
  BY <1>1, AdvanceType DEF Start, TypeOK
<1>2. ASSUME NEW r \in Request, AnswerSuccess(r)
      PROVE  TypeOK' /\ CalleeRegistered'
  <2>1. Callee(r) \in Provider
    BY <1>2, ChargeType DEF AnswerSuccess
  <2>2. OnSuccess(breakers[Callee(r)]) \in Entry
    BY <2>1, EntryType DEF TypeOK
  <2>3. breakers' \in [Provider -> Entry]
    BY <1>2, <2>1, <2>2 DEF AnswerSuccess, Leave, TypeOK
  <2> QED
    BY <1>2, <2>3, HeardType DEF AnswerSuccess, Leave, TypeOK, Status, Outcome,
                      CalleeRegistered, Calling, Callee, Candidate
<1>3. ASSUME NEW r \in Request, AnswerFailure(r)
      PROVE  TypeOK' /\ CalleeRegistered'
  <2>1. Charge(r) \in [Provider -> Entry]
    BY <1>3, ChargeType DEF AnswerFailure
  <2>2. attempt[r] \in Nat
    BY DEF TypeOK
  <2>3. heard' \in [Request -> Event \cup {"none"}]
    BY <1>3, HeardType DEF AnswerFailure
  <2> QED BY <1>3, <2>1, <2>2, <2>3, AdvanceType DEF AnswerFailure
<1>4. ASSUME NEW r \in Request, AnswerAuthError(r) \/ AnswerUnclassified(r)
      PROVE  TypeOK' /\ CalleeRegistered'
  BY <1>4, HeardType DEF AnswerAuthError, AnswerUnclassified, Leave, TypeOK, Status, Outcome,
              CalleeRegistered, Calling, Callee, Candidate
<1>5. CASE Tick
  BY <1>5 DEF Tick, TypeOK, CalleeRegistered, Calling, Callee, Candidate
<1>6. CASE UNCHANGED vars
  BY <1>6 DEF vars, TypeOK, CalleeRegistered, Calling, Callee, Candidate
<1> QED BY <1>1, <1>2, <1>3, <1>4, <1>5, <1>6 DEF Next, Quiescent

LEMMA TypeInit == Init => TypeOK /\ CalleeRegistered
  BY DEF Init, TypeOK, CalleeRegistered, Calling, FreshEntry, Entry, CircuitState, Status

(* Every variable keeps its type, and every call in flight is to a         *)
(* registered provider of the request's own candidate list.                *)
THEOREM TypeCorrect == Spec => []TypeOK /\ []CalleeRegistered
<1>1. TypeOK /\ CalleeRegistered /\ [Next]_vars => (TypeOK /\ CalleeRegistered)'
  BY TypeStep
<1> QED BY <1>1, TypeInit, PTL DEF Spec

-----------------------------------------------------------------------------
(* The breaker table under concurrency.                                    *)

(* The loop adds at most one before_call to the table it starts from. *)
LEMMA AdvanceMoves ==
    ASSUME TypeOK, NEW r \in Request, NEW i \in Nat,
           NEW b \in [Provider -> Entry], Advance(r, i, b), NEW p \in Provider
    PROVE  breakers'[p] = b[p] \/ (Admits(b[p], now) /\ breakers'[p] = BeforeCall(b[p]))
<1>1. ASSUME NEW j \in Slots(context[r]), IsNext(r, i, j, b), Call(r, j, b)
      PROVE  breakers'[p] = b[p] \/ (Admits(b[p], now) /\ breakers'[p] = BeforeCall(b[p]))
  <2>1. Admits(b[Candidate(r, j)], now)
    BY <1>1 DEF IsNext, Admissible
  <2>2. breakers' = [b EXCEPT ![Candidate(r, j)] = BeforeCall(b[Candidate(r, j)])]
    BY <1>1 DEF Call
  <2>3. CASE p = Candidate(r, j)
    BY <2>1, <2>2, <2>3
  <2>4. CASE p # Candidate(r, j)
    BY <2>2, <2>4
  <2> QED BY <2>3, <2>4
<1>2. CASE Exhausted(r, b)
  BY <1>2 DEF Exhausted, Leave
<1> QED BY <1>1, <1>2 DEF Advance

(* Every step of the router moves every entry as EntryMove allows. *)
LEMMA StepMoves ==
    ASSUME TypeOK, CalleeRegistered, [Next]_vars, NEW p \in Provider
    PROVE  EntryMove(breakers[p], breakers'[p], now)
<1>1. ASSUME NEW r \in Request, Start(r)
      PROVE  EntryMove(breakers[p], breakers'[p], now)
  BY <1>1, AdvanceMoves DEF Start, TypeOK, EntryMove
<1>2. ASSUME NEW r \in Request, AnswerSuccess(r)
      PROVE  EntryMove(breakers[p], breakers'[p], now)
  <2>1. breakers' = [breakers EXCEPT ![Callee(r)] = OnSuccess(breakers[Callee(r)])]
    BY <1>2 DEF AnswerSuccess, Leave
  <2>2. breakers'[p] = breakers[p] \/ breakers'[p] = OnSuccess(breakers[p])
    BY <2>1 DEF TypeOK
  <2> QED BY <2>2 DEF EntryMove
<1>3. ASSUME NEW r \in Request, AnswerFailure(r)
      PROVE  EntryMove(breakers[p], breakers'[p], now)
  <2> DEFINE b == Charge(r)
  <2>1. b \in [Provider -> Entry] /\ attempt[r] \in Nat
    BY <1>3, ChargeType DEF AnswerFailure, TypeOK
  <2>2. b[p] = breakers[p] \/ b[p] = OnFailure(breakers[p], now)
    BY DEF Charge, TypeOK
  <2>3. Advance(r, attempt[r], b)
    BY <1>3 DEF AnswerFailure
  <2> HIDE DEF b
  <2>4. breakers'[p] = b[p] \/ (Admits(b[p], now) /\ breakers'[p] = BeforeCall(b[p]))
    BY <2>1, <2>3, AdvanceMoves
  <2> QED BY <2>2, <2>4 DEF EntryMove
<1>4. ASSUME breakers' = breakers
      PROVE  EntryMove(breakers[p], breakers'[p], now)
  BY <1>4 DEF EntryMove
<1> QED
  BY <1>1, <1>2, <1>3, <1>4
     DEF Next, vars, AnswerAuthError, AnswerUnclassified, Leave, Tick, Quiescent

(* The clock never runs backwards. *)
LEMMA ClockStep == TypeOK /\ [Next]_vars => now' >= now /\ now' \in Nat
<1>1. [Next]_vars => now' = now \/ now' = now + 1
  BY DEF Next, vars, Start, AnswerSuccess, AnswerFailure, AnswerAuthError,
         AnswerUnclassified, Tick, Quiescent
<1>2. TypeOK => now \in Nat
  BY DEF TypeOK
<1> QED BY <1>1, <1>2

LEMMA ConsistentStep ==
    TypeOK /\ CalleeRegistered /\ BreakersConsistent /\ [Next]_vars => BreakersConsistent'
<1> SUFFICES ASSUME TypeOK, CalleeRegistered, BreakersConsistent, [Next]_vars,
                    NEW p \in Provider
             PROVE  /\ CountAgrees(breakers'[p])
                    /\ breakers'[p].state = "half_open" =>
                           now' - breakers'[p].openedAt >= ResetTimeout
  BY DEF BreakersConsistent
<1>1. EntryMove(breakers[p], breakers'[p], now) /\ breakers[p] \in Entry /\ now \in Nat
  BY StepMoves DEF TypeOK
<1>2. CountAgrees(breakers'[p])
  BY <1>1, MoveAgrees DEF BreakersConsistent
<1>3. ASSUME breakers'[p].state = "half_open"
      PROVE  now' - breakers'[p].openedAt >= ResetTimeout
  <2>1. now - breakers'[p].openedAt >= ResetTimeout
    BY <1>1, <1>3, MoveWaits DEF BreakersConsistent
  <2>2. breakers'[p].openedAt \in Nat
    BY <1>1, MoveType DEF Entry
  <2> QED BY <1>1, <2>1, <2>2, ClockStep, BreakerAssumption
<1> QED BY <1>2, <1>3

(* In every reachable state, with any number of calls in flight and their  *)
(* answers in any order, the counts and states of all circuits agree, and  *)
(* no circuit is half open before its timeout.                             *)
THEOREM BreakersAlwaysConsistent == Spec => []BreakersConsistent
<1>1. Init => BreakersConsistent
  <2>1. CountAgrees(FreshEntry) /\ FreshEntry.state # "half_open"
    BY DEF FreshEntry, CountAgrees
  <2>2. Init => \A p \in Provider : breakers[p] = FreshEntry
    BY DEF Init
  <2> QED BY <2>1, <2>2 DEF BreakersConsistent
<1>2. TypeOK /\ CalleeRegistered /\ BreakersConsistent /\ [Next]_vars => BreakersConsistent'
  BY ConsistentStep
<1> QED BY <1>1, <1>2, TypeCorrect, PTL DEF Spec

-----------------------------------------------------------------------------
(* Calls and open circuits.                                                *)

(* Request q keeps the call it has in flight. *)
KeepsCall(q) ==
    /\ Calling(q)
    /\ attempt'[q] = attempt[q]
    /\ started'[q] = started[q]
    /\ context'[q] = context[q]

(* A call in flight after the loop was in flight before, or was made now   *)
(* through a circuit that is not open.                                     *)
LEMMA AdvanceCalls ==
    ASSUME TypeOK, NEW r \in Request, NEW i \in Nat, NEW b \in [Provider -> Entry],
           Advance(r, i, b), context' = context, NEW q \in Request, Calling(q)'
    PROVE  \/ KeepsCall(q)
           \/ started'[q] = now /\ breakers'[Callee(q)'].state # "open"
<1>1. CASE q # r
  BY <1>1 DEF Advance, Call, Exhausted, Leave, Calling, TypeOK, KeepsCall
<1>2. ASSUME q = r, NEW j \in Slots(context[r]), IsNext(r, i, j, b), Call(r, j, b)
      PROVE  started'[q] = now /\ breakers'[Callee(q)'].state # "open"
  <2> DEFINE c == Candidate(r, j)
  <2>1. c \in Provider
    BY <1>2, RouterAssumption DEF IsNext, Admissible
  <2>2. BeforeCall(b[c]).state # "open"
    BY <2>1 DEF BeforeCall, Entry
  <2>3. Callee(q)' = c
    BY <1>2 DEF Call, TypeOK, Callee, Candidate
  <2>4. breakers'[c] = BeforeCall(b[c])
    BY <1>2, <2>1 DEF Call
  <2>5. started'[q] = now
    BY <1>2 DEF Call, TypeOK
  <2> HIDE DEF c
  <2> QED BY <2>2, <2>3, <2>4, <2>5
<1>3. CASE q = r /\ Exhausted(r, b)
  BY <1>3 DEF Exhausted, Leave, Calling, TypeOK
<1> QED BY <1>1, <1>2, <1>3 DEF Advance

(* The same of every step. *)
LEMMA StepCalls ==
    ASSUME TypeOK, CalleeRegistered, [Next]_vars, NEW q \in Request, Calling(q)'
    PROVE  \/ KeepsCall(q)
           \/ started'[q] = now /\ breakers'[Callee(q)'].state # "open"
<1>1. ASSUME NEW r \in Request, Start(r)
      PROVE  KeepsCall(q) \/ (started'[q] = now /\ breakers'[Callee(q)'].state # "open")
  BY <1>1, AdvanceCalls DEF Start, TypeOK
<1>2. ASSUME NEW r \in Request, AnswerFailure(r)
      PROVE  KeepsCall(q) \/ (started'[q] = now /\ breakers'[Callee(q)'].state # "open")
  <2>1. Charge(r) \in [Provider -> Entry] /\ attempt[r] \in Nat
    BY <1>2, ChargeType DEF AnswerFailure, TypeOK
  <2> QED BY <1>2, <2>1, AdvanceCalls DEF AnswerFailure
<1>3. ASSUME NEW r \in Request, AnswerSuccess(r) \/ AnswerAuthError(r) \/ AnswerUnclassified(r)
      PROVE  KeepsCall(q)
  BY <1>3 DEF AnswerSuccess, AnswerAuthError, AnswerUnclassified, Leave, TypeOK, Calling, KeepsCall
<1>4. CASE Tick \/ Quiescent \/ UNCHANGED vars
  BY <1>4 DEF Tick, Quiescent, vars, Calling, KeepsCall
<1> QED BY <1>1, <1>2, <1>3, <1>4 DEF Next

(* An entry a move leaves open either opened now or was open, with the     *)
(* same timer, before.                                                     *)
LEMMA MoveOpens ==
    ASSUME NEW e \in Entry, NEW t \in Nat, NEW f, EntryMove(e, f, t), f.state = "open"
    PROVE  f.openedAt = t \/ (e.state = "open" /\ f.openedAt = e.openedAt)
<1>1. ASSUME NEW h \in Entry PROVE BeforeCall(h).state # "open"
  BY DEF BeforeCall, Entry
<1>2. BeforeCall(e).state # "open" /\ BeforeCall(OnFailure(e, t)).state # "open"
  BY <1>1, EntryType
<1>3. OnSuccess(e).state # "open"
  BY DEF OnSuccess, Entry
<1>4. CASE f = OnFailure(e, t)
  BY <1>4 DEF OnFailure
<1> QED BY <1>2, <1>3, <1>4 DEF EntryMove

(* No call is stamped with a time still to come. *)
StartedByNow == \A r \in Request : started[r] <= now

LEMMA StartedStep == TypeOK /\ StartedByNow /\ [Next]_vars => StartedByNow'
<1> SUFFICES ASSUME TypeOK, StartedByNow, [Next]_vars, NEW q \in Request
             PROVE  started'[q] <= now'
  BY DEF StartedByNow
<1>1. started'[q] = started[q] \/ started'[q] = now
  BY DEF TypeOK, Next, vars, Start, AnswerSuccess, AnswerFailure, AnswerAuthError,
         AnswerUnclassified, Tick, Quiescent, Advance, Call, Exhausted, Leave
<1>2. started[q] <= now /\ started[q] \in Nat /\ now \in Nat
  BY DEF StartedByNow, TypeOK
<1> QED BY <1>1, <1>2, ClockStep

LEMMA PredateStep ==
    TypeOK /\ CalleeRegistered /\ StartedByNow /\ CallsPredateOpening /\ [Next]_vars
        => CallsPredateOpening'
<1> SUFFICES ASSUME TypeOK, CalleeRegistered, StartedByNow, CallsPredateOpening, [Next]_vars,
                    NEW q \in Request, Calling(q)', breakers'[Callee(q)'].state = "open"
             PROVE  started'[q] <= breakers'[Callee(q)'].openedAt
  BY DEF CallsPredateOpening
<1> DEFINE p == Callee(q)
<1>1. KeepsCall(q)
  BY StepCalls
<1>2. Callee(q)' = p /\ p \in Provider
  BY <1>1, RouterAssumption DEF KeepsCall, Callee, Candidate, CalleeRegistered
<1>3. started'[q] = started[q] /\ started[q] \in Nat /\ started[q] <= now
  BY <1>1 DEF KeepsCall, StartedByNow, TypeOK
<1>4. EntryMove(breakers[p], breakers'[p], now) /\ breakers[p] \in Entry /\ now \in Nat
  BY <1>2, StepMoves DEF TypeOK
<1>5. breakers[p].state = "open" => started[q] <= breakers[p].openedAt
  BY <1>1 DEF KeepsCall, CallsPredateOpening
<1> HIDE DEF p
<1>6. \/ breakers'[p].openedAt = now
      \/ breakers[p].state = "open" /\ breakers'[p].openedAt = breakers[p].openedAt
  BY <1>2, <1>4, MoveOpens
<1> QED BY <1>2, <1>3, <1>5, <1>6

(* While a circuit is open its provider serves no call made after it       *)
(* opened, for any number of requests and any interleaving of them.        *)
THEOREM OpenCircuitGetsNoCalls == Spec => []CallsPredateOpening
<1>1. Init => StartedByNow /\ CallsPredateOpening
  BY DEF Init, StartedByNow, CallsPredateOpening, Calling
<1>2. TypeOK /\ CalleeRegistered /\ StartedByNow /\ CallsPredateOpening /\ [Next]_vars
          => StartedByNow' /\ CallsPredateOpening'
  BY StartedStep, PredateStep
<1> QED BY <1>1, <1>2, TypeCorrect, PTL DEF Spec

-----------------------------------------------------------------------------
(* A provider that always answers is always found.                         *)

(* The circuit of a reliable provider is never anything but closed. *)
ReliableClosed == \A p \in Reliable : breakers[p].state = "closed"

(* No registered reliable candidate lies before the call in flight. *)
NoneReliableBefore ==
    \A r \in Request :
        Calling(r) =>
            \A k \in Slots(context[r]) :
                k < attempt[r] /\ Candidate(r, k) \in Registered => Candidate(r, k) \notin Reliable

ReliableInv == ReliableClosed /\ NoneReliableBefore /\ ReliableProviderServes

(* Request r has passed no registered reliable candidate up to position i. *)
PassedNoReliable(r, i) ==
    \A k \in Slots(context[r]) :
        k <= i /\ Candidate(r, k) \in Registered => Candidate(r, k) \notin Reliable

(* The loop stops at the first registered reliable candidate. *)
LEMMA AdvanceFindsReliable ==
    ASSUME TypeOK, ReliableInv, NEW r \in Request, NEW i \in Nat,
           NEW b \in [Provider -> Entry], PassedNoReliable(r, i),
           \A p \in Reliable : b[p].state = "closed",
           Advance(r, i, b), context' = context
    PROVE  ReliableInv'
<1>1. \A k \in Slots(context[r]) :
          Candidate(r, k) \in Registered /\ Candidate(r, k) \in Reliable => Admissible(r, k, b)
  BY DEF Admissible, Admits
<1>2. Slots(context[r]) \subseteq Nat
  BY PolicyAssumption DEF Slots
<1>3. ASSUME NEW j \in Slots(context[r]), IsNext(r, i, j, b), Call(r, j, b)
      PROVE  ReliableInv'
  <2>1. \A k \in Slots(context[r]) :
            k < j /\ Candidate(r, k) \in Registered => Candidate(r, k) \notin Reliable
    BY <1>1, <1>2, <1>3 DEF IsNext, PassedNoReliable
  <2>2. /\ breakers' = [b EXCEPT ![Candidate(r, j)] = BeforeCall(b[Candidate(r, j)])]
        /\ status' = [status EXCEPT ![r] = "calling"]
        /\ attempt' = [attempt EXCEPT ![r] = j]
    BY <1>3 DEF Call
  <2>3. ReliableClosed'
    BY <2>2, RouterAssumption DEF ReliableClosed, BeforeCall
  <2>4. NoneReliableBefore'
    <3> SUFFICES ASSUME NEW q \in Request, Calling(q)', NEW k \in Slots(context[q]),
                        k < attempt'[q], Candidate(q, k) \in Registered
                 PROVE  Candidate(q, k) \notin Reliable
      BY DEF NoneReliableBefore, Candidate, Slots
    <3>1. CASE q = r
      BY <2>1, <2>2, <3>1 DEF TypeOK
    <3>2. CASE q # r
      BY <2>2, <3>2 DEF TypeOK, ReliableInv, NoneReliableBefore, Calling
    <3> QED BY <3>1, <3>2
  <2>5. ReliableProviderServes'
    BY <2>2 DEF TypeOK, ReliableInv, ReliableProviderServes, Candidate
  <2> QED BY <2>3, <2>4, <2>5 DEF ReliableInv
<1>4. ASSUME \A j \in Slots(context[r]) : j > i => ~Admissible(r, j, b), Exhausted(r, b)
      PROVE  ReliableInv'
  <2>1. \A k \in Slots(context[r]) :
            Candidate(r, k) \in Registered => Candidate(r, k) \notin Reliable
    BY <1>1, <1>2, <1>4 DEF PassedNoReliable
  <2>2. /\ breakers' = b
        /\ status' = [status EXCEPT ![r] = "no_healthy"]
        /\ attempt' = attempt
    BY <1>4 DEF Exhausted, Leave
  <2>3. ReliableClosed'
    BY <2>2 DEF ReliableClosed
  <2>4. NoneReliableBefore'
    BY <2>2 DEF TypeOK, ReliableInv, NoneReliableBefore, Calling, Candidate
  <2>5. ReliableProviderServes'
    BY <2>1, <2>2 DEF TypeOK, ReliableInv, ReliableProviderServes, Candidate
  <2> QED BY <2>3, <2>4, <2>5 DEF ReliableInv
<1> QED BY <1>3, <1>4 DEF Advance

LEMMA ReliableStep == TypeOK /\ CalleeRegistered /\ ReliableInv /\ [Next]_vars => ReliableInv'
<1> SUFFICES ASSUME TypeOK, CalleeRegistered, ReliableInv, [Next]_vars
             PROVE  ReliableInv'
  OBVIOUS
<1>1. ASSUME NEW r \in Request, Start(r)
      PROVE  ReliableInv'
  <2>1. PassedNoReliable(r, 0)
    BY PolicyAssumption DEF PassedNoReliable, Slots
  <2>2. /\ Advance(r, 0, breakers)
        /\ context' = context
        /\ breakers \in [Provider -> Entry]
        /\ \A p \in Reliable : breakers[p].state = "closed"
    BY <1>1 DEF Start, TypeOK, ReliableInv, ReliableClosed
  <2> QED BY <2>1, <2>2, AdvanceFindsReliable
<1>2. ASSUME NEW r \in Request, AnswerSuccess(r)
      PROVE  ReliableInv'
  <2>1. Callee(r) \in Provider
    BY <1>2, ChargeType DEF AnswerSuccess
  <2>2. /\ breakers' = [breakers EXCEPT ![Callee(r)] = OnSuccess(breakers[Callee(r)])]
        /\ status' = [status EXCEPT ![r] = "success"]
        /\ UNCHANGED <<attempt, context>>
    BY <1>2 DEF AnswerSuccess, Leave
  <2>3. OnSuccess(breakers[Callee(r)]).state = "closed"
    BY <2>1 DEF OnSuccess, TypeOK, Entry
  <2>4. ReliableClosed'
    BY <2>2, <2>3, RouterAssumption DEF TypeOK, ReliableInv, ReliableClosed
  <2> QED
    BY <2>2, <2>4 DEF TypeOK, ReliableInv, NoneReliableBefore, ReliableProviderServes,
                      Calling, Candidate
<1>3. ASSUME NEW r \in Request, AnswerFailure(r)
      PROVE  ReliableInv'
  <2>1. Charge(r) \in [Provider -> Entry] /\ attempt[r] \in Nat
    BY <1>3, ChargeType DEF AnswerFailure, TypeOK
  <2>2. \A p \in Reliable : Charge(r)[p].state = "closed"
    BY <1>3, RouterAssumption DEF AnswerFailure, Charge, TypeOK, ReliableInv, ReliableClosed
  <2>3. PassedNoReliable(r, attempt[r])
    <3> SUFFICES ASSUME NEW k \in Slots(context[r]), k <= attempt[r],
                        Candidate(r, k) \in Registered
                 PROVE  Candidate(r, k) \notin Reliable
      BY DEF PassedNoReliable
    <3>1. CASE k = attempt[r]
      BY <1>3, <3>1 DEF AnswerFailure, Callee
    <3>2. CASE k # attempt[r]
      <4>1. k < attempt[r]
        BY <2>1, <3>2, PolicyAssumption DEF Slots
      <4> QED BY <1>3, <4>1 DEF AnswerFailure, ReliableInv, NoneReliableBefore
    <3> QED BY <3>1, <3>2
  <2>4. Advance(r, attempt[r], Charge(r)) /\ context' = context
    BY <1>3 DEF AnswerFailure
  <2> QED BY <2>1, <2>2, <2>3, <2>4, AdvanceFindsReliable
<1>4. ASSUME NEW r \in Request, AnswerAuthError(r) \/ AnswerUnclassified(r)
      PROVE  ReliableInv'
  BY <1>4 DEF AnswerAuthError, AnswerUnclassified, Leave, TypeOK, ReliableInv, ReliableClosed,
              NoneReliableBefore, ReliableProviderServes, Calling, Candidate
<1>5. CASE Tick \/ Quiescent \/ UNCHANGED vars
  BY <1>5 DEF Tick, Quiescent, vars, ReliableInv, ReliableClosed,
              NoneReliableBefore, ReliableProviderServes, Calling, Candidate
<1> QED BY <1>1, <1>2, <1>3, <1>4, <1>5 DEF Next

(* A request with a registered, always answering provider among its first  *)
(* max_attempts candidates never ends in NoHealthyProviderError, for every *)
(* policy and whatever concurrent requests do to the other circuits.       *)
THEOREM ReliableProviderAlwaysServes == Spec => []ReliableProviderServes
<1>1. Init => ReliableInv
  BY RouterAssumption DEF Init, ReliableInv, ReliableClosed, NoneReliableBefore,
     ReliableProviderServes, Calling, FreshEntry
<1>2. TypeOK /\ CalleeRegistered /\ ReliableInv /\ [Next]_vars => ReliableInv'
  BY ReliableStep
<1>3. ReliableInv => ReliableProviderServes
  BY DEF ReliableInv
<1> QED BY <1>1, <1>2, <1>3, TypeCorrect, PTL DEF Spec

-----------------------------------------------------------------------------
(* Confidential and restricted data.                                       *)

(* What policies/routing.yaml says must never be weakened: its first rule  *)
(* takes every confidential or restricted context and allows "local" only. *)
FirstRuleGuardsSensitive ==
    /\ 1 \in DOMAIN Rules
    /\ \A ctx \in Context : IsSensitive(ctx) => Matches(Rules[1], ctx)
    /\ \A i \in DOMAIN Rules[1].allow : Rules[1].allow[i] = "local"

(* First match wins: no later rule has a say. *)
LEMMA SensitiveCandidates ==
    ASSUME FirstRuleGuardsSensitive, NEW ctx \in Context, IsSensitive(ctx)
    PROVE  CandidatesFor(ctx) = Rules[1].allow
<1>1. 1 \in MatchingRules(ctx)
  BY DEF FirstRuleGuardsSensitive, MatchingRules
<1>2. MatchingRules(ctx) \subseteq 1..Len(Rules) /\ Len(Rules) \in Int
  <2>1. MatchingRules(ctx) \subseteq 1..Len(Rules)
    BY PolicyAssumption DEF MatchingRules
  <2> QED BY <2>1, PolicyAssumption
<1>3. \A j \in MatchingRules(ctx) : 1 <= j
  BY <1>2
<1> DEFINE first == CHOOSE i \in MatchingRules(ctx) : \A j \in MatchingRules(ctx) : i <= j
<1>4. first \in MatchingRules(ctx) /\ \A j \in MatchingRules(ctx) : first <= j
  BY <1>1, <1>3
<1>5. first = 1
  BY <1>1, <1>2, <1>3, <1>4
<1> QED BY <1>1, <1>5 DEF CandidatesFor

(* Under a policy whose first rule is the shipped one, no call of any      *)
(* request on sensitive data is ever in flight elsewhere than at "local".  *)
THEOREM SensitiveAlwaysLocal ==
    FirstRuleGuardsSensitive => (Spec => []SensitiveStaysLocal)
<1> SUFFICES ASSUME FirstRuleGuardsSensitive
             PROVE  Spec => []SensitiveStaysLocal
  OBVIOUS
<1>1. TypeOK /\ CalleeRegistered => SensitiveStaysLocal
  <2> SUFFICES ASSUME TypeOK, CalleeRegistered, NEW r \in Request, Calling(r),
                      IsSensitive(context[r])
               PROVE  Callee(r) = "local"
    BY DEF SensitiveStaysLocal
  <2>1. CandidatesFor(context[r]) = Rules[1].allow
    BY SensitiveCandidates DEF TypeOK
  <2>2. attempt[r] \in DOMAIN CandidatesFor(context[r])
    BY DEF CalleeRegistered, Slots
  <2> QED BY <2>1, <2>2 DEF Callee, Candidate, FirstRuleGuardsSensitive
<1> QED BY <1>1, TypeCorrect, PTL

-----------------------------------------------------------------------------
(* Up to late answers, the router implements the documented protocol.      *)

(* No policy rule lists a provider twice. *)
DistinctCandidates ==
    \A ctx \in Context : \A i, j \in DOMAIN CandidatesFor(ctx) :
        CandidatesFor(ctx)[i] = CandidatesFor(ctx)[j] => i = j

(* What the abstract specification makes of one entry's move. *)
ProtocolMove(e, f, t) ==
    \/ e = f
    \/ e.state \in {"closed", "half_open"} /\ f = OnSuccess(e)
    \/ e.state \in {"closed", "half_open"} /\ f = OnFailure(e, t)
    \/ Admits(e, t) /\ f = BeforeCall(e)

LEMMA ProtocolMoves ==
    ASSUME TypeOK, NEW p \in Provider, ProtocolMove(breakers[p], breakers'[p], now)
    PROVE  [Protocol(p)!Next]_(Protocol(p)!breaker)
<1> DEFINE e == breakers[p]
           f == breakers'[p]
<1>1. e \in Entry
  BY DEF TypeOK
<1>2. CASE e = f
  BY <1>2 DEF Protocol!breaker
<1>3. CASE e.state \in {"closed", "half_open"} /\ f = OnSuccess(e)
  <2>1. f.state = "closed" /\ f.failures = 0 /\ f.openedAt = e.openedAt
    BY <1>1, <1>3 DEF OnSuccess, Entry
  <2> QED BY <1>3, <2>1 DEF Protocol!Next, Protocol!Succeed
<1>4. CASE e.state \in {"closed", "half_open"} /\ f = OnFailure(e, now)
  <2>1. CASE Trips(e)
    <3>1. f.state = "open" /\ f.failures = e.failures + 1 /\ f.openedAt = now
      BY <1>4, <2>1 DEF OnFailure
    <3> QED BY <1>4, <2>1, <3>1 DEF Protocol!Next, Protocol!Open, Trips
  <2>2. CASE ~Trips(e)
    <3>1. f.state = e.state /\ f.failures = e.failures + 1 /\ f.openedAt = e.openedAt
      BY <1>4, <2>2 DEF OnFailure
    <3>2. e.state = "closed" /\ e.failures + 1 < FailureThreshold
      BY <1>1, <1>4, <2>2, BreakerAssumption DEF Trips, Entry
    <3> QED BY <3>1, <3>2 DEF Protocol!Next, Protocol!FailBelowThreshold
  <2> QED BY <2>1, <2>2
<1>5. CASE Admits(e, now) /\ f = BeforeCall(e)
  <2>1. CASE e.state = "open"
    <3>1. f.state = "half_open" /\ f.failures = e.failures /\ f.openedAt = e.openedAt
      BY <1>1, <1>5, <2>1 DEF BeforeCall, Entry
    <3> QED BY <1>5, <2>1, <3>1 DEF Admits, Protocol!Next, Protocol!Probe
  <2>2. CASE e.state # "open"
    BY <1>5, <2>2 DEF BeforeCall, Protocol!breaker
  <2> QED BY <2>1, <2>2
<1> QED BY <1>2, <1>3, <1>4, <1>5 DEF ProtocolMove

(* Every step is one arrow of the docstring for each circuit, or a late    *)
(* answer: the failed provider and the one failed over to differ.          *)
LEMMA CircuitStep ==
    ASSUME DistinctCandidates, TypeOK, CalleeRegistered, CallsPredateOpening, [Next]_vars,
           NEW p \in Provider
    PROVE  AnsweredLate(p) \/ ProtocolMove(breakers[p], breakers'[p], now)
<1>1. ASSUME NEW r \in Request, Start(r)
      PROVE  ProtocolMove(breakers[p], breakers'[p], now)
  BY <1>1, AdvanceMoves DEF Start, TypeOK, ProtocolMove
<1>2. ASSUME NEW r \in Request, Calling(r)
      PROVE  /\ Callee(r) \in Provider
             /\ \/ breakers[Callee(r)].state \in {"closed", "half_open"}
                \/ /\ breakers[Callee(r)].state = "open"
                   /\ started[r] <= breakers[Callee(r)].openedAt
  BY <1>2, RouterAssumption
     DEF CallsPredateOpening, CalleeRegistered, TypeOK, Entry, CircuitState
<1>3. ASSUME NEW r \in Request, AnswerSuccess(r)
      PROVE  AnsweredLate(p) \/ ProtocolMove(breakers[p], breakers'[p], now)
  <2>1. /\ breakers' = [breakers EXCEPT ![Callee(r)] = OnSuccess(breakers[Callee(r)])]
        /\ Calling(r) /\ status'[r] # status[r]
    BY <1>3 DEF AnswerSuccess, Leave, Calling, TypeOK
  <2>2. CASE p = Callee(r)
    <3>1. CASE breakers[p].state = "open"
      BY <1>2, <2>1, <2>2, <3>1 DEF AnsweredLate
    <3>2. CASE breakers[p].state # "open"
      BY <1>2, <2>1, <2>2, <3>2 DEF ProtocolMove, TypeOK
    <3> QED BY <3>1, <3>2
  <2>3. CASE p # Callee(r)
    BY <2>1, <2>3 DEF ProtocolMove, TypeOK
  <2> QED BY <2>2, <2>3
<1>4. ASSUME NEW r \in Request, AnswerFailure(r)
      PROVE  AnsweredLate(p) \/ ProtocolMove(breakers[p], breakers'[p], now)
  <2> DEFINE b == Charge(r)
             c == Callee(r)
  <2>1. b \in [Provider -> Entry] /\ attempt[r] \in Nat
    BY <1>4, ChargeType DEF AnswerFailure, TypeOK
  <2>2. Calling(r) /\ c \in Provider
    BY <1>2, <1>4 DEF AnswerFailure
  <2>3. b[c] = OnFailure(breakers[c], now)
    BY <2>2 DEF Charge, TypeOK
  <2>4. \A q \in Provider : q # c => b[q] = breakers[q]
    BY DEF Charge, TypeOK
  <2>5. Advance(r, attempt[r], b)
    BY <1>4 DEF AnswerFailure
  <2>6. CASE p # c
    <3>1. b[p] = breakers[p]
      BY <2>4, <2>6
    <3>2. breakers'[p] = b[p] \/ (Admits(b[p], now) /\ breakers'[p] = BeforeCall(b[p]))
      BY <2>1, <2>5, AdvanceMoves
    <3> QED BY <3>1, <3>2 DEF ProtocolMove
  <2>7. CASE p = c
    <3>1. ASSUME NEW j \in Slots(context[r]), IsNext(r, attempt[r], j, b), Call(r, j, b)
          PROVE  breakers'[p] = b[p] /\ attempt'[r] # attempt[r]
      <4>1. attempt[r] # j
        BY <2>1, <3>1, PolicyAssumption DEF IsNext, Slots
      <4>2. attempt[r] \in Slots(context[r])
        BY <1>4 DEF AnswerFailure, CalleeRegistered
      <4>3. Candidate(r, j) # c
        BY <4>1, <4>2 DEF DistinctCandidates, Candidate, Callee, Slots, TypeOK
      <4> QED BY <2>1, <2>7, <3>1, <4>1, <4>3 DEF Call, TypeOK
    <3>2. ASSUME Exhausted(r, b) PROVE breakers'[p] = b[p] /\ status'[r] # status[r]
      BY <2>2, <3>2 DEF Exhausted, Leave, Calling, TypeOK
    <3>3. /\ breakers'[p] = b[p]
          /\ status'[r] # status[r] \/ attempt'[r] # attempt[r]
      BY <2>5, <3>1, <3>2 DEF Advance
    <3>4. CASE breakers[p].state = "open"
      BY <1>2, <2>2, <2>7, <3>3, <3>4 DEF AnsweredLate
    <3>5. CASE breakers[p].state # "open"
      BY <1>2, <2>2, <2>3, <2>7, <3>3, <3>5 DEF ProtocolMove
    <3> QED BY <3>4, <3>5
  <2> QED BY <2>6, <2>7
<1>5. ASSUME breakers' = breakers
      PROVE  ProtocolMove(breakers[p], breakers'[p], now)
  BY <1>5 DEF ProtocolMove
<1> QED
  BY <1>1, <1>3, <1>4, <1>5
     DEF Next, vars, AnswerAuthError, AnswerUnclassified, Leave, Tick, Quiescent

(* If no rule names a provider twice, then for any number of concurrent    *)
(* requests every circuit implements the state machine of the              *)
(* circuit_breaker.py docstring up to the answers of calls that were in    *)
(* flight when it opened; with them it does not.                           *)
THEOREM CircuitsFollowProtocol == DistinctCandidates => (Spec => FollowsProtocol)
<1> SUFFICES ASSUME DistinctCandidates
             PROVE  Spec => FollowsProtocol
  OBVIOUS
<1>1. ASSUME Init, NEW p \in Provider
      PROVE  Protocol(p)!Init
  <2>1. breakers[p] = [state |-> "closed", failures |-> 0, openedAt |-> 0]
    BY <1>1 DEF Init, FreshEntry
  <2> QED BY <2>1 DEF Protocol!Init
<1>2. TypeOK /\ CalleeRegistered /\ CallsPredateOpening /\ [Next]_vars =>
          [\A p \in Provider :
              AnsweredLate(p) \/ [Protocol(p)!Next]_(Protocol(p)!breaker)]_vars
  BY CircuitStep, ProtocolMoves
<1>3. Init => \A p \in Provider : Protocol(p)!Init
  BY <1>1
<1> QED
  BY <1>2, <1>3, TypeCorrect, OpenCircuitGetsNoCalls, PTL DEF Spec, FollowsProtocol

-----------------------------------------------------------------------------
(* Requests move on.                                                       *)

(* How often a request may still give way at a provider. *)
CallsLeft(r) ==
    CASE status[r] = "idle"    -> MaxAttempts + 1
      [] status[r] = "calling" -> MaxAttempts + 1 - attempt[r]
      [] OTHER                 -> 0

(* A step leaves where the requests are, or moves one of them on, whatever *)
(* it does to circuits the others go by.                                   *)
MovesOn ==
    \/ UNCHANGED <<status, attempt, context>>
    \/ \E r \in Request :
        /\ CallsLeft(r)' < CallsLeft(r)
        /\ \A q \in Request \ {r} : status'[q] = status[q] /\ attempt'[q] = attempt[q]
        /\ context' = context

LEMMA CallsLeftType ==
    ASSUME TypeOK, CalleeRegistered, NEW r \in Request
    PROVE  /\ CallsLeft(r) \in 0 .. (MaxAttempts + 1)
           /\ Calling(r) => CallsLeft(r) > 0
<1>1. MaxAttempts \in Nat /\ status[r] \in Status
  BY PolicyAssumption DEF TypeOK
<1>2. Calling(r) => attempt[r] \in 1 .. MaxAttempts
  BY DEF CalleeRegistered, Slots
<1> QED
  BY <1>1, <1>2 DEF CallsLeft, Calling

(* The loop goes on to a later candidate or leaves. *)
LEMMA AdvanceMovesOn ==
    ASSUME TypeOK, NEW r \in Request, NEW i \in Nat, NEW b,
           Advance(r, i, b), context' = context,
           \/ status[r] = "idle"
           \/ Calling(r) /\ i = attempt[r] /\ i \in 1 .. MaxAttempts
    PROVE  MovesOn
<1>1. MaxAttempts \in Nat \ {0}
  BY PolicyAssumption
<1>2. ASSUME NEW j \in Slots(context[r]), IsNext(r, i, j, b), Call(r, j, b)
      PROVE  MovesOn
  <2>1. j \in 1 .. MaxAttempts /\ j > i
    BY <1>2 DEF IsNext, Slots
  <2>2. status'[r] = "calling" /\ attempt'[r] = j
    BY <1>2 DEF Call, TypeOK
  <2>3. CallsLeft(r)' = MaxAttempts + 1 - j
    BY <2>2 DEF CallsLeft
  <2>4. CallsLeft(r)' < CallsLeft(r)
    BY <1>1, <2>1, <2>3 DEF CallsLeft, Calling
  <2>5. \A q \in Request \ {r} : status'[q] = status[q] /\ attempt'[q] = attempt[q]
    BY <1>2 DEF Call, TypeOK
  <2> QED
    BY <2>4, <2>5 DEF MovesOn
<1>3. ASSUME Exhausted(r, b)
      PROVE  MovesOn
  <2>1. status'[r] = "no_healthy" /\ CallsLeft(r)' = 0
    BY <1>3 DEF Exhausted, Leave, TypeOK, CallsLeft
  <2>2. CallsLeft(r)' < CallsLeft(r)
    BY <1>1, <2>1 DEF CallsLeft, Calling
  <2>3. \A q \in Request \ {r} : status'[q] = status[q] /\ attempt'[q] = attempt[q]
    BY <1>3 DEF Exhausted, Leave, TypeOK
  <2> QED
    BY <2>2, <2>3 DEF MovesOn
<1> QED
  BY <1>2, <1>3 DEF Advance

LEMMA MovesOnStep ==
    ASSUME TypeOK, CalleeRegistered, [Next]_vars
    PROVE  MovesOn
<1>1. ASSUME NEW r \in Request, Start(r)
      PROVE  MovesOn
  BY <1>1, AdvanceMovesOn DEF Start
<1>2. ASSUME NEW r \in Request, AnswerFailure(r)
      PROVE  MovesOn
  <2>1. attempt[r] \in Nat /\ attempt[r] \in 1 .. MaxAttempts
    BY <1>2 DEF AnswerFailure, TypeOK, CalleeRegistered, Slots
  <2> QED
    BY <1>2, <2>1, AdvanceMovesOn DEF AnswerFailure
<1>3. ASSUME NEW r \in Request, NEW outcome \in Outcome, NEW b, Calling(r),
             Leave(r, outcome, b), context' = context
      PROVE  MovesOn
  <2>1. CallsLeft(r)' = 0
    BY <1>3 DEF Leave, TypeOK, CallsLeft, Outcome
  <2>2. CallsLeft(r)' < CallsLeft(r)
    BY <1>3, <2>1, CallsLeftType
  <2>3. \A q \in Request \ {r} : status'[q] = status[q] /\ attempt'[q] = attempt[q]
    BY <1>3 DEF Leave, TypeOK
  <2> QED
    BY <1>3, <2>2, <2>3 DEF MovesOn
<1>4. ASSUME NEW r \in Request,
             AnswerSuccess(r) \/ AnswerAuthError(r) \/ AnswerUnclassified(r)
      PROVE  MovesOn
  BY <1>3, <1>4 DEF AnswerSuccess, AnswerAuthError, AnswerUnclassified, Outcome
<1>5. CASE Tick \/ Quiescent \/ UNCHANGED vars
  BY <1>5 DEF Tick, Quiescent, vars, MovesOn
<1> QED
  BY <1>1, <1>2, <1>4, <1>5 DEF Next

(* route() ends after at most max_attempts calls, however the other        *)
(* requests open and close circuits in between: the loop only ever goes on *)
(* to a later candidate, and no request is sent back by another.  (That a  *)
(* call in flight ends is EveryRouteEnds.)                                 *)
THEOREM RoutesAlwaysMoveOn ==
    /\ Spec => [](\A r \in Request : CallsLeft(r) \in 0 .. (MaxAttempts + 1))
    /\ Spec => [][MovesOn]_vars
<1>1. TypeOK /\ CalleeRegistered => \A r \in Request : CallsLeft(r) \in 0 .. (MaxAttempts + 1)
  BY CallsLeftType
<1>2. TypeOK /\ CalleeRegistered /\ [Next]_vars => [MovesOn]_vars
  BY MovesOnStep
<1>3. Spec => [](\A r \in Request : CallsLeft(r) \in 0 .. (MaxAttempts + 1))
  BY <1>1, TypeCorrect, PTL
<1>4. Spec => [][MovesOn]_vars
  BY <1>2, TypeCorrect, PTL DEF Spec
<1> QED
  BY <1>3, <1>4

=============================================================================
