# A formal model of the Aegis gateway

TLA+ modules, TLC configurations and TLAPS proofs for the Aegis LLM gateway:
the FastAPI service under `src/src/aegis` that routes chat and agent requests
to LLM providers under a policy, with failover, guardrails, budgets, audit and
traces. Paths below are relative to `src/src/aegis` unless they start with
`src/`.

## The system

| Component | State it keeps | Operations | Interacts with |
|---|---|---|---|
| Routing policy (`providers/router.py`, `policies/routing.yaml`) | ordered rules, default provider, limits; read once at start | `RoutingRule.matches`, `candidates_for` | asked by the router for every request |
| Circuit breakers (`providers/circuit_breaker.py`) | one entry per provider: state, consecutive failures, time of opening; in memory, per process | `before_call`, `on_success`, `on_failure` | called by the router around each provider call |
| Provider router (`providers/router.py`) | none of its own | `route` | breakers, provider clients; called by chat and agent endpoints |
| Provider clients (`providers/{local,bedrock,foundry}_provider.py`) | none | `chat`; errors classified as `ProviderError`, `ProviderAuthError`, or not at all | external services |
| Agent runtime (`agent/runtime.py`) | one run: conversation, loop index, token totals | `run`, `_execute_tool_with_retry`, `replay` | router, tools, guardrails, trace, cost and audit stores |
| Trace store (`agent/trace.py`) | `agent_runs`, `agent_steps` | `start_run`, `record_step`, `finish_run`, `replay`, `list_runs` | the session of the request |
| Tools (`agent/tools`) | none; `sql_query_readonly` uses the session of the run | `run` | called by the runtime under a timeout |
| Cost and budgets (`cost/`) | `cost_entries` | `record`, `month_to_date_usd`, `check` | runtime, chat and agent endpoints |
| Audit log (`governance/audit.py`) | `audit_log`, insert only | `record` | endpoints, runtime |
| Guardrails (`governance/pipeline.py`, `pii.py`, ...) | none | `screen_request`, `screen_response` | runtime, chat endpoint |
| API keys and roles (`tenancy/`, `api/routes_admin.py`) | `api_keys` | create, rotate, revoke, authenticate | every endpoint |
| Database session (`db/session.py`) | a pool of connections per process | `get_session`, once per request | every endpoint and store |
| Endpoints (`api/`) | one database session per request | chat, agent run, reports, administration | all of the above |
| Evaluation harness (`eval/`) | per case its script, session and tools; the results | `load_cases`, `run_cases`, `build_report`, the exit code of the merge gate | runtime and guardrails as the gateway has them, a scripted provider |
| Observability (`observability/`), console (`src/console`), migrations | counters and spans; none; the schema | not modelled, see below | |

**Concurrency.** The gateway is one asyncio event loop per process. Requests
interleave only at an `await`; between two awaits the code is atomic. What
requests share is the breaker registry (memory), the pool of database connections
and the database. Several processes may run: they share the database only.

**Failure.** Provider calls fail in three ways that are handled differently.
Each request has one database session; the stores only `flush`, the handler
commits once, and `get_session` closes the session, which takes back whatever
was not committed, when the handler raises or the process dies.

**What makes each part correct**

- Policy and router: a request only ever reaches providers of its own rule; it
  reaches one that answers if there is one; it ends.
- Breakers: the count and the state agree whatever order answers come in; an
  open circuit keeps new calls away; the documented state machine is the real one.
- Agent run: what is paid for is recorded, once; a run is stored whole or not
  at all; the reply agrees with the record; the conversation stays one a model
  can read; limits hold; the run ends.
- Costs and budgets: the month's spending is what its requests were charged; a
  request is charged for all its answers or none; a stop is final and on record;
  only what was in flight goes over the budget.
- Chat and guardrails: what is blocked reaches no provider; every hit a client
  was answered about is in the audit log; what is paid for has a cost entry; what
  is redacted is redacted before it is sent. The last two do not hold.
- Provider clients: what one provider's trouble is taken for decides whether the
  request surfaces, fails over or crashes; a refusal has to surface. With foundry's
  403 it does not.
- Database session: a request has at most one connection, keeps none while it waits
  for one, and gives it back on every way out; so the pool never runs dry for good.
- Reads: a list, a detail or a report shows what is committed, of the caller's own
  tenant only, and everything the caller was already told of.
- Redaction: hits that do not overlap are replaced exactly; no character of a hit is
  left. The second holds only as long as no hit lies within another.
- Evaluation harness: a case passes only for what it did itself; the gate opens only
  when enough cases of a suite that has some passed.
- API keys: a key comes once, goes once and stays gone; whoever is answered that a
  key has ended can rely on it; a rotation is all or nothing.

## Modules

| Module | Models | How state and actions correspond |
|---|---|---|
| `RoutingPolicy` | `RoutingPolicy`, `RoutingRule` | operators only; `Slots` is `candidates[:max_attempts]` |
| `CircuitBreaker` | `CircuitBreakerRegistry` | operators on one entry, since the router calls several of its methods within one atomic step |
| `BreakerProtocol` | the state machine in the docstring of `circuit_breaker.py` | abstract specification of one circuit |
| `ProviderClients` | `chat()` of the three clients | operators only: what a backend does (`Event`) to what the router catches (`Result`), one per client |
| `ProviderRouter` | `ProviderRouter.route`, called concurrently | `breakers` is the registry; per request its context, its place in `route`, the position and the time of the call in flight. `heard` is a history variable: what the backend did to the last call that ended. `Start` and the four `Answer...` actions are the stretches of code between two awaits: what follows an answer is `on_success`/`on_failure`, the walk over the remaining candidates with their `before_call`, and the next call or the exception |
| `ProviderRouterProofs` | | theorems about the router |
| `AgentRuntime` | `run_agent`, `AgentRuntime.run`, `_execute_tool_with_retry`, and the writes of trace, cost and audit store | `session` holds the rows the request sees, `db` the committed ones, both with the run, its steps, its costs and its audit entries; `messages` the conversation as roles with the number of tool calls of a response (or the call a tool message answers); the other variables are the locals of the loop. `answered` is a history variable: the usage of every answer a provider gave |
| `AgentRuntimeProofs` | | theorems about an agent run |
| `Guardrails` | `GuardrailPipeline`, `redact` | operators only; a text is the record of what the checks find in it |
| `BudgetedLedger` | what `cost/` promises a tenant | abstract specification: admission while spending is below the budget, settlement at once and at most once |
| `TenantRequests` | `create_chat_completion`, `run_agent` as far as money goes, `get_cost_report`, `CostTracker`, `BudgetEnforcer`, by any number of concurrent requests | `spent`, `charged` and `audit` are the committed tables of one tenant; `own` and `noted` what the transaction of a request has flushed; `pc` the await its handler is at. Each action is the code between two awaits that others can see. `answered`, `sent`, `checked`, `stopped`, `inFlight` are history variables |
| `TenantRequestsProofs` | | theorems about a tenant's requests |
| `KeyLifecycle` | what the administration of keys promises | abstract specification: issue, retire, replace |
| `ApiKeys` | `ApiKeyStore`, `get_current_principal`, `require_role`, the endpoints of `routes_admin.py`, by any number of concurrent requests | `role`, `rotatedFrom`, `revokedAt` are the committed columns of `api_keys`; per request the await its handler is at, its input, the key it has drawn and its answer. `Find`, `Flush`, `Commit` and `Respond` are the statements of its transaction. `ended` is a history variable: the keys whose end had been answered when the request came |
| `ApiKeysProofs` | | theorems about keys |
| `Gateway` | all endpoints of `api/` as one process serves them: `get_current_principal`, `require_role`, `get_session` and its pool, `list_agent_runs`, `get_agent_run`, `get_cost_report`, and of the writing endpoints what the readers and the pool see of them | `pc` is the await a handler is at; `held` the connections of its session; `created`, `runs`, `charged` the tables the reads go to; `found` and `status` the response. `Administer` is `create_api_key` and `revoke_api_key`. `answered` and `before` are history variables: whose answers had arrived when a request came |
| `GatewayProofs` | | theorems about the gateway |
| `Redaction` | `find_pii` and `redact` on the characters of a text | a character is a cell, of the text or of a placeholder; `entity`, `from` and `hits` are the loop of `find_pii`, `left` and `result` that of `redact`. Where a pattern matches is open: any matches `finditer` can yield |
| `RedactionProofs` | | theorems about redaction, with the lemmas on slices of a sequence and on texts put together from pieces |
| `EvalGate` | `eval/cli.py`, `runner.py`, `report.py`, `golden_provider.py`, `models.py` | `pc` is where the harness is in a case and in the suite; `pending` is the script of the provider, `step` and `tools` the loop and the trace of an agent case, `results` and `exit` what comes out. `sent`, `calls`, `returned` are history variables: what really happened in each case |
| `EvalGateProofs` | | theorems about the evaluation gate, with lemmas on the scripts of the golden provider |
| `Folding` | | `Sum` and `Where`, the folds the properties about totals and rows are stated with. They take functions and sets where the community modules take operators, so that facts about them can be proved once and cited |
| `FoldingProofs` | | those facts, the inductions they rest on, and measures: tuples of naturals that cannot become smaller for ever |
| `MCProviderRouter`, `MCAgentRuntime`, `MCTenantRequests`, `MCApiKeys`, `MCGateway`, `MCRedaction`, `MCEvalGate` | | constants for TLC; the router's rules are those of `src/policies/routing.yaml`, the evaluation's policy is `standard` of `src/policies/guardrails.yaml` |

`ProviderRouter` extends `RoutingPolicy`, `CircuitBreaker` and `ProviderClients` and instantiates
`BreakerProtocol` once per provider with the refinement mapping *entry of the
registry to the variables of the protocol*.

`TenantRequests` extends `Guardrails` and instantiates `BudgetedLedger` with the
mapping *runs that passed the check* to `admitted`, *requests handed to the
router* to `unmetered`, *requests charged* to `settled`. What it calls a run is
the run of `AgentRuntime` with all but its costs left out.

`ApiKeys` instantiates `KeyLifecycle` with *rows without `revoked_at`* for `live`
and *rows with one* for `retired`.

`Gateway` is the composition of the endpoints over what they share, the pool and the
committed tables; each endpoint is cut down to the statements that take or give back
a connection and to the rows the others can see. The handlers themselves are in
`AgentRuntime`, `TenantRequests` and `ApiKeys`, one each.

`EvalGate` extends `Guardrails`: a chat case is `screen_request`, one golden response
and `screen_response`, an agent case goes through the loop of `AgentRuntime` as far as
a scripted provider can take it (no provider fails, the token budget of the default
`AgentConfig` is never reached).

An operator whose comment starts with *Mutant* is a plausible bug in the
definition that follows it: replacing that definition by it makes the property
the operator is paired with fail. They are not part of the specification.

### What is abstracted

- What the SDKs of the backends raise is read off the handlers of the clients; in
  particular `openai.AuthenticationError` is 401 alone, a 403 being a class of its
  own (`PermissionDeniedError`). For Bedrock *unauthorized* and *forbidden* are the
  three codes of `_AUTH_ERROR_CODES`; a 403 with another code is *rejected*.
- A registered provider is taken to be configured. `build_router` registers `local`,
  `bedrock` and `foundry` whatever the policy says; for one that a rule allows and
  `providers:` leaves out, `route()` would raise a `KeyError` after `before_call`
  (`router.py:145`).
- Time is an integer clock that only `Tick` moves; `before_call` and
  `on_failure` read it where the code reads `time.monotonic()`.
- Prompts, answers and tool results have no text. A response is its token count
  and its list of tool calls; a tool call is of one of four kinds: `unknown`
  (not in the registry), `invalid` (arguments its model rejects), `sql` (shares
  the session), `plain` (any other).
- Input and output tokens are one number; the code only ever adds them up for
  the budget, and records them side by side.
- In `AgentRuntime` the router is what it can answer: a response, a
  `ProviderError`, or an exception nobody classifies. `ProviderRouter` models
  how it comes to that.
- The guardrails answer with a number of hits and whether they block; a block
  always comes with a hit (`governance/pipeline.py`).
- In `AgentRuntime` the budget check and the tenant lookup are nondeterministic
  outcomes; `TenantRequests` has the check itself.
- In `TenantRequests` the requests share the database only. Isolation is
  Postgres' default, READ COMMITTED: a request reads what is committed when its
  statement runs. `created_at` of a cost entry is the server's `now()`, which is
  the start of the transaction, so the month of all entries of a request is the
  month in which it was authenticated (`born`), while the check uses the month in
  which it is made. A cost is a whole number of some unit and a budget a number of
  the same unit; the comparisons of `BudgetEnforcer.check` are exact on them.
- The roles, the key lookup and the tenant lookup are one refusal (`Refuse`).
- In `ApiKeys` an UPDATE names its row by id, as SQLAlchemy writes it: one that
  waited for another transaction overwrites what that one wrote. A time in
  `revoked_at` is the request that took it. A secret is told in one response
  and nowhere else, so a request authenticates only with keys it was told (`Known`);
  but it may ask for the end of any id (`Nameable`): of every committed row, since
  `sql_query_readonly` reads `api_keys` like any table (`sql_readonly.py:54-71`), and
  of ids that are no key's. Only an id drawn and not committed cannot be named, and
  ids are drawn never to repeat one drawn or named before (`Drawn`): they are 48
  random bits. A malformed token and a wrong secret are refused like an unknown key;
  the tenant of a key is left out. Requests that are not of the administration end where they
  are let in.
- In `Guardrails`, `Redact` takes all PII out of a text. `Redaction` shows when that
  is true of `redact`: unless a hit lies within another, as a phone number may within
  a card number. Then replacing the inner hit moves the end of the outer one, whose
  own replacement cuts too little or too much: with the shipped patterns
  `pay 4111-111-1111 007 now` comes out as `pay [REDACTED_CREDIT_CARD]07 now`.
- In `Redaction` the patterns match wherever they like, left to right and without
  overlap per pattern, and the check digit of a card number is right or wrong.
- In `Gateway` the outcome of the key lookup, of the budget check, of the guardrails
  and of a run are open; `TenantRequests`, `ApiKeys` and `AgentRuntime` have them. A
  request that goes on without authentication never takes a connection. `created_at`
  is a clock that never repeats: of two runs started in the same microsecond a list
  may show either. A limit below zero is an error of Postgres and not modelled.
- In `EvalGate` what an assertion looks for is one of the things the guardrails look
  for, so that a text contains it or does not; `regex` is `contains`. Any step of a
  case may raise (`BlowUp`), and a tool that is registered may still fail. Its
  exception has a text: `tools_called` tests the text of the error
  (`eval/runner.py:202`), so a tool that failed with an empty one would count as
  called. An exception of `load_cases` is left out; it ends the command with a code
  that is not 0 either.
- On Postgres a failing statement aborts the transaction, and with it the next
  flush (`SqlErrorAborts = TRUE`; `FALSE` is SQLite, which the unit tests use).
  A statement cancelled by `wait_for` invalidates the connection on both.

## What is checked

Passing runs:

| Run | Instance | Shows |
|---|---|---|
| `router_concurrent` | 3 requests, each with any of the contexts whose candidate lists differ; 3 providers, any of which may fail but `foundry`; threshold 2, timeout 2 ticks, 4 ticks of time | `BreakersConsistent`, `CallsPredateOpening`, `ReliableProviderServes`, `SensitiveStaysLocal`, `FollowsProtocol` (the circuits implement `BreakerProtocol` but for late answers), `TypeOK` (564k states) |
| `router_liveness` | 2 requests over one context per rule, `bedrock` not registered, threshold 1 | `EveryRouteEnds` |
| `agent_run` | 3 steps, budget of 3 tokens, answers of 1 or 2, 3 tool attempts, every shape of tool-call list; Postgres; the request may die anywhere | `LedgerComplete`, `TraceAddsUp`, `AllOrNothing`, `ReplyMatchesRecord`, `ReplyCountsCalls`, `ConversationWellFormed`, `SpendingBounded`, `ReplayGroups`, `EveryRunEnds`, `TypeOK` (about 85k states) |
| `tenant_requests` | 3 requests, each a chat with one of three bodies, a run of up to 2 answers, or a report; costs 1 and 2, budget 2, two months; the shipped `standard` policy; any request may die anywhere | `LedgerBalances`, `AnswersCharged`, `StopsAudited`, `OvershootInFlight`, `StopsAreFinal`, `KeepsLedger` (refinement of `BudgetedLedger`), `TypeOK` (2.2M states) |
| `api_keys` | 4 requests, each using, creating, rotating or revoking a key, 4 ids; a request may end any id that is committed or no key's; any request may be lost anywhere | `NoLateAccess`, `ReplacedIsRevoked`, `AnswersHold`, `KeepsLifecycle` (refinement of `KeyLifecycle`), `TypeOK` (1.2M states) |
| `gateway` | 3 requests, each with one of twelve calls of the seven kinds by three roles of two configured tenants and an unknown one; a pool of 2, a limit of 1; any request may be lost, the process may restart | `PoolBalanced`, `ReadsRight`, `EveryRequestEnds`, `TypeOK` (240k states) |
| `redaction` | every set of matches of three entities in a text of 4 characters, placeholders of 1, 2 and 3, one entity whose matches may be rejected, one name without a pattern | `RedactsExactly`, `NothingLeft`, `OffsetsValid`, `TypeOK` (385k states) |
| `eval_gate` | suites of none, one or two of thirteen cases of both modes, or of three; at most 2 steps; two thirds must pass | `ScriptFits`, `GateSound`, `TypeOK` (60k states) |

Runs that end in a counterexample, each the disagreement of the code with a
sentence of its own documentation (quoted in `PROJECT.json` under `findings`):

| Run | Property | What TLC finds |
|---|---|---|
| `refusal_surfaces` | `RefusalSurfaces` | Azure answers 403, `foundry_provider.py` raises `ProviderUnavailableError`, and the request goes on to the next candidate; `base.py` says 401 and 403 are *not failover-able* |
| `tool_error_keeps_run` | `ToolErrorKeepsRun` | a failing query aborts the transaction of the trace: the run ends in a 500 and leaves nothing, although `ToolExecutionError` promises not to crash the run |
| `every_answer_charged` | `EveryAnswerCharged` | an answer with a secret is blocked with a 502 before `CostTracker.record()` is reached: the provider call has no cost entry, although `cost/tracker.py` and the cost model say every call has one |
| `redacted_first` | `RedactedFirst` | `routes_chat.py` drops the redacted text and sends `body.messages`, although `pii.py` and the threat model (I2) say PII is redacted before the request reaches a provider |

More sentences the code does not keep, seen in the models and not run for themselves:

- ADR 0006 says *one probe attempt* of a half-open circuit; `before_call` raises only
  in OPEN, so every request that comes while the first probe is in flight is let
  through (`providers/circuit_breaker.py:48`). `FollowsProtocol` shows what does hold.
- The docstring of `agent/runtime.py` and the threat model (R2) say that every step is
  persisted before the run goes on; steps are flushed, and committed once after the
  loop (`api/routes_agent.py:168`). `AllOrNothing` shows what does hold.
- `db/models.py` says replay reads the steps back in order; a response and the tool
  calls it asked for share a `step_index`, the only key `replay` sorts by
  (`agent/trace.py:141`). `ReplayGroups` shows what does hold: the groups are those of
  the run and each has one response.
- `rotate_api_key` asserts that the key it has issued is there when it reads it again
  after its commit (`api/routes_admin.py:62`). The row is committed by then and its id
  can be read, so another administrator's request may end the key in between: the
  client gets a 500, the rotation stands and nobody is told the new secret (in
  `MCApiKeys` TLC comes to such a `reply` of `"assertion"` in 15 steps). `AnswersHold`
  shows what does hold.
- `eval/models.py` says the `input_*` assertions check the text as it was screened; in
  agent mode the runner hands them the message as it came (`eval/runner.py:209`).
- A chat case with golden tool calls is judged on the first golden response, whose text
  is empty, and never on `golden_final_text` (`eval/runner.py:110`).

**Bounds.** Two requests are enough for one to overtake the other at a
provider; the third is needed for a circuit that opens on two failures to meet
a late answer. Four ticks let a circuit open, time out, reopen and time out
again. Three attempts are `max_attempts` of the shipped policy. In an agent
run the second step is the first that can overshoot the budget, the third the
first after tool calls were answered twice; three tool attempts are the
default. For a tenant's requests: one request that brings the spending to the budget, one
that is in flight then, one that asks after it; a budget of 2 is reached by one
answer or by two, and passed by the third; the second month shows what a change
of month does to a request that spans it. For keys: one request that makes a key
beside the first, two that overlap on it, one that comes after both; three ids beside
the first, which the three that issue keys use up, or which are named without being
drawn. For the gateway: a pool of two that two requests
fill and a third waits for, one run that starts before another commits, a limit of one
that leaves out the older of two runs. A request names a run only if it is `r1`, and
the calls are dealt out in the order of a list, since which request asks which makes no
difference. For redaction: four characters hold two hits that are apart, touch, overlap
or lie within one another with a character to spare, and three entities make three hits
overlap. For the gate: two steps, so that scripts of fewer, as many and more tool calls
than steps occur; two cases, so that one can be judged by what the other left; the rate
of two in three is met exactly by three cases. What backends
do is cut down to one event per result in the passing router runs: the others
differ only in what a client makes of them. `MaxMonth` and the finite `Costs` are
bounds the code does not have. `MaxTime` is the only bound on the router that the code does not have;
all constants of the agent model are parameters of the code.
Requests are declared symmetric only in runs that check no liveness; no formula
of those runs tells one request from another.

**Fairness.** `ProviderRouter!Fairness`: a call in flight eventually ends, since
every client has a timeout. Nothing is assumed of the clock, of new requests or
of which answer comes. `AgentRuntime!FairSpec`: some step of the handler other
than its death is eventually taken; every await in it is a provider call, a
tool call under `wait_for`, a bounded sleep or a database statement.
`Gateway!FairSpec`: strong fairness of what a request does once it came, because
SQLAlchemy's pool hands a connection that comes back to the request that has waited
longest, and every other await ends as above. Nothing has to come, to time out, to be
lost or to restart, so `EveryRequestEnds` does not rest on the pool's timeout.

**Deadlock** is checked in all runs; `Quiescent`, `Done`, `AllDone` and `Exited` are the ends.

## What is proved

Every safety invariant and every action property the passing runs check is a theorem;
the three liveness properties are not, but the part of each that is safety is: steps
only lead towards the end.

`FoldingProofs`: the induction theorems of the library take an operator, which the
provers cannot instantiate. What is needed of the data is proved from the least-element
principle `WFMin`, which is about sets: `SetOfNaturals` (a set with 0 and the successor
of each of its numbers has all of them) and `SetOfSubsets` (the same for the subsets of
a finite set, one element at a time). From these come the lemmas on `Sum` (one summand
changes, one is added) and on `Where` (what an appended element does to the rows
picked), and `SumOfCounts`: counting a set by kind counts each element once.
`NothingSmallerForEver` and `SmallerAt` are about lexicographic measures.

`ProviderRouterProofs` (for all providers, policies, thresholds, timeouts and
numbers of requests, with an unbounded number of interleavings):

- `TypeCorrect`, with the fact that a call in flight is at a registered
  candidate of its request; by induction over the actions.
- `BreakersAlwaysConsistent`: `BreakersConsistent` is inductive on its own
  given the types. Its first conjunct says that a circuit is closed exactly while
  its failures are below the threshold; from it follows
  `HalfOpenTestIsRedundant`, that the test `state == HALF_OPEN` in `on_failure`
  decides nothing the count does not.
- `OpenCircuitGetsNoCalls` (`CallsPredateOpening`): needs in addition that no
  call starts after the present (`StartedByNow`); a circuit's `openedAt` only
  moves to *now*, and a call is admitted only at a circuit that is then not open.
- `ReliableProviderAlwaysServes`: needs the invariant that no circuit of a
  reliable provider has left the closed state and that every reliable candidate
  lies at or after the position a request has reached.
- `SensitiveAlwaysLocal`: under the assumption that the first rule of the policy
  matches the sensitive classifications and allows `local` alone
  (`FirstRuleGuardsSensitive`, true of the shipped rules).
- `CircuitsFollowProtocol`: when no rule names a provider twice, every step is for
  every circuit a step of `BreakerProtocol`, a stutter, or the answer to a call
  that was in flight when the circuit opened (`AnsweredLate`). With a provider
  twice in a rule one step could fail a circuit and probe it. Late answers are
  exempt because the docstring's machine has no move for them: `on_success` closes
  a circuit from any state, so a late success closes an open one at once, without
  a probe. The proof rests on `CallsPredateOpening`, which says that every call in
  flight at an open circuit is such a call.
- `RoutesAlwaysMoveOn`: the number of calls a request may still make (`CallsLeft`, at
  most `max_attempts` before its first) goes down with every step that moves it, and a
  step moves at most one. It is the safety half of `EveryRouteEnds`.

`AgentRuntimeProofs` (for all limits, usages and lists of tool calls, on either
database). A step is first classified by what it does to the rows (`Moves`:
begins, works, gives up, answers, commits, leaves, idles; lemma `StepMoves`);
each invariant is then proved over these seven cases:

- `RunTypeCorrect`.
- `LedgerAlwaysComplete`, `CommittedWholeOrNotAtAll`,
  `ReplyAlwaysMatchesRecord`: together inductive with `Phases`, which says what
  the run looks like at each place of the handler; without it nothing relates
  the commit to what was written before the loop ended.
- `SpendingAlwaysBounded`: needs that the loop index counts the answers
  (`Spending`).
- `ConversationAlwaysWellFormed`: needs that the calls still open in the
  conversation are the calls still pending (`Conversation`).
- `TraceAlwaysAddsUp`: inductive with the types. A step is classified once more, by the
  row it appends (`Traces`); a row that is not paid for leaves the answered calls as
  they are, an answer adds itself to the rows, the costs and the sum.
- `ReplyAlwaysCountsCalls`: needs that the loop index counts the rows of responses and
  those of the conversation until the run is finished (`Turns`).
- `ReplayAlwaysGroups`: needs that the rows of each `step_index` have one
  response and, up to the last index, hold the calls it asked for; at the last index
  as many are missing as are still open (`Grouped`). `Turns` says which index that is.
- `RunAlwaysNearsItsEnd`: each step lowers a tuple of naturals (`StillToDo`: stages of
  the handler, rounds of the loop, turn, calls pending, attempts left) in an order that
  is well-founded, so a run takes finitely many steps. Needs that the loop is only
  entered below `max_steps` (`InLoop`). It is the safety half of `EveryRunEnds`.

`TenantRequestsProofs` (for any number of requests, any costs, budget, bodies,
answers and guardrail policy):

- `TypeCorrect`.
- `AnswersAlwaysCharged` and `StopsAlwaysAudited` follow from one invariant,
  `PhaseInv`: where a request is says what it has written, flushed and been
  answered. Neither property is inductive: a commit moves `own` to `charged` and
  `noted` to `audit`, and without the phase nothing says what they hold then.
- `StopsStayFinal` needs that a month reported as stopped stays at its budget
  (`StopInv`), which rests on costs being natural numbers and on charges never
  being taken back.
- `OvershootOnlyInFlight` needs that in a month at its budget every run that
  passed its check in that month and is still going on was going on when the
  budget was reached (`FlightInv`).
- `LedgerAlwaysBalances`: needs that only finitely many requests have come
  (`BalanceInv`; there is no bound on their number). A commit adds the same amount to
  the month of its request and to what the request was charged; no other step changes
  either.
- `ImplementsLedger`: a step is first classified by what it does to money
  (charges, admits, or keeps it, lemma `MoneyMoves`); each class maps to a step
  of `BudgetedLedger` or to a stutter.

`ApiKeysProofs` (for any number of requests and keys): all properties of the run
`api_keys` follow from one invariant. Besides the types it says what the rows say
of each other (`RowInv`), what a request has seen and drawn at each place of its
handler (`PhaseInv`), that no two requests have drawn the same key and that an id
named before it was any key's is never drawn (`DrawnInv`), and that an id whose end
was answered is no live key (`EndedInv`); a 204 for an id without a row rests on
`DrawnInv`, all others on the row. `AnswersAlwaysHold` does not claim that the
assertion of `rotate_api_key` holds, which it need not: it says that where it fails
another request ended the new key after the rotation, which stands. `KeepsLifecycle` needs it at `Commit`: a second
rotation or revocation of a key finds its row already retired, and must then be an
issue or a stutter.

`GatewayProofs` (for any number of requests, any workloads, any size of the pool and
any limit). Every step but a restart moves one request (`Moves`):

- `TypeCorrect`.
- `PoolStaysBalanced`: `PoolBalanced` is inductive given the types. The work is in the
  second conjunct: the place of a request says what it holds, so the set of holders
  loses at most one request or, only where the pool is not full, gains one.
- `ReadsStayRight`: needs that what was answered is committed and that a request came
  after whoever it finds in `before` (`Past`), and that a step leaves the call, the
  start and what others found as they were (`Frame`). That reads of others stay right
  rests on the committed tables only growing.
- `PoolNeverStarves`: follows from `PoolBalanced`, because whoever holds a connection
  is at a place where it waits for none. `Ready` spells out when `Serve` is possible;
  that it is the same as ENABLED is seen on its guards, not proved.
- `RequestsAlwaysMoveOn`: every step, a restart included, takes some request a place
  nearer to its end and none back. With `PoolNeverStarves` it is what of
  `EveryRequestEnds` is safety.

`RedactionProofs` (for texts of any length, any list of entities and placeholders of
any length): `TypeCorrect`, `OffsetsStayValid` and `NothingIsLeft` follow from one
invariant. It says that the text up to the start of every hit still to come is
untouched (`PrefixInv`), and, where no hit lies within another, that no character of a
replaced hit is left and that what now lies behind the end of a hit to come lay behind
it in the original (`StaggeredInv`): so a cut at that end takes all of the hit, and may
only take more. `CutText` says cell by cell what a cut leaves, without an induction.

`AlwaysRedactsExactly` needs one. `RedactsExactly` says what the text is as a whole:
pieces of the original, one character each, and a placeholder for each hit, joined
(`FlattenSeq`). The invariant (`ExactInv`) says it of the hits replaced so far, and that
those still to come begin no further right. That cutting one more hit out is joining
the pieces with its mark in their place (`MarkedPieces`, `CutPieces`) is proved by
induction over the pieces, the facts on joining (`FlatExists`, `PiecesJoined`) by
induction over their number.

`EvalGateProofs` (for every suite, registry of tools, `max_steps` and minimum rate):

- `TypeCorrect` and `ScriptAlwaysFits` follow from one invariant. `Playing` says that
  the responses popped and the responses pending make up the script of the case, that
  the loop counts the popped ones and that one is left whenever it asks; `Judged` says
  of a case just ended how much of its script its status stands for. That the loop
  never asks an exhausted provider rests on the last response calling no tool.
- `VerdictsAlwaysSound` needs what really happened so far, place by place (`Honest`),
  and what of it the result of the case has kept (`Outcome`). `VerdictsSound` is the
  part of `GateSound` about single cases.
- `OpensOnlyForEnough`: `OpensForEnough` is the part of `GateSound` about the exit code.
  It needs that every case has a result when the report is made, and the cardinalities
  of the results that passed and of those that did not.
- `GateAlwaysSound`: the two with the third part, `ReportAddsUp`. The totals per
  category add up because counting a set by kind counts each element once
  (`SumOfCounts`).

They use that no tool is called `"none"`, the value a step without a tool call has in
the model.

The proofs use only the named assumptions of the modules: `PolicyAssumption`,
`BreakerAssumption`, `RouterAssumption`, `RuntimeAssumption`, `TenantAssumption`, `KeyAssumption`,
`GatewayAssumption`, `RedactionAssumption` and `EvalGateAssumption`, which say what the
types and validators of the code say.

`OvershootInFlight` leaves one case out on purpose: a run authenticated before
midnight of the last day of a month and checked after it is checked against the
new month and charged to the old one, and may so add to a month long exhausted.

**Only model-checked:** `EveryRouteEnds`, `EveryRunEnds` and `EveryRequestEnds`.
Liveness rests on fairness, and so on ENABLED, which the provers here do not have. What
is proved of them is that no step leads back and, for the pool, that nobody waits for
nothing (`RoutesAlwaysMoveOn`, `RunAlwaysNearsItsEnd`, `RequestsAlwaysMoveOn`,
`PoolNeverStarves`); that a step is taken is left to TLC.

## What is not modelled

- Pricing arithmetic and YAML loading; the regular expressions of PII, secrets and
  injection; the calculator, the document search and the URL and SQL checks of the
  tools, which are functions of text without state.
- `stream`, `embed` and `health_check` of the clients and `output_validation.py`:
  nothing in the gateway calls them.
- How each client writes a conversation down for its backend. The conversion is one
  message for one message and drops the id of the tool call an answer is for; whether
  a backend accepts that is the backend's to say.
- Metrics and tracing (nothing reads them back); the console (a client of the API);
  migrations and infrastructure (declarations, no behaviour at run time).

## Plan

1. Done: policy, clients, breakers, router; agent run; a tenant's chats, runs and
   reports over cost and audit tables, with the guardrail pipeline; API keys; the
   gateway's endpoints over the pool; redaction; the evaluation gate; and proofs of
   every safety property the runs check of them.
2. Recovery of circuits: a provider that is well again is used again, under
   fairness of requests and of the clock, in the instance of `router_liveness`.
3. The checks of the tools on URLs and statements.
4. Sentences still to be held against the code: the runbook's that every admin key
   operation goes through the audit table (`routes_admin.py` records none), and
   `api_keys.py`'s that *which key was live when* is never lost (an overlapping
   rotation overwrites `revoked_at`).
5. Bounds in numbers: by how much the runs of a month can exceed its budget, in terms of the
   runs in flight and their largest cost (chats are not checked), as a theorem beside `OvershootOnlyInFlight`.
