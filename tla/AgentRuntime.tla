----------------------------- MODULE AgentRuntime -----------------------------
(***************************************************************************)
(* POST /v1/agents/run from the budget check to the commit: run_agent      *)
(* (api/routes_agent.py) driving AgentRuntime.run (agent/runtime.py), and  *)
(* what TraceStore, CostTracker and AuditStore write on the way.           *)
(*                                                                         *)
(* One request owns one database session (db/session.py).  The stores only *)
(* flush, so what they write is visible to this request alone until the    *)
(* commit at the end of the handler, and an exception that no handler      *)
(* catches, or the death of the process, takes all of it back.             *)
(***************************************************************************)
EXTENDS Integers, Sequences, Folding

CONSTANTS
    MaxSteps,            \* AgentConfig.max_steps, from the request body
    TokenBudget,         \* AgentConfig.token_budget, from the request body
    ToolAttempts,        \* AgentConfig.tool_retry_max_attempts
    Usage,               \* token counts a response may report
    Replies,             \* tool-call lists a response may carry
    SqlErrorAborts       \* TRUE for Postgres: a failed statement aborts the transaction

(* "unknown": not in the registry.  "invalid": arguments its model rejects. *)
(* "sql": sql_query_readonly, on the session of the run.  "plain": a call   *)
(* of any other tool.                                                       *)
ToolKind == {"unknown", "invalid", "plain", "sql"}

(* max_steps and token_budget are ints a client may choose freely. *)
ASSUME RuntimeAssumption ==
    /\ MaxSteps \in Int
    /\ TokenBudget \in Int
    /\ ToolAttempts \in Nat \ {0}
    /\ Usage \subseteq Nat
    /\ Replies \subseteq Seq(ToolKind)
    /\ SqlErrorAborts \in BOOLEAN

VARIABLES
    pc,        \* where the handler is
    step,      \* step_index of the loop
    messages,  \* the conversation sent to the model
    pending,   \* tool calls of the last response still to run
    attempt,   \* attempt number of the tool call being run
    tokens,    \* total_input + total_output
    session,   \* rows as this request's session sees them
    db,        \* the committed rows
    reply,     \* the AgentRunResult, then the response to the client
    answered   \* usage of every answer a provider gave (not state of the code)

vars == <<pc, step, messages, pending, attempt, tokens, session, db, reply, answered>>

RunStatus == {"completed", "failed", "budget_exceeded", "max_steps_exceeded",
              "blocked_by_guardrail"}

(* AgentRun, or no such row. *)
Run == [status : RunStatus \cup {"none", "running"}, stepCount : Nat, tokens : Nat]

(* AgentStep *)
Step == [index : Nat, type : {"llm_call", "tool_call"}, ok : BOOLEAN,
         tokens : Nat, retries : Nat]

AuditAction == {"guardrail_request", "guardrail_response", "agent_run", "budget_hard_stop"}

Rows == [run : Run, steps : Seq(Step), costs : Seq(Nat), audit : Seq(AuditAction)]

NoRows ==
    [run |-> [status |-> "none", stepCount |-> 0, tokens |-> 0],
     steps |-> <<>>, costs |-> <<>>, audit |-> <<>>]

Message == [role : {"system", "user", "assistant", "tool"}, n : Nat]

Reply == [status : RunStatus \cup {"none", "http_404", "http_429", "http_500"},
          stepCount : Int, tokens : Nat]

NoReply == [status |-> "none", stepCount |-> 0, tokens |-> 0]

TypeOK ==
    /\ pc \in {"budget", "screen", "calling", "tool", "finished", "committed", "done"}
    /\ step \in Nat
    /\ messages \in Seq(Message)
    /\ pending \in Seq(ToolKind)
    /\ pc = "tool" => pending # <<>>
    /\ attempt \in 0..(ToolAttempts - 1)
    /\ tokens \in Nat
    /\ session \in Rows
    /\ db \in Rows
    /\ reply \in Reply
    /\ answered \in Seq(Nat)

Init ==
    /\ pc = "budget"
    /\ step = 0
    /\ messages = <<>>
    /\ pending = <<>>
    /\ attempt = 0
    /\ tokens = 0
    /\ session = NoRows
    /\ db = NoRows
    /\ reply = NoReply
    /\ answered = <<>>

-----------------------------------------------------------------------------
(* What the stores write into the session.                                 *)

(* TraceStore.record_step *)
Recorded(rows, row) ==
    [rows EXCEPT !.steps = Append(@, row),
                 !.run.stepCount = @ + 1,
                 !.run.tokens = @ + row.tokens]

(* TraceStore.finish_run *)
Finished(rows, status) == [rows EXCEPT !.run.status = status]

(* CostTracker.record *)
Costed(rows, used) == [rows EXCEPT !.costs = Append(@, used)]

(* AuditStore.record, once for each of n guardrail hits or, with n = 1, for *)
(* the handler itself.                                                      *)
Audited(rows, n, action) == [rows EXCEPT !.audit = @ \o [i \in 1..n |-> action]]

(* Mutant: the step of an answer carries the total of the run so far. *)
LlmStepCumulative(ok, used) ==
    [index |-> step, type |-> "llm_call", ok |-> ok, tokens |-> tokens + used, retries |-> 0]

LlmStep(ok, used) ==
    [index |-> step, type |-> "llm_call", ok |-> ok, tokens |-> used, retries |-> 0]

(* Mutant: the row of a tool call is numbered on from the rows before it. *)
ToolStepCounted(ok, retries) ==
    [index |-> session.run.stepCount, type |-> "tool_call", ok |-> ok, tokens |-> 0,
     retries |-> retries]

ToolStep(ok, retries) ==
    [index |-> step, type |-> "tool_call", ok |-> ok, tokens |-> 0, retries |-> retries]

(* Mutant: an early return without finish_run. *)
FinishForgotten(rows, status, steps, total) ==
    /\ session' = rows
    /\ reply' = [status |-> status, stepCount |-> steps, tokens |-> total]
    /\ pc' = "finished"

(* finish_run and the AgentRunResult the runtime returns with it. *)
Finish(rows, status, steps, total) ==
    /\ session' = Finished(rows, status)
    /\ reply' = [status |-> status, stepCount |-> steps, tokens |-> total]
    /\ pc' = "finished"

(* The top of the loop with step_index = next: another request to the      *)
(* model, or max_steps_exceeded.                                           *)
EnterLoop(rows, next) ==
    IF next < MaxSteps
    THEN /\ pc' = "calling"
         /\ step' = next
         /\ session' = rows
         /\ UNCHANGED reply
    ELSE /\ Finish(rows, "max_steps_exceeded", MaxSteps, tokens)
         /\ UNCHANGED step

-----------------------------------------------------------------------------
(* What TraceStore.replay sorts by: the rows of one step_index, a response *)
(* and the tool calls it asked for, come together, but among themselves in *)
(* whatever order the database has them.                                   *)
SameIndex(steps, index) == Where(steps, {row \in Step : row.index = index})

-----------------------------------------------------------------------------
(* Before the loop.                                                        *)

(* The tenant of the key is not in policies/tenants.yaml. *)
UnknownTenant ==
    /\ pc = "budget"
    /\ pc' = "done"
    /\ reply' = [NoReply EXCEPT !.status = "http_404"]
    /\ UNCHANGED <<step, messages, pending, attempt, tokens, session, db, answered>>

(* BudgetEnforcer.check answers HARD_STOP: audited, committed, 429. *)
BudgetExhausted ==
    /\ pc = "budget"
    /\ pc' = "committed"
    /\ session' = Audited(session, 1, "budget_hard_stop")
    /\ db' = session'
    /\ reply' = [NoReply EXCEPT !.status = "http_429"]
    /\ UNCHANGED <<step, messages, pending, attempt, tokens, answered>>

(* TraceStore.start_run *)
StartRun ==
    /\ pc = "budget"
    /\ pc' = "screen"
    /\ session' = [session EXCEPT !.run.status = "running"]
    /\ UNCHANGED <<step, messages, pending, attempt, tokens, db, reply, answered>>

(* The pre-flight guardrails: a hit for prompt injection, for PII or for   *)
(* both; a request without one is never blocked.                           *)
ScreenRequest ==
    /\ pc = "screen"
    /\ \E hits \in 0..2, allowed \in BOOLEAN :
        /\ ~allowed => hits > 0
        /\ LET rows == Audited(session, hits, "guardrail_request")
           IN  IF allowed
               THEN /\ messages' = <<[role |-> "system", n |-> 0], [role |-> "user", n |-> 0]>>
                    /\ EnterLoop(rows, 0)
               ELSE /\ Finish(rows, "blocked_by_guardrail", 0, 0)
                    /\ UNCHANGED <<messages, step>>
    /\ UNCHANGED <<pending, attempt, tokens, db, answered>>

-----------------------------------------------------------------------------
(* The model's turn.                                                       *)

(* Mutant: the step count of the result is the index of the failed call. *)
ModelFailsUncounted ==
    /\ pc = "calling"
    /\ Finish(Recorded(session, LlmStep(FALSE, 0)), "failed", step, tokens)
    /\ UNCHANGED <<step, messages, pending, attempt, tokens, db, answered>>

(* route() raises a ProviderError: no candidate answered, or a bad credential. *)
ModelFails ==
    /\ pc = "calling"
    /\ Finish(Recorded(session, LlmStep(FALSE, 0)), "failed", step + 1, tokens)
    /\ UNCHANGED <<step, messages, pending, attempt, tokens, db, answered>>

(* Mutant: only the calls of runs that go on are charged. *)
AnsweredRowsUncharged(used) == Recorded(session, LlmStep(TRUE, used))

(* The rows an answer leaves whatever comes of it: its step and its cost. *)
AnsweredRows(used) == Costed(Recorded(session, LlmStep(TRUE, used)), used)

(* Mutant: the budget is compared with this response, not with the run. *)
OverBudgetOfCall(used) == used > TokenBudget

OverBudget(used) == tokens + used > TokenBudget

(* What every answer does to the counters. *)
Count(used) ==
    /\ pc = "calling"
    /\ tokens' = tokens + used
    /\ answered' = Append(answered, used)

(* The answer takes the run over its token budget: it is not used. *)
AnswerOverBudget ==
    \E used \in Usage :
        /\ Count(used)
        /\ OverBudget(used)
        /\ Finish(AnsweredRows(used), "budget_exceeded", step + 1, tokens')
        /\ UNCHANGED <<step, messages, pending, attempt, db>>

(* n is the number of tool calls the response came with; the ChatMessage   *)
(* that goes into the conversation does not carry them.                    *)
Assistant(calls) == [role |-> "assistant", n |-> Len(calls)]

(* An answer without tool calls: screened, and the run is over. *)
AnswerFinal ==
    \E used \in Usage, hits \in 0..1, allowed \in BOOLEAN :
        /\ Count(used)
        /\ ~OverBudget(used)
        /\ ~allowed => hits > 0
        /\ messages' = Append(messages, Assistant(<<>>))
        /\ Finish(Audited(AnsweredRows(used), hits, "guardrail_response"),
                  IF allowed THEN "completed" ELSE "blocked_by_guardrail",
                  step + 1, tokens')
        /\ UNCHANGED <<step, pending, attempt, db>>

AnswerWithTools ==
    \E used \in Usage, calls \in Replies \ {<<>>} :
        /\ Count(used)
        /\ ~OverBudget(used)
        /\ messages' = Append(messages, Assistant(calls))
        /\ pending' = calls
        /\ pc' = "tool"
        /\ session' = AnsweredRows(used)
        /\ UNCHANGED <<step, attempt, db, reply>>

-----------------------------------------------------------------------------
(* The tools' turn.                                                        *)

(* The tool message names the call it answers: here, by its position from  *)
(* the end of the response's list.                                         *)
ToolMessage == [role |-> "tool", n |-> Len(pending)]

(* Mutant: off by one. *)
LastCallLate == pending = <<>>

LastCall == Len(pending) = 1

(* The first pending call is over: recorded, answered in the conversation, *)
(* and after the last one the loop goes round.                             *)
ToolAnswered(ok, retries) ==
    LET rows == Recorded(session, ToolStep(ok, retries))
    IN  /\ messages' = Append(messages, ToolMessage)
        /\ pending' = Tail(pending)
        /\ attempt' = 0
        /\ IF LastCall
           THEN EnterLoop(rows, step + 1)
           ELSE /\ session' = rows
                /\ UNCHANGED <<pc, step, reply>>
        /\ UNCHANGED <<tokens, db, answered>>

(* Mutant: the session is committed on the way out. *)
LoseCommits ==
    /\ pc' = "done"
    /\ session' = NoRows
    /\ db' = session
    /\ reply' = [NoReply EXCEPT !.status = "http_500"]
    /\ UNCHANGED <<step, messages, pending, attempt, tokens, answered>>

(* The request dies: the session is closed without a commit. *)
Lose ==
    /\ pc' = "done"
    /\ session' = NoRows
    /\ reply' = [NoReply EXCEPT !.status = "http_500"]
    /\ UNCHANGED <<step, messages, pending, attempt, tokens, db, answered>>

RunningTool(kinds) == pc = "tool" /\ Head(pending) \in kinds

(* Mutant: a call of an unknown tool is recorded and skipped over. *)
ToolNotRunUnanswered ==
    /\ RunningTool({"unknown", "invalid"})
    /\ pending' = Tail(pending)
    /\ IF LastCall
       THEN EnterLoop(Recorded(session, ToolStep(FALSE, 0)), step + 1)
       ELSE /\ session' = Recorded(session, ToolStep(FALSE, 0))
            /\ UNCHANGED <<pc, step, reply>>
    /\ UNCHANGED <<messages, attempt, tokens, db, answered>>

(* No such tool, or arguments that do not validate: run() is not called. *)
ToolNotRun ==
    /\ RunningTool({"unknown", "invalid"})
    /\ ToolAnswered(FALSE, 0)

ToolReturns ==
    /\ RunningTool({"plain", "sql"})
    /\ ToolAnswered(TRUE, attempt)

(* ToolExecutionError: not retried. *)
ToolRejects ==
    /\ RunningTool({"plain", "sql"})
    /\ ToolAnswered(FALSE, attempt)

(* Mutant: the attempt counter wraps before it reaches its limit. *)
NextAttemptWraps == 1 - attempt

NextAttempt == attempt + 1

(* A timeout or any other exception: retried after a pause, and given up   *)
(* with retry_count = max_attempts.                                        *)
ToolFails ==
    /\ RunningTool({"plain"})
    /\ IF NextAttempt < ToolAttempts
       THEN /\ attempt' = NextAttempt
            /\ UNCHANGED <<pc, step, messages, pending, tokens, session, db, reply, answered>>
       ELSE ToolAnswered(FALSE, ToolAttempts)

(* The query itself fails: a ToolExecutionError, but on Postgres the       *)
(* transaction is aborted and the flush of record_step raises.             *)
SqlFails ==
    /\ RunningTool({"sql"})
    /\ IF SqlErrorAborts THEN Lose ELSE ToolAnswered(FALSE, attempt)

(* asyncio.wait_for cancels the query: SQLAlchemy invalidates the          *)
(* connection, a retry gets PendingRollbackError (a ToolExecutionError),   *)
(* and the flush of record_step raises.                                    *)
SqlTimesOut ==
    /\ RunningTool({"sql"})
    /\ Lose

-----------------------------------------------------------------------------
(* After the loop.                                                         *)

(* The agent_run audit entry and the only commit of a run. *)
Commit ==
    /\ pc = "finished"
    /\ pc' = "committed"
    /\ session' = Audited(session, 1, "agent_run")
    /\ db' = session'
    /\ UNCHANGED <<step, messages, pending, attempt, tokens, reply, answered>>

(* The response reaches the client. *)
Respond ==
    /\ pc = "committed"
    /\ pc' = "done"
    /\ UNCHANGED <<step, messages, pending, attempt, tokens, session, db, reply, answered>>

(* At any await: an exception nobody catches (a provider answer that is no *)
(* JSON, a failed flush), a cancelled request, or the process dies.        *)
RequestLost == pc # "done" /\ Lose

Done == pc = "done" /\ UNCHANGED vars

Progress ==
    \/ UnknownTenant
    \/ BudgetExhausted
    \/ StartRun
    \/ ScreenRequest
    \/ ModelFails
    \/ AnswerOverBudget
    \/ AnswerFinal
    \/ AnswerWithTools
    \/ ToolNotRun
    \/ ToolReturns
    \/ ToolRejects
    \/ ToolFails
    \/ SqlFails
    \/ SqlTimesOut
    \/ Commit
    \/ Respond

Next ==
    \/ Progress
    \/ RequestLost
    \/ Done

Spec == Init /\ [][Next]_vars

(* Every await of the handler returns: providers and tools have timeouts. *)
FairSpec == Spec /\ WF_vars(Progress)

-----------------------------------------------------------------------------
(* Properties.                                                             *)

(* While the request lives its ledger is complete: one cost entry for each *)
(* answer a provider gave, in order and of the same usage, and run totals  *)
(* that agree with the counters of the loop (record_step and CostTracker   *)
(* are called side by side on every path of AgentRuntime.run).  A committed *)
(* run has the same ledger.                                                *)
LedgerOf(rows) ==
    /\ rows.costs = answered
    /\ rows.run.tokens = tokens
    /\ rows.run.stepCount = Len(rows.steps)

LedgerComplete ==
    /\ pc # "done" => LedgerOf(session)
    /\ db.run.status # "none" => LedgerOf(db)

(* The trace accounts for the money: the answered llm_call steps, in the   *)
(* order they were recorded, are the cost entries, and the total of the    *)
(* run is their sum (AgentRun totals are kept by record_step, costs by     *)
(* CostTracker: nothing in the code compares them).                        *)
AnsweredCalls(steps) == Where(steps, {row \in Step : row.type = "llm_call" /\ row.ok})

TraceAddsUp ==
    \A rows \in {session, db} :
        LET calls == AnsweredCalls(rows.steps)
        IN  /\ rows.costs = [i \in DOMAIN calls |-> calls[i].tokens]
            /\ rows.run.tokens = Sum(rows.costs, DOMAIN rows.costs)

(* A run is committed whole or not at all, wherever the request dies: what *)
(* is committed is a finished run that ends in its agent_run audit entry,  *)
(* or no run, no step and no cost.  No reader ever sees a "running" run.   *)
AllOrNothing ==
    /\ db.run.status # "running"
    /\ db.run.status = "none" => db.steps = <<>> /\ db.costs = <<>>
    /\ db.run.status # "none" =>
           db.audit # <<>> /\ db.audit[Len(db.audit)] = "agent_run"

(* What a client is told of its run is what the database holds of it: a    *)
(* reply with a run status is only sent for a committed run of that status *)
(* and of these tokens.                                                    *)
ReplyMatchesRecord ==
    pc = "done" /\ reply.status \in RunStatus =>
        db.run.status = reply.status /\ db.run.tokens = reply.tokens

(* The step_count of the response counts the model calls of the run, where *)
(* AgentRun.step_count counts its rows.  (With a negative max_steps the    *)
(* response gives that negative number.)                                   *)
ModelCalls(steps) == Where(steps, {row \in Step : row.type = "llm_call"})

ReplyCountsCalls ==
    pc = "done" /\ reply.status \in RunStatus /\ MaxSteps >= 0 =>
        reply.stepCount = Len(ModelCalls(db.steps))

(* The conversation is one a model can read: each tool call of a response  *)
(* is answered by exactly one tool message, in the order of the calls and  *)
(* before anything else, and the model is only asked again when none is    *)
(* open (the three paths of the tool loop all reach messages.append).      *)
OpenCalls(message) ==
    CASE message.role = "assistant" -> message.n
      [] message.role = "tool"      -> message.n - 1
      [] OTHER                      -> 0

ConversationWellFormed ==
    /\ \A i \in 1..(Len(messages) - 1) :
           IF OpenCalls(messages[i]) > 0
           THEN messages[i + 1] = [role |-> "tool", n |-> OpenCalls(messages[i])]
           ELSE messages[i + 1].role # "tool"
    /\ pc = "calling" => messages # <<>> /\ OpenCalls(messages[Len(messages)]) = 0

(* Spending is bounded: past the first answer no model call and no tool    *)
(* call is made over the token budget, so a run overshoots it by at most   *)
(* its last answer; no run gets more answers than max_steps; and a run is  *)
(* reported budget_exceeded exactly when it is over.                       *)
SpendingBounded ==
    /\ pc = "tool" \/ (pc = "calling" /\ answered # <<>>) => tokens <= TokenBudget
    /\ Len(answered) > 1 => tokens - answered[Len(answered)] <= TokenBudget
    /\ answered # <<>> => Len(answered) <= MaxSteps
    /\ db.run.status # "none" =>
           (db.run.status = "budget_exceeded" <=> answered # <<>> /\ tokens > TokenBudget)

(* Every request ends, whatever the model and the tools answer. *)
EveryRunEnds == <>(pc = "done")

(* tools/base.py:21-22: a failing tool is surfaced to the model rather than *)
(* crashing the run.  A failing query is recorded as a step.                *)
ToolErrorKeepsRun ==
    [][SqlFails => Len(session'.steps) = Len(session.steps) + 1]_vars

(* A replay shows what happened: the responses in the order in which they  *)
(* were given, one for each step_index from 0 on, and with each of them as *)
(* many tool calls as it asked for, whichever way the run ended (the       *)
(* conversation and the trace are kept side by side, and replay has only   *)
(* the step_index of the loop to sort the trace by).                       *)
Responses(conversation) ==
    Where(conversation, {message \in Message : message.role = "assistant"})

ReplayGroups ==
    LET steps   == db.steps
        calls   == ModelCalls(steps)
        replies == Responses(messages)
    IN  db.run.status # "none" =>
          /\ \A i \in DOMAIN calls : calls[i].index = i - 1
          /\ \A i \in DOMAIN steps : steps[i].index < Len(calls)
          /\ \A i \in DOMAIN calls :
                LET group == SameIndex(steps, i - 1)
                IN  /\ \A j \in 2 .. Len(group) : group[j].type = "tool_call"
                    /\ Len(group) - 1 = IF i <= Len(replies) THEN replies[i].n ELSE 0

=============================================================================
