--------------------------- MODULE TenantRequests ---------------------------
(***************************************************************************)
(* The requests of one tenant, concurrently, and the cost and audit tables *)
(* they share: POST /v1/chat/completions (api/routes_chat.py),             *)
(* POST /v1/agents/run as far as money is concerned (api/routes_agent.py;  *)
(* AgentRuntime has the run itself), and GET /v1/cost/report               *)
(* (api/routes_cost.py).                                                   *)
(*                                                                         *)
(* Each request has a session and one transaction, under READ COMMITTED:   *)
(* it sees what others committed and, until its own commit, nobody sees    *)
(* what it wrote.                                                          *)
(***************************************************************************)
EXTENDS Integers, Sequences, Guardrails, Folding

CONSTANTS
    Requests,
    Budget,      \* Tenant.monthly_budget_usd; 0 or less is no budget
    Costs,       \* cost_usd of a provider answer
    Policy,      \* the tenant's guardrail policy
    Bodies,      \* ChatCompletionIn.messages
    Answers,     \* texts a provider may answer a chat with
    MaxAnswers,  \* bound: answers of one run (AgentConfig.max_steps)
    MaxMonth     \* bound: how often the month changes

ChatMessage == [role : {"system", "user", "assistant", "tool"}, content : Text]

ASSUME TenantAssumption ==
    /\ Budget \in Int
    /\ Costs \subseteq Nat
    /\ Policy \in GuardrailPolicy
    /\ Bodies \subseteq Seq(ChatMessage)
    /\ Answers \subseteq Text
    /\ MaxAnswers \in Nat
    /\ MaxMonth \in Nat

Months == 0..MaxMonth
NotYet == -1

VARIABLES
    month,     \* the current month, of the gateway and of the database
    spent,     \* committed cost_entries: the sum over each month
    charged,   \* committed cost_entries: the sum over each request
    audit,     \* committed audit_log: the rules and actions of each request
    pc,        \* where the handler of a request is
    kind,      \* the endpoint
    born,      \* month of now() in its transaction: its first statement's
    body,      \* the messages of a chat request
    own,       \* cost entries it has flushed and not committed
    noted,     \* audit entries it has flushed and not committed
    calls,     \* answers a run has had
    reply,     \* the response
    (* Not state of the code: *)
    answered,  \* sum over all answers providers gave to a request
    sent,      \* message lists that were handed to the router
    checked,   \* month in which a run passed the budget check
    stopped,   \* months in which a HARD_STOP was reported
    inFlight   \* per month: runs going on when its spending reached the budget

tables == <<spent, charged, audit>>
vars == <<month, tables, pc, kind, born, body, own, noted, calls, reply,
          answered, sent, checked, stopped, inFlight>>

Kind == {"none", "chat", "run", "report"}
Entry == Rule \cup {"agent_run", "budget_hard_stop"}
BudgetStatus == {"ok", "soft_alert", "hard_stop"}
Reply == {"none", "success", "refused", "http_400", "http_429", "http_502", "blocked_502",
          "http_500"} \cup BudgetStatus

TypeOK ==
    /\ month \in Months
    /\ spent \in [Months -> Nat]
    /\ charged \in [Requests -> Nat]
    /\ audit \in [Requests -> SUBSET Entry]
    /\ pc \in [Requests -> {"idle", "authenticated", "calling", "running", "committed", "done"}]
    /\ kind \in [Requests -> Kind]
    /\ born \in [Requests -> Months]
    /\ body \in [Requests -> Seq(ChatMessage)]
    /\ own \in [Requests -> Nat]
    /\ noted \in [Requests -> SUBSET Entry]
    /\ calls \in [Requests -> 0..MaxAnswers]
    /\ reply \in [Requests -> Reply]
    /\ answered \in [Requests -> Nat]
    /\ sent \in [Requests -> SUBSET Seq(ChatMessage)]
    /\ checked \in [Requests -> Months \cup {NotYet}]
    /\ stopped \in SUBSET Months
    /\ inFlight \in [Months -> SUBSET Requests]

Init ==
    /\ month = 0
    /\ spent = [m \in Months |-> 0]
    /\ charged = [r \in Requests |-> 0]
    /\ audit = [r \in Requests |-> {}]
    /\ pc = [r \in Requests |-> "idle"]
    /\ kind = [r \in Requests |-> "none"]
    /\ born = [r \in Requests |-> 0]
    /\ body = [r \in Requests |-> <<>>]
    /\ own = [r \in Requests |-> 0]
    /\ noted = [r \in Requests |-> {}]
    /\ calls = [r \in Requests |-> 0]
    /\ reply = [r \in Requests |-> "none"]
    /\ answered = [r \in Requests |-> 0]
    /\ sent = [r \in Requests |-> {}]
    /\ checked = [r \in Requests |-> NotYet]
    /\ stopped = {}
    /\ inFlight = [m \in Months |-> {}]

-----------------------------------------------------------------------------
(* The database.                                                           *)

(* Mutant: the transaction's month, not the current one. *)
MonthToDateOfRequest(r) == spent[born[r]]

(* CostTracker.month_to_date_usd *)
MonthToDate(r) == spent[month]

(* Mutant: the budget may be spent to the last cent. *)
StatusLate(usd) ==
    IF Budget > 0 /\ usd > Budget THEN "hard_stop"
    ELSE IF Budget > 0 /\ 10 * usd >= 8 * Budget THEN "soft_alert"
    ELSE "ok"

(* BudgetEnforcer.check *)
Status(usd) ==
    IF Budget > 0 /\ usd >= Budget THEN "hard_stop"
    ELSE IF Budget > 0 /\ 10 * usd >= 8 * Budget THEN "soft_alert"
    ELSE "ok"

Running == {r \in Requests : pc[r] = "running"}

Reached(usd) == usd >= Budget

(* Mutant: an entry counts for the month it is committed in. *)
ChargeOnCommit(r, cost) ==
    /\ spent' = [spent EXCEPT ![month] = @ + cost]
    /\ charged' = [charged EXCEPT ![r] = @ + cost]
    /\ inFlight' = inFlight

(* The cost entries of r become visible.  created_at is the database's     *)
(* now(), the start of the transaction.                                    *)
Charge(r, cost) ==
    /\ spent' = [spent EXCEPT ![born[r]] = @ + cost]
    /\ charged' = [charged EXCEPT ![r] = @ + cost]
    /\ inFlight' = IF Reached(spent'[born[r]]) /\ ~Reached(spent[born[r]])
                   THEN [inFlight EXCEPT ![born[r]] = Running]
                   ELSE inFlight

(* The commit of r with its last entries, and the answer it goes on to give. *)
Commit(r, cost, entries, answer) ==
    /\ Charge(r, own[r] + cost)
    /\ audit' = [audit EXCEPT ![r] = @ \cup noted[r] \cup entries]
    /\ own' = [own EXCEPT ![r] = 0]
    /\ noted' = [noted EXCEPT ![r] = {}]
    /\ pc' = [pc EXCEPT ![r] = "committed"]
    /\ reply' = [reply EXCEPT ![r] = answer]

(* Mutant: what the providers charged is taken back, flushed or not. *)
LeaveRefunding(r, answer) ==
    /\ pc' = [pc EXCEPT ![r] = "done"]
    /\ own' = [own EXCEPT ![r] = 0]
    /\ noted' = [noted EXCEPT ![r] = {}]
    /\ reply' = [reply EXCEPT ![r] = answer]
    /\ spent' = [spent EXCEPT ![born[r]] = @ - answered[r]]
    /\ UNCHANGED <<charged, audit, inFlight>>

(* An answer without a commit: the session is closed and rolled back. *)
Leave(r, answer) ==
    /\ pc' = [pc EXCEPT ![r] = "done"]
    /\ own' = [own EXCEPT ![r] = 0]
    /\ noted' = [noted EXCEPT ![r] = {}]
    /\ reply' = [reply EXCEPT ![r] = answer]
    /\ UNCHANGED <<tables, inFlight>>

-----------------------------------------------------------------------------
(* All endpoints.                                                          *)

(* get_current_principal reads the key: the transaction begins. *)
Authenticate(r) ==
    /\ pc[r] = "idle"
    /\ pc' = [pc EXCEPT ![r] = "authenticated"]
    /\ born' = [born EXCEPT ![r] = month]
    /\ \E k \in Kind \ {"none"} :
        /\ kind' = [kind EXCEPT ![r] = k]
        /\ \E messages \in (IF k = "chat" THEN Bodies ELSE {<<>>}) :
               body' = [body EXCEPT ![r] = messages]
    /\ UNCHANGED <<month, tables, own, noted, calls, reply, answered, sent, checked, stopped, inFlight>>

(* 401, 403, or, of a run or a report, 404 for an unknown tenant. *)
Refuse(r) ==
    /\ pc[r] = "authenticated"
    /\ Leave(r, "refused")
    /\ UNCHANGED <<month, kind, born, body, calls, answered, sent, checked, stopped>>

(* The response reaches the client. *)
Respond(r) ==
    /\ pc[r] = "committed"
    /\ pc' = [pc EXCEPT ![r] = "done"]
    /\ UNCHANGED <<month, tables, kind, born, body, own, noted, calls, reply,
                   answered, sent, checked, stopped, inFlight>>

(* An exception nobody catches, a cancelled request, a dead process. *)
Lose(r) ==
    /\ pc[r] \notin {"idle", "done"}
    /\ Leave(r, "http_500")
    /\ UNCHANGED <<month, kind, born, body, calls, answered, sent, checked, stopped>>

NewMonth ==
    /\ month < MaxMonth
    /\ month' = month + 1
    /\ UNCHANGED <<tables, pc, kind, born, body, own, noted, calls, reply,
                   answered, sent, checked, stopped, inFlight>>

-----------------------------------------------------------------------------
(* run_agent and get_cost_report.                                          *)

Asks(r, k) == pc[r] = "authenticated" /\ kind[r] = k

HardStop(r) ==
    /\ Asks(r, "run")
    /\ Status(MonthToDate(r)) = "hard_stop"
    /\ Commit(r, 0, {"budget_hard_stop"}, "http_429")
    /\ stopped' = stopped \cup {month}
    /\ UNCHANGED <<month, kind, born, body, calls, answered, sent, checked>>

StartRun(r) ==
    /\ Asks(r, "run")
    /\ Status(MonthToDate(r)) # "hard_stop"
    /\ pc' = [pc EXCEPT ![r] = "running"]
    /\ checked' = [checked EXCEPT ![r] = month]
    /\ UNCHANGED <<month, tables, kind, born, body, own, noted, calls, reply,
                   answered, sent, stopped, inFlight>>

(* Mutant: only the last answer is charged. *)
RunAnsweredLast(r) ==
    /\ pc[r] = "running"
    /\ calls[r] < MaxAnswers
    /\ calls' = [calls EXCEPT ![r] = @ + 1]
    /\ \E cost \in Costs :
        /\ own' = [own EXCEPT ![r] = cost]
        /\ answered' = [answered EXCEPT ![r] = @ + cost]
    /\ UNCHANGED <<month, tables, pc, kind, born, body, noted, reply, sent, checked, stopped, inFlight>>

(* Mutant: every step is committed. *)
RunAnsweredCommits(r) ==
    /\ pc[r] = "running"
    /\ calls[r] < MaxAnswers
    /\ calls' = [calls EXCEPT ![r] = @ + 1]
    /\ \E cost \in Costs :
        /\ Charge(r, cost)
        /\ answered' = [answered EXCEPT ![r] = @ + cost]
    /\ UNCHANGED <<month, audit, pc, kind, born, body, own, noted, reply, sent, checked, stopped>>

(* An LLM step of AgentRuntime.run. *)
RunAnswered(r) ==
    /\ pc[r] = "running"
    /\ calls[r] < MaxAnswers
    /\ calls' = [calls EXCEPT ![r] = @ + 1]
    /\ \E cost \in Costs :
        /\ own' = [own EXCEPT ![r] = @ + cost]
        /\ answered' = [answered EXCEPT ![r] = @ + cost]
    /\ UNCHANGED <<month, tables, pc, kind, born, body, noted, reply, sent, checked, stopped, inFlight>>

(* AgentRuntime.run returns, whatever the status of the run. *)
RunEnds(r) ==
    /\ pc[r] = "running"
    /\ Commit(r, 0, {"agent_run"}, "success")
    /\ UNCHANGED <<month, kind, born, body, calls, answered, sent, checked, stopped>>

Report(r) ==
    /\ Asks(r, "report")
    /\ LET status == Status(MonthToDate(r))
       IN  /\ Leave(r, status)
           /\ stopped' = IF status = "hard_stop" THEN stopped \cup {month} ELSE stopped
    /\ UNCHANGED <<month, kind, born, body, calls, answered, sent, checked>>

-----------------------------------------------------------------------------
(* create_chat_completion.                                                 *)

NoText == [long |-> FALSE, injection |-> FALSE, pii |-> FALSE, secret |-> FALSE]

LastUserMessage(messages) ==
    LET users == {i \in DOMAIN messages : messages[i].role = "user"}
    IN  IF users = {} THEN NoText
        ELSE messages[CHOOSE i \in users : \A j \in users : i >= j].content

(* The guardrails let the last user message through, and body.messages go  *)
(* to the router.                                                          *)
SendChat(r) ==
    /\ Asks(r, "chat")
    /\ LET pre == ScreenRequest(LastUserMessage(body[r]), Policy)
       IN  pre.allowed /\ noted' = [noted EXCEPT ![r] = @ \cup pre.hits]
    /\ pc' = [pc EXCEPT ![r] = "calling"]
    /\ sent' = [sent EXCEPT ![r] = {body[r]}]
    /\ UNCHANGED <<month, tables, kind, born, body, own, calls, reply,
                   answered, checked, stopped, inFlight>>

BlockChat(r) ==
    /\ Asks(r, "chat")
    /\ LET pre == ScreenRequest(LastUserMessage(body[r]), Policy)
       IN  ~pre.allowed /\ Commit(r, 0, pre.hits, "http_400")
    /\ UNCHANGED <<month, kind, born, body, calls, answered, sent, checked, stopped>>

(* Mutant: the hits of the request are lost with the failed call. *)
ChatFailsUncommitted(r) ==
    /\ pc[r] = "calling"
    /\ Leave(r, "http_502")
    /\ UNCHANGED <<month, kind, born, body, calls, answered, sent, checked, stopped>>

(* route() raises a ProviderError; 503 for NoHealthyProviderError. *)
ChatFails(r) ==
    /\ pc[r] = "calling"
    /\ Commit(r, 0, {}, "http_502")
    /\ UNCHANGED <<month, kind, born, body, calls, answered, sent, checked, stopped>>

ChatAnswered(r) ==
    /\ pc[r] = "calling"
    /\ \E cost \in Costs, text \in Answers :
        /\ answered' = [answered EXCEPT ![r] = @ + cost]
        /\ LET post == ScreenResponse(text, Policy)
           IN  IF post.allowed
               THEN Commit(r, cost, post.hits, "success")
               ELSE Commit(r, 0, post.hits, "blocked_502")
    /\ UNCHANGED <<month, kind, born, body, calls, sent, checked, stopped>>

-----------------------------------------------------------------------------
Handle(r) ==
    \/ Authenticate(r)
    \/ Refuse(r)
    \/ HardStop(r)
    \/ StartRun(r)
    \/ RunAnswered(r)
    \/ RunEnds(r)
    \/ Report(r)
    \/ SendChat(r)
    \/ BlockChat(r)
    \/ ChatFails(r)
    \/ ChatAnswered(r)
    \/ Respond(r)
    \/ Lose(r)

Done == (\A r \in Requests : pc[r] = "done") /\ UNCHANGED vars

Next == (\E r \in Requests : Handle(r)) \/ NewMonth \/ Done

Spec == Init /\ [][Next]_vars

-----------------------------------------------------------------------------
(* Properties.                                                             *)

(* What takes a month over its budget was going on when the budget was     *)
(* reached: a run that is charged to a month already at its budget was in  *)
(* flight at that moment, however the runs interleave (the check comes     *)
(* once, before the run; docs/cost-model.md, mid-run overrun).  Left out:  *)
(* a run that was authenticated before midnight of the last day and        *)
(* checked after it is checked against the new month and charged to the old. *)
Overshoots(r) ==
    /\ kind[r] = "run" /\ charged'[r] # charged[r]
    /\ checked[r] = born[r]
    /\ Budget > 0 /\ spent[born[r]] >= Budget

OvershootInFlight ==
    [][\A r \in Requests : Overshoots(r) => r \in inFlight[born[r]]]_vars

(* A stop is final: once a run was refused or a report said hard_stop, no  *)
(* run is admitted in that month, by whatever request and although the     *)
(* checks read a table that others are writing.                            *)
StopsAreFinal ==
    [][\A r \in Requests : checked'[r] # checked[r] => month \notin stopped]_vars

(* The month's spending is what the requests of the month were charged,    *)
(* with nothing lost or counted twice between concurrent commits.          *)
Came(m) == {r \in Requests : pc[r] # "idle" /\ born[r] = m}

LedgerBalances == \A m \in Months : spent[m] = Sum(charged, Came(m))

(* A request is charged for all its answers or for none; for all when it   *)
(* succeeds, and for none exactly when it was lost before its commit, or   *)
(* the guardrails blocked the answer of a chat.                            *)
AnswersCharged ==
    \A r \in Requests :
        /\ charged[r] \in {0, answered[r]}
        /\ pc[r] = "done" /\ reply[r] = "success" => charged[r] = answered[r]
        /\ reply[r] \in {"http_400", "http_429", "http_502", "blocked_502"} => charged[r] = 0

(* Whoever is told that a limit or a guardrail stopped the request finds   *)
(* that in the audit log; a blocked message reaches no provider; and every *)
(* hit on a request that got an answer of the handler is on record, on its *)
(* error paths too (each raise after a hit has its own commit).            *)
ScreenedBody(r) == ScreenRequest(LastUserMessage(body[r]), Policy)

StopsAudited ==
    \A r \in Requests :
        /\ reply[r] = "http_429" => "budget_hard_stop" \in audit[r]
        /\ reply[r] = "blocked_502" => "secret_leak" \in audit[r]
        /\ sent[r] # {} => ScreenedBody(r).allowed
        /\ kind[r] = "chat" /\ reply[r] \notin {"none", "refused", "http_500"} =>
               ScreenedBody(r).hits \subseteq audit[r]

(* The cost table keeps the promise of BudgetedLedger. *)
Ledger == INSTANCE BudgetedLedger WITH
              admitted  <- {r \in Requests : checked[r] # NotYet},
              unmetered <- {r \in Requests : sent[r] # {}},
              settled   <- {r \in Requests : charged[r] > 0}

KeepsLedger == Ledger!LedgerSpec

(* cost/tracker.py:3-4: every provider call should produce exactly one     *)
(* CostEntry.  An answered request is charged for its answers.             *)
EveryAnswerCharged ==
    \A r \in Requests :
        pc[r] = "done" /\ reply[r] # "http_500" => charged[r] = answered[r]

(* governance/pii.py:1-2: redaction runs before any provider sees the      *)
(* request.  What is sent is what screening handed on.                     *)
RedactedFirst ==
    \A r \in Requests :
        \A messages \in sent[r] : LastUserMessage(messages) = ScreenedBody(r).text

=============================================================================
