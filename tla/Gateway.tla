------------------------------- MODULE Gateway -------------------------------
(***************************************************************************)
(* All endpoints of api/ as one process serves them: who waits for which   *)
(* of the pooled database connections, and what the reading endpoints      *)
(* return of the runs others commit meanwhile.                             *)
(*                                                                         *)
(* A request has one session (get_session, which FastAPI calls once per    *)
(* request, for get_current_principal and the handler alike).  The session *)
(* takes a connection at its first statement and gives it back when it     *)
(* commits or is closed; a statement after a commit takes one again.  An   *)
(* agent run and a chat keep theirs while their provider calls last.       *)
(***************************************************************************)
EXTENDS Integers, FiniteSets

CONSTANTS
    Requests,    \* a request that runs an agent also names the run
    Tenants,
    Configured,  \* tenants of policies/tenants.yaml
    Workloads,   \* what the clients may ask together
    Capacity,    \* pool_size + max_overflow of the engine
    Limit        \* of GET /v1/agents/runs (for Postgres a negative one is an error)

Roles == {"viewer", "developer", "admin"}

Ops == {"chat", "run", "list", "detail", "report", "rotate", "administer"}

(* The principal of the key, the endpoint, and the run a detail, or the    *)
(* tenant a report, is asked of.                                           *)
Call == [tenant : Tenants, role : Roles, op : Ops, run : Requests, about : Tenants]

ASSUME GatewayAssumption ==
    /\ IsFiniteSet(Requests)
    /\ Configured \subseteq Tenants
    /\ Workloads \subseteq [Requests -> Call]
    /\ Capacity \in Nat \ {0}
    /\ Limit \in Nat

VARIABLES
    pc,        \* where a request is
    call,      \* what it asks
    held,      \* connections its session has
    created,   \* AgentRun.created_at of its run
    clock,     \* of created_at
    runs,      \* the committed agent_runs
    charged,   \* requests with committed cost_entries
    found,     \* the runs its response lists or shows, or the charges it sums up
    status,    \* of its response
    (* Not state of the code: *)
    answered,  \* chats and runs whose client has had the answer
    before     \* answered, as it was when the request came

vars == <<pc, call, held, created, clock, runs, charged, found, status, answered, before>>

(* At a place of Waiting a request needs a connection for its next         *)
(* statement, at one of Holding it has one.                                *)
Waiting == {"connecting", "reconnecting"}
Holding == {"authenticated", "working", "read"}
Status == {"none", "ok", "http_401", "http_403", "http_404", "http_400", "http_429", "http_5xx"}

TypeOK ==
    /\ pc \in [Requests -> {"idle", "committed", "done"} \cup Waiting \cup Holding]
    /\ call \in [Requests -> Call]
    /\ held \in [Requests -> Nat]
    /\ created \in [Requests -> Nat]
    /\ clock \in Nat
    /\ runs \subseteq Requests
    /\ charged \subseteq Requests
    /\ found \in [Requests -> SUBSET Requests]
    /\ status \in [Requests -> Status]
    /\ answered \subseteq Requests
    /\ before \in [Requests -> SUBSET Requests]

Init ==
    /\ pc = [r \in Requests |-> "idle"]
    /\ call \in Workloads
    /\ held = [r \in Requests |-> 0]
    /\ created = [r \in Requests |-> 0]
    /\ clock = 0
    /\ runs = {}
    /\ charged = {}
    /\ found = [r \in Requests |-> {}]
    /\ status = [r \in Requests |-> "none"]
    /\ answered = {}
    /\ before = [r \in Requests |-> {}]

-----------------------------------------------------------------------------
(* The pool and the session.                                               *)

Holders == {r \in Requests : held[r] > 0}

PoolFull == Cardinality(Holders) >= Capacity

(* Mutant: the pool does not count what it lends. *)
TakeAnother(r) == held' = [held EXCEPT ![r] = @ + 1]

(* A statement of a session that has no connection. *)
TakeConnection(r) ==
    /\ ~PoolFull
    /\ held' = [held EXCEPT ![r] = 1]

(* Mutant: the commit of a rotation leaves the session its connection. *)
KeepConnection(r) ==
    held' = [held EXCEPT ![r] = IF pc'[r] = "reconnecting" THEN @ ELSE 0]

(* Mutant: the end of the session returns the connection of a commit again. *)
GiveBackAgain(r) == held' = [held EXCEPT ![r] = @ - 1]

(* commit() or the end of the session. *)
GiveBack(r) == held' = [held EXCEPT ![r] = 0]

Leave(r, answer) ==
    /\ pc' = [pc EXCEPT ![r] = "done"]
    /\ status' = [status EXCEPT ![r] = answer]
    /\ GiveBack(r)
    /\ UNCHANGED <<call, created, clock, runs, charged, found, answered, before>>

-----------------------------------------------------------------------------
(* All endpoints.                                                          *)

Arrive(r) ==
    /\ pc[r] = "idle"
    /\ pc' = [pc EXCEPT ![r] = "connecting"]
    /\ before' = [before EXCEPT ![r] = answered]
    /\ UNCHANGED <<call, held, created, clock, runs, charged, found, status, answered>>

(* get_current_principal: a missing or malformed header, before any statement. *)
RefuseHeader(r) == pc[r] = "idle" /\ Leave(r, "http_401")

(* get_current_principal: the statement that looks the key up. *)
Authenticate(r) ==
    /\ pc[r] = "connecting"
    /\ TakeConnection(r)
    /\ pc' = [pc EXCEPT ![r] = "authenticated"]
    /\ UNCHANGED <<call, created, clock, runs, charged, found, status, answered, before>>

(* The pool has none left and none comes back in time: TimeoutError. *)
PoolTimeout(r) == pc[r] \in Waiting /\ PoolFull /\ Leave(r, "http_5xx")

RefuseKey(r) == pc[r] = "authenticated" /\ Leave(r, "http_401")

(* require_role of each endpoint, by ROLE_RANK. *)
Entitled(r) ==
    CASE call[r].op \in {"list", "detail", "report"} -> TRUE
      [] call[r].op \in {"chat", "run"}              -> call[r].role \in {"developer", "admin"}
      [] OTHER                                       -> call[r].role = "admin"

RefuseRole(r) == pc[r] = "authenticated" /\ ~Entitled(r) /\ Leave(r, "http_403")

Enters(r, ops) == pc[r] = "authenticated" /\ call[r].op \in ops /\ Entitled(r)

(* An exception nobody catches, or a client that goes away. *)
Lose(r) == pc[r] \notin {"idle", "done"} /\ Leave(r, "http_5xx")

Answers(r) ==
    /\ pc' = [pc EXCEPT ![r] = "done"]
    /\ status' = [status EXCEPT ![r] = "ok"]
    /\ answered' = IF call[r].op \in {"chat", "run"} THEN answered \cup {r} ELSE answered
    /\ GiveBack(r)
    /\ UNCHANGED <<call, created, clock, runs, charged, found, before>>

(* Mutant: the client is answered without the commit. *)
RespondEarly(r) == pc[r] \in {"working", "committed", "read"} /\ Answers(r)

(* The response is sent and the session closed. *)
Respond(r) == pc[r] \in {"committed", "read"} /\ Answers(r)

-----------------------------------------------------------------------------
(* Chats and runs.                                                         *)

(* A tenant that policies/tenants.yaml does not have: no run. *)
RefuseTenant(r) ==
    Enters(r, {"run"}) /\ call[r].tenant \notin Configured /\ Leave(r, "http_404")

MayWork(r) ==
    /\ Enters(r, {"chat", "run"})
    /\ call[r].op = "run" => call[r].tenant \in Configured

(* The budget stops a run, the guardrails a chat: the audit rows are       *)
(* committed, and nothing else.                                            *)
RefuseWork(r) ==
    /\ MayWork(r)
    /\ Leave(r, IF call[r].op = "run" THEN "http_429" ELSE "http_400")

(* TraceStore.start_run, or a chat that passed its guardrails: the         *)
(* connection is kept for the provider calls that follow.                  *)
StartWork(r) ==
    /\ MayWork(r)
    /\ pc' = [pc EXCEPT ![r] = "working"]
    /\ clock' = clock + 1
    /\ created' = [created EXCEPT ![r] = clock']
    /\ UNCHANGED <<call, held, runs, charged, found, status, answered, before>>

(* No provider answers a chat, or its answer is blocked. *)
FailChat(r) == pc[r] = "working" /\ call[r].op = "chat" /\ Leave(r, "http_5xx")

(* The commit of a chat with its charge, or of a run whatever came of it,  *)
(* with the charges of the answers it had.                                 *)
CommitWork(r) ==
    /\ pc[r] = "working"
    /\ pc' = [pc EXCEPT ![r] = "committed"]
    /\ \/ charged' = charged \cup {r}
       \/ call[r].op = "run" /\ charged' = charged
    /\ runs' = IF call[r].op = "run" THEN runs \cup {r} ELSE runs
    /\ GiveBack(r)
    /\ UNCHANGED <<call, created, clock, found, status, answered, before>>

-----------------------------------------------------------------------------
(* Keys.                                                                   *)

Administer(r) ==
    /\ Enters(r, {"administer"})
    /\ pc' = [pc EXCEPT ![r] = "committed"]
    /\ GiveBack(r)
    /\ UNCHANGED <<call, created, clock, runs, charged, found, status, answered, before>>

(* rotate_api_key commits and then reads the new key again. *)
Rotate(r) ==
    /\ Enters(r, {"rotate"})
    /\ pc' = [pc EXCEPT ![r] = "reconnecting"]
    /\ GiveBack(r)
    /\ UNCHANGED <<call, created, clock, runs, charged, found, status, answered, before>>

ReadKey(r) ==
    /\ pc[r] = "reconnecting"
    /\ TakeConnection(r)
    /\ pc' = [pc EXCEPT ![r] = "read"]
    /\ UNCHANGED <<call, created, clock, runs, charged, found, status, answered, before>>

-----------------------------------------------------------------------------
(* Reads.                                                                  *)

(* Mutant: the tenant the client names, not that of its key. *)
VisibleAsked(r) ==
    {run \in Requests : call[r].role = "admin" \/ call[run].tenant = call[r].about}

(* tenant_filter: none for an admin, else the tenant of the key. *)
Visible(r) ==
    {run \in Requests : call[r].role = "admin" \/ call[run].tenant = call[r].tenant}

(* ORDER BY created_at DESC LIMIT limit *)
Newest(some, all) ==
    /\ some \subseteq all
    /\ Cardinality(some) <= Limit
    /\ some = all \/ Cardinality(some) = Limit
    /\ \A run \in some, other \in all \ some : created[run] > created[other]

Returns(r, set) ==
    /\ pc' = [pc EXCEPT ![r] = "read"]
    /\ found' = [found EXCEPT ![r] = set]
    /\ UNCHANGED <<call, held, created, clock, runs, charged, status, answered, before>>

ListRuns(r) ==
    /\ Enters(r, {"list"})
    /\ \E some \in SUBSET Requests :
         Newest(some, runs \cap Visible(r)) /\ Returns(r, some)

GetRun(r) ==
    /\ Enters(r, {"detail"})
    /\ call[r].run \in runs \cap Visible(r)
    /\ Returns(r, {call[r].run})

RunNotFound(r) ==
    /\ Enters(r, {"detail"})
    /\ call[r].run \notin runs \cap Visible(r)
    /\ Leave(r, "http_404")

ForeignReport(r) == call[r].role # "admin" /\ call[r].about # call[r].tenant

RefuseReport(r) == Enters(r, {"report"}) /\ ForeignReport(r) /\ Leave(r, "http_403")

NoSuchTenant(r) ==
    /\ Enters(r, {"report"})
    /\ ~ForeignReport(r) /\ call[r].about \notin Configured
    /\ Leave(r, "http_404")

(* month_to_date_usd sums up the charges of one tenant. *)
GetReport(r) ==
    /\ Enters(r, {"report"})
    /\ ~ForeignReport(r) /\ call[r].about \in Configured
    /\ Returns(r, {q \in charged : call[q].tenant = call[r].about})

-----------------------------------------------------------------------------
(* The process dies and is started again: its sessions and its pool are    *)
(* gone, what was committed is not.                                        *)
Restart ==
    /\ \E r \in Requests : pc[r] \notin {"idle", "done"}
    /\ pc' = [r \in Requests |-> IF pc[r] = "idle" THEN "idle" ELSE "done"]
    /\ status' = [r \in Requests |-> IF pc[r] \in {"idle", "done"} THEN status[r] ELSE "http_5xx"]
    /\ held' = [r \in Requests |-> 0]
    /\ UNCHANGED <<call, created, clock, runs, charged, found, answered, before>>

AllDone == (\A r \in Requests : pc[r] = "done") /\ UNCHANGED vars

(* What a request does once it came, its wait for a connection never       *)
(* timing out.                                                             *)
Serve(r) ==
    \/ Authenticate(r)
    \/ RefuseKey(r)
    \/ RefuseRole(r)
    \/ RefuseTenant(r)
    \/ RefuseWork(r)
    \/ StartWork(r)
    \/ FailChat(r)
    \/ CommitWork(r)
    \/ Administer(r)
    \/ Rotate(r)
    \/ ReadKey(r)
    \/ ListRuns(r)
    \/ GetRun(r)
    \/ RunNotFound(r)
    \/ RefuseReport(r)
    \/ NoSuchTenant(r)
    \/ GetReport(r)
    \/ Respond(r)

Next ==
    \/ \E r \in Requests :
          Arrive(r) \/ RefuseHeader(r) \/ Serve(r) \/ PoolTimeout(r) \/ Lose(r)
    \/ Restart
    \/ AllDone

Spec == Init /\ [][Next]_vars

(* A provider call ends (its client has a timeout), a run has a last step, *)
(* and the pool gives a connection that comes back to the request that has *)
(* waited longest, so that no waiting request is passed over for ever.     *)
(* Nothing has to come, to time out, to be lost or to restart.             *)
FairSpec == Spec /\ \A r \in Requests : SF_vars(Serve(r))

-----------------------------------------------------------------------------
(* A request has one connection exactly while it is past a statement and   *)
(* before its commit, so a request that waits for one keeps none from the  *)
(* others, and the pool never lends more than it has: whatever refuses,    *)
(* fails, is lost or restarts on the way.                                  *)
PoolBalanced ==
    /\ \A r \in Requests : held[r] = IF pc[r] \in Holding THEN 1 ELSE 0
    /\ Cardinality(Holders) <= Capacity

(* ADR-0005 and the commit before the response.  A list, a detail or a     *)
(* report has nothing that is not committed or not the caller's to see,    *)
(* and it has all whose clients were answered before it was asked: a list  *)
(* leaves one out only for Limit runs that started later.                  *)
MaySee(r, q) == call[r].role = "admin" \/ call[q].tenant = call[r].tenant

ListRight(r) ==
    /\ found[r] \subseteq runs
    /\ \A q \in found[r] : MaySee(r, q)
    /\ Cardinality(found[r]) <= Limit
    /\ \A q \in before[r] \ found[r] : call[q].op = "run" /\ MaySee(r, q) =>
          /\ Cardinality(found[r]) = Limit
          /\ \A other \in found[r] : created[other] > created[q]

ReportRight(r) ==
    /\ found[r] \subseteq charged
    /\ \A q \in found[r] : MaySee(r, q) /\ call[q].tenant = call[r].about
    /\ \A q \in before[r] \cap charged : call[q].tenant = call[r].about => q \in found[r]

ReadRight(r) ==
    /\ pc[r] = "read" /\ call[r].op = "list" => ListRight(r)
    /\ pc[r] = "read" /\ call[r].op = "report" => ReportRight(r)
    /\ pc[r] = "read" /\ call[r].op = "detail" =>
          call[r].run \in runs /\ MaySee(r, call[r].run)
    /\ status[r] = "http_404" /\ call[r].op = "detail" =>
          ~(call[r].run \in before[r] /\ call[call[r].run].op = "run" /\ MaySee(r, call[r].run))

ReadsRight == \A r \in Requests : ReadRight(r)

(* Every request that came is answered without a timeout of the pool: no   *)
(* request waits for a connection while it keeps one, so those that have   *)
(* one always finish.                                                      *)
EveryRequestEnds == \A r \in Requests : pc[r] # "idle" ~> pc[r] = "done"

=============================================================================
