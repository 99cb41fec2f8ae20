------------------------ MODULE TenantRequestsProofs ------------------------
(***************************************************************************)
(* Theorems about TenantRequests, for every budget, price list, guardrail  *)
(* policy and number of concurrent requests.                               *)
(***************************************************************************)
EXTENDS TenantRequests, FoldingProofs

LEMMA MonthFacts == Months \subseteq Nat /\ 0 \in Months /\ NotYet \notin Months
BY TenantAssumption DEF Months, NotYet

LEMMA ScreenedHits ==
    ASSUME NEW text, NEW policy
    PROVE  /\ ScreenRequest(text, policy).hits \subseteq Rule
           /\ ScreenResponse(text, policy).hits \subseteq Rule
<1>1. \A found, action : \A rule \in Rule : Fires(found, action, rule) \subseteq Rule
  BY DEF Fires
<1>2. {"prompt_injection", "pii", "secret_leak", "max_input_chars"} \subseteq Rule
  BY DEF Rule
<1> DEFINE injection == Fires(text.injection, policy.injection, "prompt_injection")
           pii == Fires(text.pii, policy.pii, "pii")
<1>3. injection \subseteq Rule /\ pii \subseteq Rule
  BY <1>1, <1>2
<1>4. ScreenRequest(text, policy).hits
        \in {{"max_input_chars"}, injection, injection \cup pii}
  BY DEF ScreenRequest
<1>5. ScreenResponse(text, policy).hits = Fires(text.secret, policy.secret, "secret_leak")
  BY DEF ScreenResponse
<1> HIDE DEF injection, pii
<1> QED BY <1>1, <1>2, <1>3, <1>4, <1>5

LEMMA StatusFacts ==
    ASSUME NEW usd \in Nat
    PROVE  /\ Status(usd) \in BudgetStatus
           /\ Status(usd) = "hard_stop" <=> Budget > 0 /\ usd >= Budget
BY TenantAssumption DEF Status, BudgetStatus

-----------------------------------------------------------------------------
(* Types.                                                                  *)

LEMMA CommitTypes ==
    ASSUME TypeOK, NEW r \in Requests, NEW cost \in Nat, NEW entries \in SUBSET Entry,
           NEW answer \in Reply, Commit(r, cost, entries, answer)
    PROVE  /\ spent' \in [Months -> Nat] /\ charged' \in [Requests -> Nat]
           /\ audit' \in [Requests -> SUBSET Entry]
           /\ own' \in [Requests -> Nat] /\ noted' \in [Requests -> SUBSET Entry]
           /\ pc' \in [Requests -> {"idle", "authenticated", "calling", "running",
                                    "committed", "done"}]
           /\ reply' \in [Requests -> Reply]
           /\ inFlight' \in [Months -> SUBSET Requests]
<1>1. own[r] + cost \in Nat /\ born[r] \in Months
  BY DEF TypeOK
<1>2. spent' \in [Months -> Nat] /\ charged' \in [Requests -> Nat]
  BY <1>1 DEF TypeOK, Commit, Charge
<1>3. inFlight' \in [Months -> SUBSET Requests]
  BY <1>1 DEF TypeOK, Commit, Charge, Running
<1>4. noted[r] \cup entries \subseteq Entry
  BY DEF TypeOK
<1>5. audit' \in [Requests -> SUBSET Entry] /\ noted' \in [Requests -> SUBSET Entry]
  BY <1>4 DEF TypeOK, Commit
<1>6. /\ own' \in [Requests -> Nat] /\ reply' \in [Requests -> Reply]
      /\ pc' \in [Requests -> {"idle", "authenticated", "calling", "running",
                               "committed", "done"}]
  BY DEF TypeOK, Commit
<1> QED BY <1>2, <1>3, <1>5, <1>6

LEMMA LeaveTypes ==
    ASSUME TypeOK, NEW r \in Requests, NEW answer \in Reply, Leave(r, answer)
    PROVE  /\ spent' \in [Months -> Nat] /\ charged' \in [Requests -> Nat]
           /\ audit' \in [Requests -> SUBSET Entry]
           /\ own' \in [Requests -> Nat] /\ noted' \in [Requests -> SUBSET Entry]
           /\ pc' \in [Requests -> {"idle", "authenticated", "calling", "running",
                                    "committed", "done"}]
           /\ reply' \in [Requests -> Reply]
           /\ inFlight' \in [Months -> SUBSET Requests]
BY DEF TypeOK, Leave, tables

LEMMA EntryFacts ==
    /\ Rule \subseteq Entry /\ "agent_run" \in Entry /\ "budget_hard_stop" \in Entry
    /\ {"success", "refused", "http_400", "http_429", "http_502", "blocked_502",
        "http_500"} \cup BudgetStatus \subseteq Reply
BY DEF Entry, Reply

LEMMA HandleTypes ==
    ASSUME TypeOK, NEW r \in Requests, Handle(r)
    PROVE  TypeOK'
<1> USE EntryFacts
<1>1. CASE Authenticate(r)
  <2>1. PICK k \in Kind \ {"none"} :
          /\ kind' = [kind EXCEPT ![r] = k]
          /\ \E messages \in (IF k = "chat" THEN Bodies ELSE {<<>>}) :
                 body' = [body EXCEPT ![r] = messages]
    BY <1>1 DEF Authenticate
  <2>2. PICK messages \in (IF k = "chat" THEN Bodies ELSE {<<>>}) :
          body' = [body EXCEPT ![r] = messages]
    BY <2>1
  <2>3. messages \in Seq(ChatMessage)
    <3>1. CASE k = "chat"
      BY <2>2, <3>1, TenantAssumption
    <3>2. CASE k # "chat"
      <4>1. messages = <<>>
        BY <2>2, <3>2
      <4> QED BY <4>1
    <3> QED BY <3>1, <3>2
  <2>4. body' \in [Requests -> Seq(ChatMessage)]
    BY <2>2, <2>3 DEF TypeOK
  <2>5. kind' \in [Requests -> Kind]
    BY <2>1 DEF TypeOK
  <2>6. born' \in [Requests -> Months]
    BY <1>1 DEF Authenticate, TypeOK
  <2>7. pc' \in [Requests -> {"idle", "authenticated", "calling", "running",
                            "committed", "done"}]
    BY <1>1 DEF Authenticate, TypeOK
  <2>8. UNCHANGED <<month, tables, own, noted, calls, reply, answered, sent, checked,
                    stopped, inFlight>>
    BY <1>1 DEF Authenticate
  <2> QED BY <2>4, <2>5, <2>6, <2>7, <2>8 DEF TypeOK, tables
<1>2. CASE Refuse(r)
  BY <1>2, LeaveTypes DEF Refuse, TypeOK
<1>3. CASE HardStop(r)
  <2>1. Commit(r, 0, {"budget_hard_stop"}, "http_429")
    BY <1>3 DEF HardStop
  <2>2. {"budget_hard_stop"} \in SUBSET Entry /\ "http_429" \in Reply /\ 0 \in Nat
    OBVIOUS
  <2> HIDE DEF Commit
  <2>3. stopped' \in SUBSET Months
    BY <1>3 DEF HardStop, TypeOK
  <2> QED BY <1>3, <2>1, <2>2, <2>3, CommitTypes DEF HardStop, TypeOK
<1>4. CASE StartRun(r)
  BY <1>4 DEF StartRun, TypeOK, tables
<1>5. CASE RunAnswered(r)
  <2>1. PICK cost \in Costs : own' = [own EXCEPT ![r] = @ + cost]
                              /\ answered' = [answered EXCEPT ![r] = @ + cost]
    BY <1>5 DEF RunAnswered
  <2>2. cost \in Nat
    BY TenantAssumption
  <2>3. own' \in [Requests -> Nat] /\ answered' \in [Requests -> Nat]
    BY <2>1, <2>2 DEF TypeOK
  <2>4. calls' \in [Requests -> 0..MaxAnswers]
    BY <1>5, TenantAssumption DEF RunAnswered, TypeOK
  <2> QED BY <1>5, <2>3, <2>4 DEF RunAnswered, TypeOK, tables
<1>6. CASE RunEnds(r)
  <2>1. {"agent_run"} \in SUBSET Entry /\ "success" \in Reply /\ 0 \in Nat
    OBVIOUS
  <2> QED BY <1>6, <2>1, CommitTypes DEF RunEnds, TypeOK
<1>7. CASE Report(r)
  <2>1. spent[month] \in Nat
    BY DEF TypeOK
  <2>2. Status(MonthToDate(r)) \in Reply
    BY <2>1, StatusFacts DEF MonthToDate
  <2>3. stopped' \in SUBSET Months
    BY <1>7 DEF Report, TypeOK
  <2> QED BY <1>7, <2>2, <2>3, LeaveTypes DEF Report, TypeOK
<1>8. CASE SendChat(r)
  <2>1. noted' = [noted EXCEPT ![r] = @ \cup ScreenedBody(r).hits]
    BY <1>8 DEF SendChat, ScreenedBody
  <2>2. ScreenedBody(r).hits \subseteq Entry
    BY ScreenedHits DEF ScreenedBody
  <2>3. noted' \in [Requests -> SUBSET Entry]
    BY <2>1, <2>2 DEF TypeOK
  <2>4. sent' \in [Requests -> SUBSET Seq(ChatMessage)]
    BY <1>8 DEF SendChat, TypeOK
  <2> QED BY <1>8, <2>3, <2>4 DEF SendChat, TypeOK, tables
<1>9. CASE BlockChat(r)
  <2>1. Commit(r, 0, ScreenedBody(r).hits, "http_400")
    BY <1>9 DEF BlockChat, ScreenedBody
  <2>2. ScreenedBody(r).hits \in SUBSET Entry /\ "http_400" \in Reply /\ 0 \in Nat
    BY ScreenedHits DEF ScreenedBody
  <2> QED BY <1>9, <2>1, <2>2, CommitTypes DEF BlockChat, TypeOK
<1>10. CASE ChatFails(r)
  <2>1. {} \in SUBSET Entry /\ "http_502" \in Reply /\ 0 \in Nat
    OBVIOUS
  <2> QED BY <1>10, <2>1, CommitTypes DEF ChatFails, TypeOK
<1>11. CASE ChatAnswered(r)
  <2>1. PICK cost \in Costs, text \in Answers :
          /\ answered' = [answered EXCEPT ![r] = @ + cost]
          /\ \/ Commit(r, cost, ScreenResponse(text, Policy).hits, "success")
             \/ Commit(r, 0, ScreenResponse(text, Policy).hits, "blocked_502")
    BY <1>11 DEF ChatAnswered
  <2>2. cost \in Nat /\ 0 \in Nat /\ "success" \in Reply /\ "blocked_502" \in Reply
    BY TenantAssumption
  <2>3. ScreenResponse(text, Policy).hits \in SUBSET Entry
    BY ScreenedHits
  <2>4. answered' \in [Requests -> Nat]
    BY <2>1, <2>2 DEF TypeOK
  <2> QED BY <1>11, <2>1, <2>2, <2>3, <2>4, CommitTypes DEF ChatAnswered, TypeOK
<1>12. CASE Respond(r)
  BY <1>12 DEF Respond, TypeOK, tables
<1>13. CASE Lose(r)
  BY <1>13, LeaveTypes DEF Lose, TypeOK
<1> QED
  BY <1>1, <1>2, <1>3, <1>4, <1>5, <1>6, <1>7, <1>8, <1>9, <1>10, <1>11, <1>12, <1>13
  DEF Handle

LEMMA NextTypes == ASSUME TypeOK, [Next]_vars PROVE TypeOK'
<1>1. CASE NewMonth
  <2>1. month' \in Months
    BY <1>1, TenantAssumption DEF NewMonth, TypeOK, Months
  <2> QED BY <1>1, <2>1 DEF NewMonth, TypeOK, tables
<1>2. CASE UNCHANGED vars
  BY <1>2 DEF vars, tables, TypeOK
<1> QED BY <1>1, <1>2, HandleTypes DEF Next, Done

(* Every value of the model has the type the tables and handlers give it:  *)
(* in particular no sum of cost_entries is ever negative.                  *)
THEOREM TypeCorrect == Spec => []TypeOK
<1>1. Init => TypeOK
  BY MonthFacts, TenantAssumption DEF Init, TypeOK, Kind, Reply
<1> QED BY <1>1, NextTypes, PTL DEF Spec

-----------------------------------------------------------------------------
(* Where a request is says what it has done.                               *)

(* Nothing yet. *)
Fresh(r) ==
    /\ charged[r] = 0 /\ answered[r] = 0 /\ own[r] = 0
    /\ noted[r] = {} /\ sent[r] = {} /\ checked[r] = NotYet /\ reply[r] = "none"

(* What its answer says about its rows. *)
Told(r) ==
    /\ own[r] = 0
    /\ reply[r] = "success" => charged[r] = answered[r]
    /\ reply[r] \in {"http_400", "http_429", "http_502", "blocked_502"} => charged[r] = 0
    /\ reply[r] = "http_429" => "budget_hard_stop" \in audit[r]
    /\ reply[r] = "blocked_502" => "secret_leak" \in audit[r]
    /\ kind[r] = "chat" /\ reply[r] \notin {"none", "refused", "http_500"} =>
           ScreenedBody(r).hits \subseteq audit[r]

Phase(r) ==
    /\ pc[r] \in {"idle", "authenticated"} => Fresh(r)
    /\ pc[r] = "running" =>
           /\ kind[r] = "run" /\ checked[r] # NotYet /\ reply[r] = "none"
           /\ own[r] = answered[r] /\ charged[r] = 0 /\ sent[r] = {}
    /\ pc[r] = "calling" =>
           /\ kind[r] = "chat" /\ reply[r] = "none" /\ sent[r] # {}
           /\ own[r] = 0 /\ answered[r] = 0 /\ charged[r] = 0
           /\ noted[r] = ScreenedBody(r).hits
    /\ pc[r] \in {"committed", "done"} => Told(r)
    /\ sent[r] # {} => ScreenedBody(r).allowed
    /\ charged[r] \in {0, answered[r]}
    /\ born[r] <= month

PhaseInv == \A r \in Requests : Phase(r)

(* A step of one request leaves the others where they are. *)
LEMMA OthersUntouched ==
    ASSUME TypeOK, NEW r \in Requests, Handle(r), NEW s \in Requests, s # r
    PROVE  /\ pc'[s] = pc[s] /\ kind'[s] = kind[s] /\ born'[s] = born[s]
           /\ body'[s] = body[s] /\ own'[s] = own[s] /\ noted'[s] = noted[s]
           /\ reply'[s] = reply[s] /\ answered'[s] = answered[s] /\ sent'[s] = sent[s]
           /\ checked'[s] = checked[s] /\ charged'[s] = charged[s] /\ audit'[s] = audit[s]
           /\ month' = month
<1>1. CASE Authenticate(r)
  BY <1>1 DEF Authenticate, TypeOK, tables
<1>2. CASE Refuse(r) \/ Lose(r) \/ Report(r)
  BY <1>2 DEF Refuse, Lose, Report, Leave, TypeOK, tables
<1>3. CASE HardStop(r) \/ RunEnds(r)
  BY <1>3 DEF HardStop, RunEnds, Commit, Charge, TypeOK
<1>4. CASE StartRun(r) \/ RunAnswered(r) \/ Respond(r)
  BY <1>4 DEF StartRun, RunAnswered, Respond, TypeOK, tables
<1>5. CASE SendChat(r)
  BY <1>5 DEF SendChat, TypeOK, tables
<1>6. CASE BlockChat(r) \/ ChatFails(r)
  BY <1>6 DEF BlockChat, ChatFails, Commit, Charge, TypeOK
<1>7. CASE ChatAnswered(r)
  BY <1>7 DEF ChatAnswered, Commit, Charge, TypeOK
<1> QED BY <1>1, <1>2, <1>3, <1>4, <1>5, <1>6, <1>7 DEF Handle

(* What a commit leaves of the request itself. *)
LEMMA CommitFields ==
    ASSUME TypeOK, NEW r \in Requests, NEW cost, NEW entries, NEW answer,
           Commit(r, cost, entries, answer)
    PROVE  /\ charged'[r] = charged[r] + (own[r] + cost)
           /\ audit'[r] = audit[r] \cup noted[r] \cup entries
           /\ own'[r] = 0 /\ pc'[r] = "committed" /\ reply'[r] = answer
           /\ spent' = [spent EXCEPT ![born[r]] = @ + (own[r] + cost)]
BY DEF Commit, Charge, TypeOK

LEMMA LeaveFields ==
    ASSUME TypeOK, NEW r \in Requests, NEW answer, Leave(r, answer)
    PROVE  /\ charged' = charged /\ audit' = audit /\ spent' = spent /\ inFlight' = inFlight
           /\ own'[r] = 0 /\ pc'[r] = "done" /\ reply'[r] = answer
BY DEF Leave, TypeOK, tables

LEMMA HandlePhase ==
    ASSUME TypeOK, PhaseInv, NEW r \in Requests, Handle(r)
    PROVE  Phase(r)'
<1> DEFINE screened == ScreenedBody(r)
<1>0. /\ Phase(r) /\ own[r] \in Nat /\ charged[r] \in Nat /\ answered[r] \in Nat
      /\ month \in Nat /\ born[r] \in Nat
  BY MonthFacts DEF PhaseInv, TypeOK
<1>1. CASE Authenticate(r)
  <2>1. Fresh(r)' /\ pc'[r] = "authenticated" /\ born'[r] = month /\ month' = month
    BY <1>0, <1>1 DEF Authenticate, TypeOK, tables, Phase, Fresh
  <2> QED BY <1>0, <2>1 DEF Phase, Fresh
<1>2. ASSUME body' = body PROVE ScreenedBody(r)' = screened
  BY <1>2 DEF ScreenedBody
<1>3. CASE Refuse(r)
  <2>1. /\ Leave(r, "refused") /\ Fresh(r)
        /\ UNCHANGED <<month, kind, born, body, answered, sent, checked>>
    BY <1>0, <1>3 DEF Refuse, Phase
  <2>2. Told(r)'
    BY <2>1, LeaveFields DEF Told, Fresh
  <2> QED BY <1>0, <2>1, <2>2, LeaveFields DEF Phase, Fresh
<1>4. CASE HardStop(r)
  <2>1. /\ Commit(r, 0, {"budget_hard_stop"}, "http_429") /\ Fresh(r) /\ kind[r] = "run"
        /\ UNCHANGED <<month, kind, born, body, answered, sent, checked>>
    BY <1>0, <1>4 DEF HardStop, Asks, Phase
  <2>2. charged'[r] = 0 /\ "budget_hard_stop" \in audit'[r]
    BY <2>1, CommitFields DEF Fresh
  <2>3. Told(r)'
    BY <2>1, <2>2, CommitFields DEF Told
  <2> QED BY <1>0, <2>1, <2>2, <2>3, CommitFields DEF Phase, Fresh
<1>5. CASE StartRun(r)
  <2>1. /\ pc'[r] = "running" /\ checked'[r] # NotYet /\ Fresh(r) /\ kind[r] = "run"
        /\ UNCHANGED <<month, tables, kind, born, body, own, reply, answered, sent>>
    BY <1>0, <1>5, MonthFacts DEF StartRun, Asks, Phase, TypeOK
  <2> QED BY <1>0, <2>1 DEF Phase, Fresh, tables
<1>6. CASE RunAnswered(r)
  <2>1. PICK cost \in Costs : own' = [own EXCEPT ![r] = @ + cost]
                              /\ answered' = [answered EXCEPT ![r] = @ + cost]
    BY <1>6 DEF RunAnswered
  <2>2. own'[r] = own[r] + cost /\ answered'[r] = answered[r] + cost
    BY <2>1 DEF TypeOK
  <2>3. pc[r] = "running" /\ UNCHANGED <<month, tables, pc, kind, born, body, reply, sent, checked>>
    BY <1>6 DEF RunAnswered
  <2> QED BY <1>0, <2>2, <2>3 DEF Phase, tables
<1>7. CASE RunEnds(r)
  <2>1. /\ Commit(r, 0, {"agent_run"}, "success") /\ pc[r] = "running"
        /\ UNCHANGED <<month, kind, born, body, answered, sent, checked>>
    BY <1>7 DEF RunEnds
  <2>2. charged'[r] = answered[r] /\ kind[r] = "run" /\ sent[r] = {}
    BY <1>0, <2>1, CommitFields DEF Phase
  <2>3. Told(r)'
    BY <2>1, <2>2, CommitFields DEF Told
  <2> QED BY <1>0, <2>1, <2>2, <2>3, CommitFields DEF Phase
<1>8. CASE Report(r)
  <2>1. /\ Leave(r, Status(MonthToDate(r))) /\ Fresh(r) /\ kind[r] = "report"
        /\ UNCHANGED <<month, kind, born, body, answered, sent, checked>>
    BY <1>0, <1>8 DEF Report, Asks, Phase
  <2>2. Status(MonthToDate(r)) \in BudgetStatus
    BY StatusFacts DEF MonthToDate, TypeOK
  <2>3. Told(r)'
    BY <2>1, <2>2, LeaveFields DEF Told, Fresh, BudgetStatus
  <2> QED BY <1>0, <2>1, <2>3, LeaveFields DEF Phase, Fresh
<1>9. CASE SendChat(r)
  <2>1. /\ pc'[r] = "calling" /\ Fresh(r) /\ kind[r] = "chat" /\ sent'[r] # {}
        /\ screened.allowed /\ noted'[r] = screened.hits
        /\ UNCHANGED <<month, tables, kind, born, body, own, reply, answered, checked>>
    BY <1>0, <1>9 DEF SendChat, Asks, Phase, TypeOK, Fresh, ScreenedBody
  <2>2. ScreenedBody(r)' = screened
    BY <1>2, <2>1
  <2> QED BY <1>0, <2>1, <2>2 DEF Phase, Fresh, tables
<1>10. CASE BlockChat(r)
  <2>1. /\ Commit(r, 0, screened.hits, "http_400") /\ Fresh(r)
        /\ UNCHANGED <<month, kind, born, body, answered, sent, checked>>
    BY <1>0, <1>10 DEF BlockChat, Asks, Phase, ScreenedBody
  <2>2. charged'[r] = 0 /\ screened.hits \subseteq audit'[r] /\ ScreenedBody(r)' = screened
    BY <1>2, <2>1, CommitFields DEF Fresh
  <2>3. Told(r)'
    BY <2>1, <2>2, CommitFields DEF Told
  <2> QED BY <1>0, <2>1, <2>2, <2>3, CommitFields DEF Phase, Fresh
<1>11. CASE ChatFails(r)
  <2>1. /\ Commit(r, 0, {}, "http_502") /\ pc[r] = "calling"
        /\ UNCHANGED <<month, kind, born, body, answered, sent, checked>>
    BY <1>11 DEF ChatFails
  <2>2. charged'[r] = 0 /\ screened.hits \subseteq audit'[r] /\ ScreenedBody(r)' = screened
    BY <1>0, <1>2, <2>1, CommitFields DEF Phase
  <2>3. Told(r)'
    BY <2>1, <2>2, CommitFields DEF Told
  <2> QED BY <1>0, <2>1, <2>2, <2>3, CommitFields DEF Phase
<1>12. CASE ChatAnswered(r)
  <2>1. PICK cost \in Costs, text \in Answers :
          /\ answered' = [answered EXCEPT ![r] = @ + cost]
          /\ LET post == ScreenResponse(text, Policy)
             IN  IF post.allowed
                 THEN Commit(r, cost, post.hits, "success")
                 ELSE Commit(r, 0, post.hits, "blocked_502")
    BY <1>12 DEF ChatAnswered
  <2> DEFINE post == ScreenResponse(text, Policy)
  <2>2. /\ pc[r] = "calling" /\ UNCHANGED <<month, kind, born, body, sent, checked>>
        /\ answered'[r] = cost /\ cost \in Nat
    BY <1>0, <1>12, <2>1, TenantAssumption DEF ChatAnswered, Phase, TypeOK
  <2>3. ScreenedBody(r)' = screened /\ noted[r] = screened.hits /\ own[r] = 0 /\ charged[r] = 0
    BY <1>0, <1>2, <2>2 DEF Phase
  <2>4. CASE post.allowed
    <3>1. Commit(r, cost, post.hits, "success")
      BY <2>1, <2>4
    <3>2. charged'[r] = cost /\ screened.hits \subseteq audit'[r]
      BY <2>2, <2>3, <3>1, CommitFields
    <3>3. Told(r)'
      BY <2>2, <2>3, <3>1, <3>2, CommitFields DEF Told
    <3> QED BY <1>0, <2>2, <2>3, <3>1, <3>2, <3>3, CommitFields DEF Phase
  <2>5. CASE ~post.allowed
    <3>1. Commit(r, 0, post.hits, "blocked_502")
      BY <2>1, <2>5
    <3>2. "secret_leak" \in post.hits
      BY <2>5 DEF ScreenResponse, Blocks, Fires
    <3>3. /\ charged'[r] = 0 /\ screened.hits \subseteq audit'[r]
          /\ "secret_leak" \in audit'[r]
      BY <2>3, <3>1, <3>2, CommitFields
    <3>4. Told(r)'
      BY <2>2, <2>3, <3>1, <3>3, CommitFields DEF Told
    <3> QED BY <1>0, <2>2, <2>3, <3>1, <3>3, <3>4, CommitFields DEF Phase
  <2> QED BY <2>4, <2>5
<1>13. CASE Respond(r)
  <2>1. /\ pc[r] = "committed" /\ pc'[r] = "done"
        /\ UNCHANGED <<month, tables, kind, born, body, own, reply, answered, sent, checked>>
    BY <1>13 DEF Respond, TypeOK
  <2>2. ScreenedBody(r)' = screened
    BY <1>2, <2>1
  <2> QED BY <1>0, <2>1, <2>2 DEF Phase, Told, tables
<1>14. CASE Lose(r)
  <2>1. /\ Leave(r, "http_500")
        /\ UNCHANGED <<month, kind, born, body, answered, sent, checked>>
    BY <1>14 DEF Lose
  <2>2. Told(r)' /\ ScreenedBody(r)' = screened
    BY <1>2, <2>1, LeaveFields DEF Told
  <2> QED BY <1>0, <2>1, <2>2, LeaveFields DEF Phase
<1> QED
  BY <1>1, <1>3, <1>4, <1>5, <1>6, <1>7, <1>8, <1>9, <1>10, <1>11, <1>12, <1>13, <1>14
  DEF Handle

LEMMA PhaseStep == ASSUME TypeOK, PhaseInv, [Next]_vars PROVE PhaseInv'
<1>1. ASSUME NEW r \in Requests, Handle(r), NEW s \in Requests PROVE Phase(s)'
  <2>1. CASE s = r
    BY <1>1, <2>1, HandlePhase
  <2>2. CASE s # r
    <3>1. Phase(s)
      BY DEF PhaseInv
    <3> HIDE DEF Handle
    <3>2. ScreenedBody(s)' = ScreenedBody(s)
      BY <1>1, <2>2, OthersUntouched DEF ScreenedBody
    <3> QED BY <1>1, <2>2, <3>1, <3>2, OthersUntouched DEF Phase, Fresh, Told
  <2> QED BY <2>1, <2>2
<1>2. CASE NewMonth
  <2>1. ASSUME NEW s \in Requests PROVE Phase(s)'
    <3>1. Phase(s) /\ month' = month + 1 /\ month \in Nat /\ born[s] \in Nat
      BY <1>2, MonthFacts DEF PhaseInv, NewMonth, TypeOK
    <3>2. ScreenedBody(s)' = ScreenedBody(s)
      BY <1>2 DEF NewMonth, ScreenedBody
    <3> QED BY <1>2, <3>1, <3>2 DEF NewMonth, Phase, Fresh, Told, tables
  <2> QED BY <2>1 DEF PhaseInv
<1>3. CASE UNCHANGED vars
  <2>1. ASSUME NEW s \in Requests PROVE Phase(s)'
    <3>1. Phase(s)
      BY DEF PhaseInv
    <3>2. ScreenedBody(s)' = ScreenedBody(s)
      BY <1>3 DEF vars, ScreenedBody
    <3> QED BY <1>3, <3>1, <3>2 DEF vars, Phase, Fresh, Told, tables
  <2> QED BY <2>1 DEF PhaseInv
<1> QED BY <1>1, <1>2, <1>3 DEF Next, Done, PhaseInv

LEMMA PhasesHold == Spec => [](TypeOK /\ PhaseInv)
<1>1. Init => PhaseInv
  BY TenantAssumption DEF Init, PhaseInv, Phase, Fresh
<1> QED BY <1>1, TypeCorrect, PhaseStep, PTL DEF Spec

(* A request is charged for all its answers or none: see AnswersCharged.   *)
THEOREM AnswersAlwaysCharged == Spec => []AnswersCharged
<1>1. TypeOK /\ PhaseInv => AnswersCharged
  <2> SUFFICES ASSUME TypeOK, PhaseInv, NEW r \in Requests
               PROVE  /\ charged[r] \in {0, answered[r]}
                      /\ pc[r] = "done" /\ reply[r] = "success" => charged[r] = answered[r]
                      /\ reply[r] \in {"http_400", "http_429", "http_502", "blocked_502"} =>
                             charged[r] = 0
    BY DEF AnswersCharged
  <2>1. Phase(r) /\ pc[r] \in {"idle", "authenticated", "calling", "running", "committed", "done"}
    BY DEF PhaseInv, TypeOK
  <2> QED BY <2>1 DEF Phase, Told, Fresh
<1> QED BY <1>1, PhasesHold, PTL

(* What stopped a request is in the audit log, and what was blocked was    *)
(* not sent: see StopsAudited.                                             *)
THEOREM StopsAlwaysAudited == Spec => []StopsAudited
<1>1. TypeOK /\ PhaseInv => StopsAudited
  <2> SUFFICES ASSUME TypeOK, PhaseInv, NEW r \in Requests
               PROVE  /\ reply[r] = "http_429" => "budget_hard_stop" \in audit[r]
                      /\ reply[r] = "blocked_502" => "secret_leak" \in audit[r]
                      /\ sent[r] # {} => ScreenedBody(r).allowed
                      /\ kind[r] = "chat" /\ reply[r] \notin {"none", "refused", "http_500"} =>
                             ScreenedBody(r).hits \subseteq audit[r]
    BY DEF StopsAudited
  <2>1. Phase(r) /\ pc[r] \in {"idle", "authenticated", "calling", "running", "committed", "done"}
    BY DEF PhaseInv, TypeOK
  <2> QED BY <2>1 DEF Phase, Told, Fresh
<1> QED BY <1>1, PhasesHold, PTL

-----------------------------------------------------------------------------
(* The budget.                                                             *)

(* A stop is only reported in a month at its budget; a run that is going   *)
(* on in a month at its budget was going on when that was reached.         *)
StopInv == \A m \in stopped : Budget > 0 /\ spent[m] >= Budget

FlightInv ==
    \A r \in Requests :
        pc[r] = "running" /\ checked[r] = born[r] /\ Budget > 0 /\ spent[born[r]] >= Budget =>
            r \in inFlight[born[r]]

BudgetInv == StopInv /\ FlightInv

(* What a step does to the money. *)
Charges(r, usd) ==
    /\ spent' = [spent EXCEPT ![born[r]] = @ + usd]
    /\ inFlight' = IF Reached(spent'[born[r]]) /\ ~Reached(spent[born[r]])
                   THEN [inFlight EXCEPT ![born[r]] = Running]
                   ELSE inFlight
    /\ UNCHANGED <<born, checked, month>>
    /\ \A s \in Requests : pc'[s] = "running" => pc[s] = "running"
    /\ stopped' \subseteq stopped
           \cup (IF Status(spent[month]) = "hard_stop" THEN {month} ELSE {})

Admits(r) ==
    /\ Status(spent[month]) # "hard_stop"
    /\ checked' = [checked EXCEPT ![r] = month]
    /\ \A s \in Requests \ {r} : pc'[s] = "running" => pc[s] = "running"
    /\ UNCHANGED <<spent, inFlight, born, month, stopped>>

Keeps ==
    /\ UNCHANGED <<spent, inFlight, checked>>
    /\ \A s \in Requests : pc'[s] = "running" => pc[s] = "running" /\ born'[s] = born[s]
    /\ stopped' \subseteq stopped
           \cup (IF Status(spent[month]) = "hard_stop" THEN {month} ELSE {})

LEMMA CommitCharges ==
    ASSUME TypeOK, NEW r \in Requests, NEW cost \in Nat, NEW entries, NEW answer,
           Commit(r, cost, entries, answer), UNCHANGED <<born, checked, month>>,
           stopped' \subseteq stopped
               \cup (IF Status(spent[month]) = "hard_stop" THEN {month} ELSE {})
    PROVE  Charges(r, own[r] + cost)
BY DEF Commit, Charge, Charges, TypeOK

LEMMA LeaveKeeps ==
    ASSUME TypeOK, NEW r \in Requests, NEW answer, Leave(r, answer), UNCHANGED <<born, checked>>,
           stopped' \subseteq stopped
               \cup (IF Status(spent[month]) = "hard_stop" THEN {month} ELSE {})
    PROVE  Keeps
BY DEF Leave, Keeps, TypeOK, tables

LEMMA MoneyMoves ==
    ASSUME TypeOK, [Next]_vars
    PROVE  \/ \E r \in Requests, usd \in Nat : Charges(r, usd)
           \/ \E r \in Requests : Admits(r)
           \/ Keeps
<1>1. ASSUME NEW r \in Requests, Handle(r)
      PROVE  \/ \E usd \in Nat : Charges(r, usd)
             \/ Admits(r)
             \/ Keeps
  <2>0. own[r] \in Nat
    BY DEF TypeOK
  <2>1. CASE Authenticate(r)
    BY <2>1 DEF Authenticate, Keeps, TypeOK, tables
  <2>2. CASE Refuse(r) \/ Lose(r)
    BY <2>2, LeaveKeeps DEF Refuse, Lose
  <2>3. CASE Report(r)
    BY <2>3, LeaveKeeps DEF Report, MonthToDate
  <2>4. CASE HardStop(r)
    <3>1. Charges(r, own[r] + 0)
      BY <2>4, CommitCharges DEF HardStop, MonthToDate
    <3> QED BY <2>0, <3>1
  <2>5. CASE RunEnds(r)
    <3>1. Charges(r, own[r] + 0)
      BY <2>5, CommitCharges DEF RunEnds
    <3> QED BY <2>0, <3>1
  <2>6. CASE BlockChat(r)
    <3>1. Charges(r, own[r] + 0)
      BY <2>6, CommitCharges DEF BlockChat
    <3> QED BY <2>0, <3>1
  <2>7. CASE ChatFails(r)
    <3>1. Charges(r, own[r] + 0)
      BY <2>7, CommitCharges DEF ChatFails
    <3> QED BY <2>0, <3>1
  <2>8. CASE ChatAnswered(r)
    <3>1. PICK cost \in Costs, text \in Answers :
            \/ Commit(r, cost, ScreenResponse(text, Policy).hits, "success")
            \/ Commit(r, 0, ScreenResponse(text, Policy).hits, "blocked_502")
      BY <2>8 DEF ChatAnswered
    <3>2. cost \in Nat
      BY TenantAssumption
    <3>3. UNCHANGED <<born, checked, month, stopped>>
      BY <2>8 DEF ChatAnswered
    <3>4. Charges(r, own[r] + cost) \/ Charges(r, own[r] + 0)
      BY <3>1, <3>2, <3>3, CommitCharges
    <3>5. own[r] + cost \in Nat /\ own[r] + 0 \in Nat
      BY <2>0, <3>2
    <3> QED BY <3>4, <3>5
  <2>9. CASE StartRun(r)
    BY <2>9 DEF StartRun, Admits, MonthToDate, TypeOK, tables
  <2>10. CASE RunAnswered(r) \/ Respond(r)
    BY <2>10 DEF RunAnswered, Respond, Keeps, TypeOK, tables
  <2>11. CASE SendChat(r)
    BY <2>11 DEF SendChat, Keeps, TypeOK, tables
  <2> QED
    BY <1>1, <2>1, <2>2, <2>3, <2>4, <2>5, <2>6, <2>7, <2>8, <2>9, <2>10, <2>11 DEF Handle
<1>2. CASE NewMonth \/ UNCHANGED vars
  BY <1>2 DEF NewMonth, vars, Keeps, tables
<1> QED BY <1>1, <1>2 DEF Next, Done

LEMMA BudgetStep ==
    ASSUME TypeOK, BudgetInv, [Next]_vars
    PROVE  BudgetInv'
<1>0. Budget \in Int /\ spent \in [Months -> Nat] /\ month \in Months /\ stopped \subseteq Months
  BY TenantAssumption DEF TypeOK
<1>1. Status(spent[month]) = "hard_stop" => Budget > 0 /\ spent[month] >= Budget
  BY <1>0, StatusFacts
<1>2. ASSUME NEW r \in Requests, NEW usd \in Nat, Charges(r, usd) PROVE BudgetInv'
  <2>1. \A m \in Months : spent'[m] >= spent[m] /\ spent'[m] \in Nat
    BY <1>0, <1>2 DEF Charges
  <2>2. StopInv'
    BY <1>0, <1>1, <1>2, <2>1 DEF Charges, BudgetInv, StopInv
  <2>3. ASSUME NEW s \in Requests, pc'[s] = "running", checked'[s] = born'[s], Budget > 0,
               spent'[born'[s]] >= Budget
        PROVE  s \in inFlight'[born'[s]]
    <3>1. pc[s] = "running" /\ checked[s] = born[s] /\ born' = born /\ born[s] \in Months
      BY <1>2, <2>3 DEF Charges, TypeOK
    <3>2. CASE spent[born[s]] >= Budget
      <4>1. s \in inFlight[born[s]]
        BY <2>3, <3>1, <3>2 DEF BudgetInv, FlightInv
      <4>2. s \in Running
        BY <3>1 DEF Running
      <4> QED BY <1>2, <3>1, <4>1, <4>2 DEF Charges, TypeOK
    <3>3. CASE ~(spent[born[s]] >= Budget)
      <4>1. born[s] = born[r]
        BY <1>0, <1>2, <2>3, <3>1, <3>3 DEF Charges
      <4>2. inFlight' = [inFlight EXCEPT ![born[r]] = Running]
        BY <1>2, <2>3, <3>1, <3>3, <4>1 DEF Charges, Reached
      <4>3. s \in Running
        BY <3>1 DEF Running
      <4> QED BY <3>1, <4>1, <4>2, <4>3 DEF TypeOK
    <3> QED BY <3>2, <3>3
  <2>4. FlightInv'
    BY <2>3 DEF FlightInv
  <2> QED BY <2>2, <2>4 DEF BudgetInv
<1>3. ASSUME NEW r \in Requests, Admits(r) PROVE BudgetInv'
  <2>1. StopInv'
    BY <1>3 DEF Admits, BudgetInv, StopInv
  <2>2. ASSUME NEW s \in Requests, pc'[s] = "running", checked'[s] = born'[s], Budget > 0,
               spent'[born'[s]] >= Budget
        PROVE  s \in inFlight'[born'[s]]
    <3>1. CASE s = r
      <4>1. born[r] = month
        BY <1>3, <2>2, <3>1 DEF Admits, TypeOK
      <4> QED BY <1>0, <1>3, <2>2, <3>1, <4>1, StatusFacts DEF Admits
    <3>2. CASE s # r
      <4>1. pc[s] = "running" /\ checked[s] = born[s] /\ spent[born[s]] >= Budget
        BY <1>3, <2>2, <3>2 DEF Admits, TypeOK
      <4> QED BY <1>3, <2>2, <4>1 DEF Admits, BudgetInv, FlightInv
    <3> QED BY <3>1, <3>2
  <2>3. FlightInv'
    BY <2>2 DEF FlightInv
  <2> QED BY <2>1, <2>3 DEF BudgetInv
<1>4. CASE Keeps
  BY <1>0, <1>1, <1>4 DEF Keeps, BudgetInv, StopInv, FlightInv
<1> QED BY <1>2, <1>3, <1>4, MoneyMoves

LEMMA BudgetHolds == Spec => [](TypeOK /\ PhaseInv /\ BudgetInv)
<1>1. Init => BudgetInv
  BY DEF Init, BudgetInv, StopInv, FlightInv
<1> QED BY <1>1, PhasesHold, BudgetStep, PTL DEF Spec

(* Once refused, refused for the rest of the month: see StopsAreFinal.     *)
THEOREM StopsStayFinal == Spec => StopsAreFinal
<1>1. ASSUME TypeOK, BudgetInv, [Next]_vars
      PROVE  \A r \in Requests : checked'[r] # checked[r] => month \notin stopped
  <2>1. ASSUME NEW r \in Requests, Admits(r) PROVE month \notin stopped
    <3>1. spent[month] \in Nat
      BY <1>1 DEF TypeOK
    <3> QED BY <1>1, <2>1, <3>1, StatusFacts DEF Admits, BudgetInv, StopInv
  <2> QED BY <1>1, <2>1, MoneyMoves DEF Charges, Keeps
<1>2. ASSUME TypeOK, BudgetInv, [Next]_vars
      PROVE  [\A r \in Requests : checked'[r] # checked[r] => month \notin stopped]_vars
  BY <1>1, <1>2
<1> QED BY <1>2, BudgetHolds, PTL DEF Spec, StopsAreFinal

(* Only a run that is going on is charged as a run. *)
LEMMA RunCharged ==
    ASSUME TypeOK, PhaseInv, [Next]_vars, NEW r \in Requests,
           kind[r] = "run", charged'[r] # charged[r]
    PROVE  pc[r] = "running"
<1>1. charged[r] \in Nat /\ own[r] \in Nat /\ Phase(r)
  BY DEF TypeOK, PhaseInv
<1>2. PICK s \in Requests : Handle(s)
  BY DEF Next, Done, NewMonth, vars, tables
<1>3. s = r
  BY <1>2, OthersUntouched
<1>4. CASE HardStop(r)
  <2>1. Commit(r, 0, {"budget_hard_stop"}, "http_429") /\ own[r] = 0
    BY <1>1, <1>4 DEF HardStop, Asks, Phase, Fresh
  <2> QED BY <1>1, <2>1, CommitFields
<1>5. CASE RunEnds(r)
  BY <1>5 DEF RunEnds
<1>6. CASE BlockChat(r)
  BY <1>6 DEF BlockChat, Asks
<1>7. CASE ChatFails(r) \/ ChatAnswered(r)
  BY <1>1, <1>7 DEF ChatFails, ChatAnswered, Phase
<1>8. CASE Refuse(r) \/ Lose(r) \/ Report(r)
  BY <1>8 DEF Refuse, Lose, Report, Leave, tables
<1>9. CASE \/ Authenticate(r) \/ StartRun(r) \/ RunAnswered(r) \/ SendChat(r) \/ Respond(r)
  BY <1>9 DEF Authenticate, StartRun, RunAnswered, SendChat, Respond, tables
<1> QED BY <1>2, <1>3, <1>4, <1>5, <1>6, <1>7, <1>8, <1>9 DEF Handle

(* What goes over the budget was in flight: see OvershootInFlight.         *)
THEOREM OvershootOnlyInFlight == Spec => OvershootInFlight
<1>1. ASSUME TypeOK, PhaseInv, BudgetInv, [Next]_vars, NEW r \in Requests, Overshoots(r)
      PROVE  r \in inFlight[born[r]]
  <2>1. pc[r] = "running"
    BY <1>1, RunCharged DEF Overshoots
  <2> QED BY <1>1, <2>1 DEF Overshoots, BudgetInv, FlightInv
<1>2. ASSUME TypeOK, PhaseInv, BudgetInv, [Next]_vars
      PROVE  [\A r \in Requests : Overshoots(r) => r \in inFlight[born[r]]]_vars
  BY <1>1, <1>2
<1> QED BY <1>2, BudgetHolds, PTL DEF Spec, OvershootInFlight

-----------------------------------------------------------------------------
(* The sum of a month.                                                     *)

(* Finitely many requests have come, and each month's spending is the sum  *)
(* over those that came in it.                                             *)
BalanceInv ==
    /\ IsFiniteSet({r \in Requests : pc[r] # "idle"})
    /\ LedgerBalances

(* What a step of a request does to the sums. *)
Arrives(r) ==
    /\ charged[r] = 0
    /\ spent' = spent /\ charged' = charged
    /\ \E m \in Months : born' = [born EXCEPT ![r] = m]
    /\ pc[r] = "idle" /\ \A s \in Requests : pc'[s] = "idle" <=> s # r /\ pc[s] = "idle"

Pays(r, usd) ==
    /\ spent' = [spent EXCEPT ![born[r]] = @ + usd]
    /\ charged' = [charged EXCEPT ![r] = @ + usd]
    /\ born' = born
    /\ pc[r] # "idle" /\ \A s \in Requests : pc'[s] = "idle" <=> pc[s] = "idle"

Rests ==
    /\ UNCHANGED <<spent, charged, born>>
    /\ \A s \in Requests : pc'[s] = "idle" <=> pc[s] = "idle"

LEMMA CommitPays ==
    ASSUME TypeOK, NEW r \in Requests, NEW cost \in Nat, NEW entries, NEW answer,
           Commit(r, cost, entries, answer), born' = born, pc[r] # "idle"
    PROVE  \E usd \in Nat : Pays(r, usd)
<1> DEFINE usd == own[r] + cost
<1>1. usd \in Nat
  BY DEF TypeOK
<1>2. /\ spent' = [spent EXCEPT ![born[r]] = @ + usd]
      /\ charged' = [charged EXCEPT ![r] = @ + usd]
  BY DEF Commit, Charge
<1>3. \A s \in Requests : pc'[s] = "idle" <=> pc[s] = "idle"
  BY DEF Commit, TypeOK
<1> HIDE DEF usd
<1>4. Pays(r, usd)
  BY <1>2, <1>3 DEF Pays
<1> QED BY <1>1, <1>4

LEMMA LeaveRests ==
    ASSUME TypeOK, NEW r \in Requests, NEW answer, Leave(r, answer), born' = born,
           pc[r] # "idle"
    PROVE  Rests
BY DEF Leave, Rests, TypeOK, tables

LEMMA SumMoves ==
    ASSUME TypeOK, PhaseInv, [Next]_vars
    PROVE  \/ \E r \in Requests : Arrives(r)
           \/ \E r \in Requests : \E usd \in Nat : Pays(r, usd)
           \/ Rests
<1>1. ASSUME NEW r \in Requests, Handle(r)
      PROVE  Arrives(r) \/ (\E usd \in Nat : Pays(r, usd)) \/ Rests
  <2>1. CASE Authenticate(r)
    <3>1. charged[r] = 0
      BY <2>1 DEF Authenticate, PhaseInv, Phase, Fresh
    <3>2. month \in Months /\ born' = [born EXCEPT ![r] = month]
      BY <2>1 DEF Authenticate, TypeOK
    <3>3. \A s \in Requests : pc'[s] = "idle" <=> s # r /\ pc[s] = "idle"
      BY <2>1 DEF Authenticate, TypeOK
    <3> QED BY <2>1, <3>1, <3>2, <3>3 DEF Authenticate, Arrives, tables
  <2>2. CASE Refuse(r) \/ Lose(r) \/ Report(r)
    BY <2>2, LeaveRests DEF Refuse, Lose, Report, Asks
  <2>3. CASE HardStop(r) \/ RunEnds(r) \/ BlockChat(r) \/ ChatFails(r)
    <3>1. PICK entries, answer : Commit(r, 0, entries, answer)
      BY <2>3 DEF HardStop, RunEnds, BlockChat, ChatFails
    <3>2. born' = born /\ pc[r] # "idle"
      BY <2>3 DEF HardStop, RunEnds, BlockChat, ChatFails, Asks
    <3> QED BY <3>1, <3>2, CommitPays
  <2>4. CASE ChatAnswered(r)
    <3>1. PICK cost \in Costs, text \in Answers :
            \/ Commit(r, cost, ScreenResponse(text, Policy).hits, "success")
            \/ Commit(r, 0, ScreenResponse(text, Policy).hits, "blocked_502")
      BY <2>4 DEF ChatAnswered
    <3>2. born' = born /\ pc[r] # "idle" /\ cost \in Nat
      BY <2>4, TenantAssumption DEF ChatAnswered
    <3> QED BY <3>1, <3>2, CommitPays
  <2>5. CASE StartRun(r) \/ RunAnswered(r) \/ Respond(r)
    BY <2>5 DEF StartRun, RunAnswered, Respond, Asks, Rests, TypeOK, tables
  <2>6. CASE SendChat(r)
    BY <2>6 DEF SendChat, Asks, Rests, TypeOK, tables
  <2> QED BY <1>1, <2>1, <2>2, <2>3, <2>4, <2>5, <2>6 DEF Handle
<1>2. CASE NewMonth \/ UNCHANGED vars
  BY <1>2 DEF NewMonth, vars, Rests, tables
<1> QED BY <1>1, <1>2 DEF Next, Done

LEMMA BalanceStep ==
    ASSUME TypeOK, PhaseInv, BalanceInv, [Next]_vars
    PROVE  BalanceInv'
<1> DEFINE All == {r \in Requests : pc[r] # "idle"}
<1>1. \A m \in Months : Came(m) \subseteq All /\ IsFiniteSet(Came(m))
  BY FS_Subset DEF BalanceInv, Came
<1>2. /\ \A s \in Requests : charged[s] \in Nat /\ born[s] \in Months
      /\ \A m \in Months : spent[m] = Sum(charged, Came(m)) /\ spent[m] \in Nat
  BY DEF TypeOK, BalanceInv, LedgerBalances
<1>3. ASSUME NEW r \in Requests, Arrives(r)
      PROVE  BalanceInv'
  <2>1. PICK n \in Months : born' = [born EXCEPT ![r] = n]
    BY <1>3 DEF Arrives
  <2>2. All' = All \cup {r}
    BY <1>3 DEF Arrives
  <2>3. IsFiniteSet(All')
    BY <2>2, FS_AddElement DEF BalanceInv
  <2>4. ASSUME NEW m \in Months
        PROVE  spent'[m] = Sum(charged', Came(m)')
    <3>1. Came(m)' = Came(m) \cup (IF m = n THEN {r} ELSE {})
      BY <1>3, <2>1 DEF Arrives, Came, TypeOK
    <3>2. charged[r] = 0 /\ r \notin Came(m) /\ charged' = charged /\ spent' = spent
      BY <1>3 DEF Arrives, Came
    <3>3. \A s \in Came(m) \cup {r} : charged[s] \in Nat
      BY <1>2 DEF Came
    <3>4. Sum(charged, Came(m) \cup {r}) = charged[r] + Sum(charged, Came(m))
      BY <1>1, <3>2, <3>3, SumAdd
    <3>5. CASE m = n
      <4>1. Came(m)' = Came(m) \cup {r}
        BY <3>1, <3>5
      <4> QED BY <1>2, <3>2, <3>4, <4>1
    <3>6. CASE m # n
      <4>1. Came(m)' = Came(m)
        BY <3>1, <3>6
      <4> QED BY <1>2, <3>2, <4>1
    <3> QED BY <3>5, <3>6
  <2> QED BY <2>3, <2>4 DEF BalanceInv, LedgerBalances
<1>4. ASSUME NEW r \in Requests, NEW usd \in Nat, Pays(r, usd)
      PROVE  BalanceInv'
  <2>1. All' = All
    BY <1>4 DEF Pays
  <2>2. ASSUME NEW m \in Months
        PROVE  spent'[m] = Sum(charged', Came(m)')
    <3>1. Came(m)' = Came(m) /\ (r \in Came(m) <=> m = born[r])
      BY <1>4 DEF Pays, Came
    <3>2. /\ \A s \in Came(m) : charged[s] \in Nat /\ charged'[s] \in Nat
          /\ \A s \in Requests \ {r} : charged'[s] = charged[s]
          /\ charged'[r] = charged[r] + usd
      BY <1>2, <1>4 DEF Pays, Came, TypeOK
    <3>3. CASE m = born[r]
      <4>1. Sum(charged', Came(m)) = (Sum(charged, Came(m)) - charged[r]) + charged'[r]
        <5>1. r \in Came(m) /\ \A s \in Came(m) \ {r} : charged[s] = charged'[s]
          BY <3>1, <3>2, <3>3 DEF Came
        <5> QED BY <1>1, <3>2, <5>1, SumChange
      <4>2. spent'[m] = spent[m] + usd
        BY <1>4, <3>3 DEF Pays, TypeOK
      <4> QED BY <1>2, <3>1, <3>2, <4>1, <4>2
    <3>4. CASE m # born[r]
      <4>1. Sum(charged', Came(m)) = Sum(charged, Came(m))
        <5>1. \A s \in Came(m) : charged[s] = charged'[s]
          BY <3>1, <3>2, <3>4 DEF Came
        <5> QED BY <1>1, <5>1, SumSame
      <4>2. spent'[m] = spent[m]
        BY <1>4, <3>4 DEF Pays, TypeOK
      <4> QED BY <1>2, <3>1, <4>1, <4>2
    <3> QED BY <3>3, <3>4
  <2> QED BY <2>1, <2>2 DEF BalanceInv, LedgerBalances
<1>5. CASE Rests
  <2>1. All' = All /\ spent' = spent /\ charged' = charged
    BY <1>5 DEF Rests
  <2>2. \A m \in Months : Came(m)' = Came(m)
    BY <1>5 DEF Rests, Came
  <2> QED BY <1>2, <2>1, <2>2 DEF BalanceInv, LedgerBalances
<1> QED BY <1>3, <1>4, <1>5, SumMoves

(* However the requests interleave and wherever they die, each month's     *)
(* spending is the sum of what its requests were charged.                  *)
THEOREM LedgerAlwaysBalances == Spec => []LedgerBalances
<1>1. Init => BalanceInv
  <2>1. SUFFICES ASSUME Init PROVE BalanceInv
    OBVIOUS
  <2>2. {r \in Requests : pc[r] # "idle"} = {} /\ \A m \in Months : Came(m) = {} /\ spent[m] = 0
    BY <2>1 DEF Init, Came
  <2> QED BY <2>2, SumEmpty, FS_EmptySet DEF BalanceInv, LedgerBalances
<1>2. BalanceInv => LedgerBalances
  BY DEF BalanceInv
<1> QED BY <1>1, <1>2, PhasesHold, BalanceStep, PTL DEF Spec

-----------------------------------------------------------------------------
(* The promise of BudgetedLedger.                                          *)

LEMMA SettleStep ==
    ASSUME TypeOK, PhaseInv, NEW r \in Requests, NEW usd \in Nat,
           usd > 0 => charged[r] = 0 /\ (checked[r] # NotYet \/ sent[r] # {}),
           spent' = [spent EXCEPT ![born[r]] = @ + usd],
           charged' = [charged EXCEPT ![r] = @ + usd],
           UNCHANGED <<month, checked, sent>>
    PROVE  [Ledger!LedgerNext]_(Ledger!ledgerVars)
<1>1. born[r] \in Months /\ born[r] <= month /\ charged[r] \in Nat /\ spent[born[r]] \in Nat
  BY DEF TypeOK, PhaseInv, Phase
<1>2. CASE usd = 0
  <2>1. spent' = spent /\ charged' = charged
    BY <1>1, <1>2 DEF TypeOK
  <2> QED BY <2>1 DEF Ledger!ledgerVars
<1>3. CASE usd > 0
  <2>1. spent'[born[r]] > spent[born[r]]
        /\ spent' = [spent EXCEPT ![born[r]] = spent'[born[r]]]
    BY <1>1, <1>3 DEF TypeOK
  <2>2. {s \in Requests : charged[s] > 0}' = {s \in Requests : charged[s] > 0} \cup {r}
    BY <1>1, <1>3 DEF TypeOK
  <2>3. r \in ({s \in Requests : checked[s] # NotYet} \cup {s \in Requests : sent[s] # {}})
             \ {s \in Requests : charged[s] > 0}
    BY <1>3
  <2>4. Ledger!Settle(r)
    BY <1>1, <2>1, <2>2, <2>3 DEF Ledger!Settle
  <2> QED BY <2>4 DEF Ledger!LedgerNext
<1> QED BY <1>2, <1>3

LEMMA CommitSettles ==
    ASSUME TypeOK, PhaseInv, NEW r \in Requests, NEW cost \in Nat, NEW entries, NEW answer,
           Commit(r, cost, entries, answer), UNCHANGED <<month, checked, sent>>,
           \/ own[r] + cost = 0
           \/ charged[r] = 0 /\ (checked[r] # NotYet \/ sent[r] # {})
    PROVE  [Ledger!LedgerNext]_(Ledger!ledgerVars)
<1>1. own[r] + cost \in Nat
  BY DEF TypeOK
<1>2. /\ spent' = [spent EXCEPT ![born[r]] = @ + (own[r] + cost)]
      /\ charged' = [charged EXCEPT ![r] = @ + (own[r] + cost)]
  BY DEF Commit, Charge
<1> DEFINE usd == own[r] + cost
<1>3. usd \in Nat /\ (usd > 0 => charged[r] = 0 /\ (checked[r] # NotYet \/ sent[r] # {}))
  BY <1>1
<1> HIDE DEF usd
<1>4. /\ spent' = [spent EXCEPT ![born[r]] = @ + usd]
      /\ charged' = [charged EXCEPT ![r] = @ + usd]
  BY <1>2 DEF usd
<1> QED BY <1>3, <1>4, SettleStep

(* The cost table implements BudgetedLedger: admission follows the         *)
(* committed spending, and each request settles at once and at most once.  *)
THEOREM ImplementsLedger == Spec => KeepsLedger
<1>1. Init => Ledger!LedgerInit
  BY DEF Init, Ledger!LedgerInit, NotYet
<1>2. ASSUME TypeOK, PhaseInv, [Next]_vars
      PROVE  [Ledger!LedgerNext]_(Ledger!ledgerVars)
  <2>1. ASSUME NEW r \in Requests, Handle(r) PROVE [Ledger!LedgerNext]_(Ledger!ledgerVars)
    <3>0. /\ TypeOK /\ PhaseInv /\ Phase(r)
          /\ own[r] \in Nat /\ spent[month] \in Nat
      BY <1>2 DEF PhaseInv, TypeOK
    <3>1. CASE Authenticate(r) \/ RunAnswered(r) \/ Respond(r)
      BY <3>1 DEF Authenticate, RunAnswered, Respond, tables, Ledger!ledgerVars
    <3>2. CASE Refuse(r) \/ Lose(r) \/ Report(r)
      BY <3>2 DEF Refuse, Lose, Report, Leave, tables, Ledger!ledgerVars
    <3>3. CASE HardStop(r)
      <4>1. own[r] + 0 = 0
        BY <3>0, <3>3 DEF HardStop, Asks, Phase, Fresh
      <4> QED BY <3>0, <3>3, <4>1, CommitSettles DEF HardStop
    <3>4. CASE StartRun(r)
      <4>1. r \notin {s \in Requests : checked[s] # NotYet}
        BY <3>0, <3>4 DEF StartRun, Asks, Phase, Fresh
      <4>2. Budget > 0 => spent[month] < Budget
        BY <3>0, <3>4, StatusFacts, TenantAssumption DEF StartRun, MonthToDate
      <4>3. {s \in Requests : checked[s] # NotYet}'
              = {s \in Requests : checked[s] # NotYet} \cup {r}
        BY <3>0, <3>4, MonthFacts DEF StartRun, TypeOK
      <4>4. Ledger!Admit(r)
        BY <3>4, <4>1, <4>2, <4>3 DEF StartRun, Ledger!Admit, tables
      <4> QED BY <4>4 DEF Ledger!LedgerNext
    <3>5. CASE RunEnds(r)
      <4>1. charged[r] = 0 /\ checked[r] # NotYet
        BY <3>0, <3>5 DEF RunEnds, Phase
      <4> QED BY <3>0, <3>5, <4>1, CommitSettles DEF RunEnds
    <3>6. CASE SendChat(r)
      <4>1. {s \in Requests : sent[s] # {}}' = {s \in Requests : sent[s] # {}} \cup {r}
        BY <3>0, <3>6 DEF SendChat, TypeOK
      <4>2. Ledger!Pass(r)
        BY <3>6, <4>1 DEF SendChat, Ledger!Pass, tables
      <4> QED BY <4>2 DEF Ledger!LedgerNext
    <3>7. CASE BlockChat(r)
      <4>1. own[r] + 0 = 0
        BY <3>0, <3>7 DEF BlockChat, Asks, Phase, Fresh
      <4> QED BY <3>0, <3>7, <4>1, CommitSettles DEF BlockChat
    <3>8. CASE ChatFails(r)
      <4>1. charged[r] = 0 /\ sent[r] # {}
        BY <3>0, <3>8 DEF ChatFails, Phase
      <4> QED BY <3>0, <3>8, <4>1, CommitSettles DEF ChatFails
    <3>9. CASE ChatAnswered(r)
      <4>1. PICK cost \in Costs, text \in Answers :
              \/ Commit(r, cost, ScreenResponse(text, Policy).hits, "success")
              \/ Commit(r, 0, ScreenResponse(text, Policy).hits, "blocked_502")
        BY <3>9 DEF ChatAnswered
      <4>2. charged[r] = 0 /\ sent[r] # {} /\ cost \in Nat
        BY <3>0, <3>9, TenantAssumption DEF ChatAnswered, Phase
      <4>3. UNCHANGED <<month, checked, sent>>
        BY <3>9 DEF ChatAnswered
      <4> QED BY <3>0, <4>1, <4>2, <4>3, CommitSettles
    <3> QED BY <2>1, <3>1, <3>2, <3>3, <3>4, <3>5, <3>6, <3>7, <3>8, <3>9 DEF Handle
  <2>2. CASE NewMonth
    BY <2>2 DEF NewMonth, tables, Ledger!LedgerNext, Ledger!NextMonth
  <2>3. CASE UNCHANGED vars
    BY <2>3 DEF vars, tables, Ledger!ledgerVars
  <2> QED BY <1>2, <2>1, <2>2, <2>3 DEF Next, Done
<1> QED BY <1>1, <1>2, PhasesHold, PTL DEF Spec, KeepsLedger, Ledger!LedgerSpec

=============================================================================
