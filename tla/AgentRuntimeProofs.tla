-------------------------- MODULE AgentRuntimeProofs --------------------------
(***************************************************************************)
(* What holds of one agent run for every max_steps, token budget, number   *)
(* of tool attempts, usage and list of tool calls, on either database.     *)
(***************************************************************************)
EXTENDS AgentRuntime, FoldingProofs, SequenceTheorems

-----------------------------------------------------------------------------
(* The stores: what they write is well formed.                             *)

LEMMA NoRowsType == NoRows \in Rows
BY DEF NoRows, Rows, Run

LEMMA RowsMade ==
    ASSUME NEW run \in Run, NEW steps \in Seq(Step),
           NEW costs \in Seq(Nat), NEW audit \in Seq(AuditAction)
    PROVE  [run |-> run, steps |-> steps, costs |-> costs, audit |-> audit] \in Rows
BY DEF Rows

LEMMA RecordedFields ==
    ASSUME NEW rows \in Rows, NEW row \in Step
    PROVE  /\ Recorded(rows, row) \in Rows
           /\ Recorded(rows, row).steps = Append(rows.steps, row)
           /\ Recorded(rows, row).run.stepCount = rows.run.stepCount + 1
           /\ Recorded(rows, row).run.tokens = rows.run.tokens + row.tokens
           /\ Recorded(rows, row).run.status = rows.run.status
           /\ Recorded(rows, row).costs = rows.costs
           /\ Recorded(rows, row).audit = rows.audit
<1> DEFINE run == [status |-> rows.run.status, stepCount |-> rows.run.stepCount + 1,
                   tokens |-> rows.run.tokens + row.tokens]
           steps == Append(rows.steps, row)
<1>1. run \in Run
  BY DEF Rows, Run, Step
<1>2. /\ rows.steps \in Seq(Step) /\ rows.costs \in Seq(Nat)
      /\ rows.audit \in Seq(AuditAction)
  BY DEF Rows
<1>3. steps \in Seq(Step)
  BY <1>2
<1>4. Recorded(rows, row) = [run |-> run, steps |-> steps,
                             costs |-> rows.costs, audit |-> rows.audit]
  <2> HIDE DEF steps
  <2>1. Recorded(rows, row) = [rows EXCEPT !.steps = steps,
                                           !.run.stepCount = @ + 1,
                                           !.run.tokens = @ + row.tokens]
    BY DEF Recorded, steps
  <2> QED BY <2>1, ZenonT(60) DEF Rows, Run
<1> HIDE DEF run, steps
<1>5. Recorded(rows, row) \in Rows
  BY <1>1, <1>2, <1>3, <1>4, RowsMade
<1> QED BY <1>4, <1>5 DEF run, steps

LEMMA FinishedFields ==
    ASSUME NEW rows \in Rows, NEW status \in RunStatus
    PROVE  /\ Finished(rows, status) \in Rows
           /\ Finished(rows, status).run.status = status
           /\ Finished(rows, status).run.stepCount = rows.run.stepCount
           /\ Finished(rows, status).run.tokens = rows.run.tokens
           /\ Finished(rows, status).steps = rows.steps
           /\ Finished(rows, status).costs = rows.costs
           /\ Finished(rows, status).audit = rows.audit
BY DEF Finished, Rows, Run

LEMMA CostedFields ==
    ASSUME NEW rows \in Rows, NEW used \in Nat
    PROVE  /\ Costed(rows, used) \in Rows
           /\ Costed(rows, used).run = rows.run
           /\ Costed(rows, used).steps = rows.steps
           /\ Costed(rows, used).costs = Append(rows.costs, used)
           /\ Costed(rows, used).audit = rows.audit
<1> DEFINE costs == Append(rows.costs, used)
<1>1. costs \in Seq(Nat)
  BY DEF Rows
<1>2. Costed(rows, used) = [rows EXCEPT !.costs = costs]
  BY DEF Costed
<1> HIDE DEF costs
<1>3. [rows EXCEPT !.costs = costs] \in Rows
  BY <1>1 DEF Rows
<1> QED BY <1>2, <1>3 DEF costs, Rows

LEMMA AuditedFields ==
    ASSUME NEW rows \in Rows, NEW n \in Nat, NEW action \in AuditAction
    PROVE  /\ Audited(rows, n, action) \in Rows
           /\ Audited(rows, n, action).run = rows.run
           /\ Audited(rows, n, action).steps = rows.steps
           /\ Audited(rows, n, action).costs = rows.costs
           /\ n = 1 => /\ Audited(rows, n, action).audit # <<>>
                       /\ Audited(rows, n, action).audit[Len(Audited(rows, n, action).audit)] = action
<1> DEFINE entries == [i \in 1..n |-> action]
           longer == rows.audit \o entries
<1>1. entries \in Seq(AuditAction) /\ Len(entries) = n
  OBVIOUS
<1>2. rows.audit \in Seq(AuditAction)
  BY DEF Rows
<1>3. longer \in Seq(AuditAction) /\ Len(longer) = Len(rows.audit) + n
  BY <1>1, <1>2
<1>4. ASSUME n = 1 PROVE longer # <<>> /\ longer[Len(longer)] = action
  <2>1. longer[Len(rows.audit) + 1] = entries[1] /\ entries[1] = action
    BY <1>1, <1>2, <1>4
  <2> QED BY <2>1, <1>3, <1>2, <1>4
<1> HIDE DEF longer
<1>5. Audited(rows, n, action) = [rows EXCEPT !.audit = longer]
  BY DEF Audited, longer
<1>6. [rows EXCEPT !.audit = longer] \in Rows
  BY <1>3 DEF Rows
<1> QED BY <1>4, <1>5, <1>6 DEF Rows

(* What an answer of the model leaves in the session. *)
LEMMA AnsweredRowsFields ==
    ASSUME TypeOK, NEW used \in Nat
    PROVE  /\ AnsweredRows(used) \in Rows
           /\ AnsweredRows(used).steps = Append(session.steps, LlmStep(TRUE, used))
           /\ AnsweredRows(used).run.stepCount = session.run.stepCount + 1
           /\ AnsweredRows(used).run.tokens = session.run.tokens + used
           /\ AnsweredRows(used).run.status = session.run.status
           /\ AnsweredRows(used).costs = Append(session.costs, used)
<1>1. LlmStep(TRUE, used) \in Step /\ LlmStep(TRUE, used).tokens = used
  BY DEF LlmStep, Step, TypeOK
<1>2. session \in Rows
  BY DEF TypeOK
<1> DEFINE rows == Recorded(session, LlmStep(TRUE, used))
<1>3. /\ rows \in Rows
      /\ rows.steps = Append(session.steps, LlmStep(TRUE, used))
      /\ rows.run.stepCount = session.run.stepCount + 1
      /\ rows.run.tokens = session.run.tokens + used
      /\ rows.run.status = session.run.status
      /\ rows.costs = session.costs
  BY <1>1, <1>2, RecordedFields
<1> HIDE DEF rows
<1>4. AnsweredRows(used) = Costed(rows, used)
  BY DEF AnsweredRows, rows
<1> QED BY <1>3, <1>4, CostedFields, ZenonT(60)

-----------------------------------------------------------------------------
(* Types.                                                                  *)

LEMMA FinishType ==
    ASSUME NEW rows \in Rows, NEW status \in RunStatus, NEW steps \in Int,
           NEW total \in Nat, Finish(rows, status, steps, total)
    PROVE  session' \in Rows /\ reply' \in Reply /\ pc' = "finished"
BY FinishedFields DEF Finish, Reply

LEMMA EnterLoopType ==
    ASSUME TypeOK, NEW rows \in Rows, NEW next \in Nat, EnterLoop(rows, next)
    PROVE  session' \in Rows /\ reply' \in Reply /\ step' \in Nat
           /\ pc' \in {"calling", "finished"}
BY RuntimeAssumption, FinishType DEF EnterLoop, TypeOK, RunStatus

LEMMA ToolAnsweredType ==
    ASSUME TypeOK, pc = "tool", NEW ok \in BOOLEAN, NEW retries \in Nat,
           ToolAnswered(ok, retries)
    PROVE  TypeOK'
<1>1. ToolStep(ok, retries) \in Step
  BY DEF ToolStep, Step, TypeOK
<1> DEFINE rows == Recorded(session, ToolStep(ok, retries))
<1>2. rows \in Rows
  BY <1>1, RecordedFields DEF TypeOK
<1> HIDE DEF rows
<1>3. pending \in Seq(ToolKind) /\ pending # <<>> /\ Len(pending) \in Nat \ {0}
  BY DEF TypeOK
<1>4. pending' \in Seq(ToolKind) /\ (Len(pending) # 1 => pending' # <<>>)
  <2>1. pending' = Tail(pending)
    BY DEF ToolAnswered
  <2>2. Tail(pending) \in Seq(ToolKind) /\ Len(Tail(pending)) = Len(pending) - 1
    BY <1>3
  <2>3. Len(pending) # 1 => Tail(pending) # <<>>
    BY <1>3, <2>2
  <2> QED BY <2>1, <2>2, <2>3
<1>5. messages' \in Seq(Message)
  BY <1>3 DEF ToolAnswered, ToolMessage, Message, TypeOK
<1>6. attempt' \in 0..(ToolAttempts - 1)
  BY RuntimeAssumption DEF ToolAnswered
<1>7. UNCHANGED <<tokens, db, answered>>
  BY DEF ToolAnswered
<1>8. CASE LastCall
  <2>1. EnterLoop(rows, step + 1)
    BY <1>8 DEF ToolAnswered, rows
  <2>2. session' \in Rows /\ reply' \in Reply /\ step' \in Nat /\ pc' \in {"calling", "finished"}
    BY <2>1, <1>2, EnterLoopType DEF TypeOK
  <2> QED BY <2>2, <1>4, <1>5, <1>6, <1>7 DEF TypeOK
<1>9. CASE ~LastCall
  <2>1. session' = rows /\ UNCHANGED <<pc, step, reply>>
    BY <1>9 DEF ToolAnswered, rows
  <2> QED BY <2>1, <1>2, <1>4, <1>5, <1>6, <1>7, <1>9 DEF TypeOK, LastCall
<1> QED BY <1>8, <1>9

LEMMA LoseType == ASSUME TypeOK, Lose PROVE TypeOK'
BY NoRowsType DEF Lose, TypeOK, Reply, NoReply

LEMMA TypeStep == ASSUME TypeOK, [Next]_vars PROVE TypeOK'
<1>0. attempt \in Nat /\ ToolAttempts \in Nat
  BY RuntimeAssumption DEF TypeOK
<1>1. CASE UnknownTenant
  BY <1>1 DEF UnknownTenant, TypeOK, Reply, NoReply
<1>2. CASE BudgetExhausted
  <2>1. session' \in Rows
    BY <1>2, AuditedFields DEF BudgetExhausted, TypeOK, AuditAction
  <2> QED BY <1>2, <2>1 DEF BudgetExhausted, TypeOK, Reply, NoReply
<1>3. CASE StartRun
  <2>1. session' \in Rows
    BY <1>3 DEF StartRun, TypeOK, Rows, Run
  <2> QED BY <1>3, <2>1 DEF StartRun, TypeOK
<1>4. CASE ScreenRequest
  <2>1. PICK hits \in 0..2, allowed \in BOOLEAN :
          LET rows == Audited(session, hits, "guardrail_request")
          IN  IF allowed
              THEN /\ messages' = <<[role |-> "system", n |-> 0], [role |-> "user", n |-> 0]>>
                   /\ EnterLoop(rows, 0)
              ELSE /\ Finish(rows, "blocked_by_guardrail", 0, 0)
                   /\ UNCHANGED <<messages, step>>
    BY <1>4 DEF ScreenRequest
  <2> DEFINE rows == Audited(session, hits, "guardrail_request")
  <2>2. rows \in Rows
    BY AuditedFields DEF TypeOK, AuditAction
  <2> HIDE DEF rows
  <2>3. UNCHANGED <<pending, attempt, tokens, db, answered>>
    BY <1>4 DEF ScreenRequest
  <2>4. CASE allowed
    <3>1. messages' = <<[role |-> "system", n |-> 0], [role |-> "user", n |-> 0]>>
          /\ EnterLoop(rows, 0)
      BY <2>1, <2>4 DEF rows
    <3>2. messages' \in Seq(Message)
      BY <3>1 DEF Message
    <3>3. session' \in Rows /\ reply' \in Reply /\ step' \in Nat /\ pc' \in {"calling", "finished"}
      BY <3>1, <2>2, EnterLoopType
    <3> QED BY <3>2, <3>3, <2>3 DEF TypeOK
  <2>5. CASE ~allowed
    <3>1. Finish(rows, "blocked_by_guardrail", 0, 0) /\ UNCHANGED <<messages, step>>
      BY <2>1, <2>5 DEF rows
    <3> QED BY <3>1, <2>2, <2>3, FinishType DEF TypeOK, RunStatus
  <2> QED BY <2>4, <2>5
<1>5. CASE ModelFails
  <2>1. LlmStep(FALSE, 0) \in Step
    BY DEF LlmStep, Step, TypeOK
  <2>2. Recorded(session, LlmStep(FALSE, 0)) \in Rows
    BY <2>1, RecordedFields DEF TypeOK
  <2>3. /\ Finish(Recorded(session, LlmStep(FALSE, 0)), "failed", step + 1, tokens)
        /\ UNCHANGED <<step, messages, pending, attempt, tokens, db, answered>>
    BY <1>5 DEF ModelFails
  <2>4. session' \in Rows /\ reply' \in Reply /\ pc' = "finished"
    <3>1. step + 1 \in Int /\ tokens \in Nat /\ "failed" \in RunStatus
      BY DEF TypeOK, RunStatus
    <3> QED BY <2>2, <2>3, <3>1, FinishType
  <2> QED BY <2>3, <2>4 DEF TypeOK
<1>6. CASE AnswerOverBudget
  <2>1. PICK used \in Usage :
          /\ Count(used)
          /\ Finish(AnsweredRows(used), "budget_exceeded", step + 1, tokens')
          /\ UNCHANGED <<step, messages, pending, attempt, db>>
    BY <1>6 DEF AnswerOverBudget
  <2>2. used \in Nat
    BY RuntimeAssumption
  <2>3. tokens' \in Nat /\ answered' \in Seq(Nat)
    BY <2>1, <2>2 DEF Count, TypeOK
  <2>4. AnsweredRows(used) \in Rows
    BY <2>2, AnsweredRowsFields
  <2> QED BY <2>1, <2>3, <2>4, FinishType DEF TypeOK, RunStatus
<1>7. CASE AnswerFinal
  <2>1. PICK used \in Usage, hits \in 0..1, allowed \in BOOLEAN :
          /\ Count(used)
          /\ messages' = Append(messages, Assistant(<<>>))
          /\ Finish(Audited(AnsweredRows(used), hits, "guardrail_response"),
                    IF allowed THEN "completed" ELSE "blocked_by_guardrail",
                    step + 1, tokens')
          /\ UNCHANGED <<step, pending, attempt, db>>
    BY <1>7 DEF AnswerFinal
  <2>2. used \in Nat
    BY RuntimeAssumption
  <2>3. tokens' \in Nat /\ answered' \in Seq(Nat) /\ messages' \in Seq(Message)
    BY <2>1, <2>2 DEF Count, TypeOK, Assistant, Message
  <2>4. Audited(AnsweredRows(used), hits, "guardrail_response") \in Rows
    <3>1. AnsweredRows(used) \in Rows
      BY <2>2, AnsweredRowsFields
    <3>2. hits \in Nat
      OBVIOUS
    <3> QED BY <3>1, <3>2, AuditedFields DEF AuditAction
  <2> QED BY <2>1, <2>3, <2>4, FinishType DEF TypeOK, RunStatus
<1>8. CASE AnswerWithTools
  <2>1. PICK used \in Usage, calls \in Replies \ {<<>>} :
          /\ Count(used)
          /\ messages' = Append(messages, Assistant(calls))
          /\ pending' = calls
          /\ pc' = "tool"
          /\ session' = AnsweredRows(used)
          /\ UNCHANGED <<step, attempt, db, reply>>
    BY <1>8 DEF AnswerWithTools
  <2>2. used \in Nat /\ calls \in Seq(ToolKind)
    BY RuntimeAssumption
  <2>3. tokens' \in Nat /\ answered' \in Seq(Nat) /\ messages' \in Seq(Message)
    BY <2>1, <2>2 DEF Count, TypeOK, Assistant, Message
  <2>4. AnsweredRows(used) \in Rows
    BY <2>2, AnsweredRowsFields
  <2> QED BY <2>1, <2>2, <2>3, <2>4 DEF TypeOK
<1>9. CASE ToolNotRun
  BY <1>9, ToolAnsweredType DEF ToolNotRun, RunningTool
<1>10. CASE ToolReturns
  BY <1>0, <1>10, ToolAnsweredType DEF ToolReturns, RunningTool
<1>11. CASE ToolRejects
  BY <1>0, <1>11, ToolAnsweredType DEF ToolRejects, RunningTool
<1>12. CASE ToolFails
  <2>1. CASE NextAttempt < ToolAttempts
    <3>1. attempt' \in 0..(ToolAttempts - 1)
      BY <1>12, <2>1, RuntimeAssumption DEF ToolFails, NextAttempt, TypeOK
    <3> QED BY <1>12, <2>1, <3>1 DEF ToolFails, TypeOK
  <2>2. CASE ~(NextAttempt < ToolAttempts)
    BY <1>0, <1>12, <2>2, ToolAnsweredType DEF ToolFails, RunningTool
  <2> QED BY <2>1, <2>2
<1>13. CASE SqlFails
  BY <1>0, <1>13, LoseType, ToolAnsweredType DEF SqlFails, RunningTool
<1>14. CASE SqlTimesOut
  BY <1>14, LoseType DEF SqlTimesOut
<1>15. CASE Commit
  <2>1. session' \in Rows
    BY <1>15, AuditedFields DEF Commit, TypeOK, AuditAction
  <2> QED BY <1>15, <2>1 DEF Commit, TypeOK
<1>16. CASE Respond
  BY <1>16 DEF Respond, TypeOK
<1>17. CASE RequestLost
  BY <1>17, LoseType DEF RequestLost
<1>18. CASE Done \/ UNCHANGED vars
  BY <1>18 DEF Done, TypeOK, vars
<1> QED
  BY <1>1, <1>2, <1>3, <1>4, <1>5, <1>6, <1>7, <1>8, <1>9, <1>10, <1>11, <1>12,
     <1>13, <1>14, <1>15, <1>16, <1>17, <1>18
  DEF Next, Progress

LEMMA TypeInit == Init => TypeOK
BY NoRowsType, RuntimeAssumption DEF Init, TypeOK, Reply, NoReply

(* Type correctness: the tool loop never reaches for a call that is not     *)
(* there, and the rows of the session and the database keep their shape.    *)
THEOREM RunTypeCorrect == Spec => []TypeOK
BY TypeInit, TypeStep, PTL DEF Spec

-----------------------------------------------------------------------------
(* What a step can do to the rows, seen from the invariants below.         *)

(* No answer is counted and no cost is written. *)
SameLedger ==
    /\ UNCHANGED <<tokens, answered>>
    /\ session'.costs = session.costs
    /\ session'.run.tokens = session.run.tokens
    /\ session.run.stepCount = Len(session.steps) =>
           session'.run.stepCount = Len(session'.steps)

(* The run is finished with one of these statuses, and so it is reported. *)
Ends(statuses, total) ==
    /\ pc' = "finished"
    /\ session'.run.status \in statuses
    /\ reply'.status = session'.run.status
    /\ reply'.tokens = total

Begins ==
    /\ pc = "budget" /\ pc' = "screen"
    /\ SameLedger
    /\ session'.run.status = "running"
    /\ UNCHANGED <<step, db>>

(* The request is screened, or a tool call is over. *)
Works ==
    /\ pc \in {"screen", "tool"}
    /\ SameLedger
    /\ db' = db
    /\ \/ /\ pc' = "calling"
          /\ session'.run.status = session.run.status
          /\ step' = IF pc = "screen" THEN 0 ELSE step + 1
          /\ step' < MaxSteps
       \/ /\ pc = "tool" /\ pc' = "tool"
          /\ session'.run.status = session.run.status
          /\ step' = step
       \/ Ends({"max_steps_exceeded"}, tokens)
       \/ pc = "screen" /\ Ends({"blocked_by_guardrail"}, 0)

GivesUp ==
    /\ pc = "calling"
    /\ SameLedger
    /\ db' = db
    /\ Ends({"failed"}, tokens)

Answers(used) ==
    /\ pc = "calling"
    /\ tokens' = tokens + used
    /\ answered' = Append(answered, used)
    /\ session'.costs = Append(session.costs, used)
    /\ session'.run.tokens = session.run.tokens + used
    /\ session.run.stepCount = Len(session.steps) =>
           session'.run.stepCount = Len(session'.steps)
    /\ db' = db
    /\ \/ Ends({"budget_exceeded"}, tokens') /\ tokens' > TokenBudget
       \/ Ends({"completed", "blocked_by_guardrail"}, tokens') /\ tokens' <= TokenBudget
       \/ /\ pc' = "tool" /\ step' = step
          /\ session'.run.status = session.run.status
          /\ tokens' <= TokenBudget

Commits ==
    /\ pc \in {"budget", "finished"} /\ pc' = "committed"
    /\ UNCHANGED <<tokens, answered>>
    /\ db' = session'
    /\ session'.run = session.run
    /\ session'.steps = session.steps
    /\ session'.costs = session.costs
    /\ pc = "finished" =>
          /\ reply' = reply
          /\ session'.audit # <<>>
          /\ session'.audit[Len(session'.audit)] = "agent_run"
    /\ pc = "budget" => reply'.status \notin RunStatus

Leaves ==
    /\ pc # "done" /\ pc' = "done"
    /\ UNCHANGED <<tokens, answered, db>>
    /\ (reply' = reply /\ pc = "committed") \/ reply'.status \notin RunStatus

Idles == UNCHANGED <<pc, step, tokens, answered, session, db, reply>>

Moves ==
    \/ Begins
    \/ Works
    \/ GivesUp
    \/ \E used \in Nat : Answers(used)
    \/ Commits
    \/ Leaves
    \/ Idles

LEMMA FinishMoves ==
    ASSUME NEW rows \in Rows, NEW status \in RunStatus, NEW steps \in Int,
           NEW total, Finish(rows, status, steps, total)
    PROVE  /\ pc' = "finished"
           /\ session'.run.status = status
           /\ reply'.status = status
           /\ reply'.stepCount = steps
           /\ reply'.tokens = total
           /\ session'.run.tokens = rows.run.tokens
           /\ session'.run.stepCount = rows.run.stepCount
           /\ session'.steps = rows.steps
           /\ session'.costs = rows.costs
<1>1. session' = Finished(rows, status)
  BY DEF Finish
<1>2. reply' = [status |-> status, stepCount |-> steps, tokens |-> total] /\ pc' = "finished"
  BY DEF Finish
<1> QED BY <1>1, <1>2, FinishedFields

LEMMA EnterLoopMoves ==
    ASSUME NEW rows \in Rows, NEW next \in Nat, EnterLoop(rows, next)
    PROVE  /\ session'.run.tokens = rows.run.tokens
           /\ session'.run.stepCount = rows.run.stepCount
           /\ session'.steps = rows.steps
           /\ session'.costs = rows.costs
           /\ \/ /\ pc' = "calling" /\ step' = next /\ next < MaxSteps
                 /\ session'.run.status = rows.run.status
              \/ /\ pc' = "finished"
                 /\ session'.run.status = "max_steps_exceeded"
                 /\ reply'.status = "max_steps_exceeded"
                 /\ reply'.stepCount = MaxSteps
                 /\ reply'.tokens = tokens
                 /\ step' = step /\ next >= MaxSteps
<1>1. CASE next < MaxSteps
  BY <1>1 DEF EnterLoop
<1>2. CASE ~(next < MaxSteps)
  <2>1. Finish(rows, "max_steps_exceeded", MaxSteps, tokens)
    BY <1>2 DEF EnterLoop
  <2>2. "max_steps_exceeded" \in RunStatus /\ MaxSteps \in Int
    BY RuntimeAssumption DEF RunStatus
  <2>3. step' = step /\ next >= MaxSteps
    BY <1>2, <2>2 DEF EnterLoop
  <2> QED BY <2>1, <2>2, <2>3, FinishMoves
<1> QED BY <1>1, <1>2

(* A recorded step keeps the count of the run equal to its rows. *)
LEMMA RecordedCounts ==
    ASSUME NEW rows \in Rows, NEW row \in Step,
           rows.run.stepCount = Len(rows.steps)
    PROVE  Recorded(rows, row).run.stepCount = Len(Recorded(rows, row).steps)
<1>1. rows.steps \in Seq(Step)
  BY DEF Rows
<1>2. Len(Append(rows.steps, row)) = Len(rows.steps) + 1
  BY <1>1
<1> QED BY <1>2, RecordedFields

LEMMA ToolAnsweredMoves ==
    ASSUME TypeOK, pc = "tool", NEW ok \in BOOLEAN, NEW retries \in Nat,
           ToolAnswered(ok, retries)
    PROVE  Works
<1>1. ToolStep(ok, retries) \in Step /\ ToolStep(ok, retries).tokens = 0
  BY DEF ToolStep, Step, TypeOK
<1> DEFINE rows == Recorded(session, ToolStep(ok, retries))
<1>2. session \in Rows /\ session.run.tokens \in Nat /\ step + 1 \in Nat
  BY DEF TypeOK, Rows, Run
<1>3. /\ rows \in Rows
      /\ rows.run.tokens = session.run.tokens
      /\ rows.run.status = session.run.status
      /\ rows.costs = session.costs
      /\ session.run.stepCount = Len(session.steps) => rows.run.stepCount = Len(rows.steps)
  BY <1>1, <1>2, RecordedFields, RecordedCounts
<1> HIDE DEF rows
<1>4. UNCHANGED <<tokens, db, answered>>
  BY DEF ToolAnswered
<1>5. CASE LastCall
  <2>1. EnterLoop(rows, step + 1)
    BY <1>5 DEF ToolAnswered, rows
  <2> QED BY <2>1, <1>2, <1>3, <1>4, EnterLoopMoves DEF Works, SameLedger, Ends
<1>6. CASE ~LastCall
  <2>1. session' = rows /\ UNCHANGED <<pc, step, reply>>
    BY <1>6 DEF ToolAnswered, rows
  <2> QED BY <2>1, <1>3, <1>4 DEF Works, SameLedger
<1> QED BY <1>5, <1>6

(* rows are the session with one more answered model call. *)
AnsweredBy(rows, used) ==
    /\ rows \in Rows
    /\ rows.costs = Append(session.costs, used)
    /\ rows.run.tokens = session.run.tokens + used
    /\ rows.run.status = session.run.status
    /\ session.run.stepCount = Len(session.steps) => rows.run.stepCount = Len(rows.steps)

LEMMA AnsweredRowsCount ==
    ASSUME TypeOK, NEW used \in Nat
    PROVE  AnsweredBy(AnsweredRows(used), used)
<1>1. LlmStep(TRUE, used) \in Step /\ session.steps \in Seq(Step)
  BY DEF LlmStep, Step, TypeOK, Rows
<1>2. Len(Append(session.steps, LlmStep(TRUE, used))) = Len(session.steps) + 1
  BY <1>1
<1> QED BY <1>2, AnsweredRowsFields DEF AnsweredBy

LEMMA LoseMoves == ASSUME Lose, pc # "done" PROVE Leaves
BY DEF Lose, Leaves, NoReply, RunStatus

LEMMA StepMoves == ASSUME TypeOK, [Next]_vars PROVE Moves
<1>0. attempt \in Nat /\ ToolAttempts \in Nat /\ session \in Rows
  BY RuntimeAssumption DEF TypeOK
<1>1. CASE UnknownTenant
  BY <1>1 DEF UnknownTenant, NoReply, RunStatus, Moves, Leaves
<1>2. CASE BudgetExhausted
  <2>1. session' = Audited(session, 1, "budget_hard_stop") /\ "budget_hard_stop" \in AuditAction
    BY <1>2 DEF BudgetExhausted, AuditAction
  <2>2. session'.run = session.run /\ session'.steps = session.steps
        /\ session'.costs = session.costs
    <3>1. "budget_hard_stop" \in AuditAction /\ 1 \in Nat
      BY DEF AuditAction
    <3> QED BY <1>0, <2>1, <3>1, AuditedFields, SMTT(20)
  <2>3. Commits
    BY <1>2, <2>2 DEF BudgetExhausted, Commits, NoReply, RunStatus
  <2> QED BY <2>3 DEF Moves
<1>3. CASE StartRun
  <2>1. session' = [session EXCEPT !.run.status = "running"]
    BY <1>3 DEF StartRun
  <2>2. /\ session'.run.status = "running" /\ session'.run.tokens = session.run.tokens
        /\ session'.run.stepCount = session.run.stepCount
        /\ session'.steps = session.steps /\ session'.costs = session.costs
    BY <1>0, <2>1 DEF Rows, Run
  <2>3. Begins
    BY <1>3, <2>2 DEF StartRun, Begins, SameLedger
  <2> QED BY <2>3 DEF Moves
<1>4. CASE ScreenRequest
  <2>1. PICK hits \in 0..2, allowed \in BOOLEAN :
          LET rows == Audited(session, hits, "guardrail_request")
          IN  IF allowed
              THEN /\ messages' = <<[role |-> "system", n |-> 0], [role |-> "user", n |-> 0]>>
                   /\ EnterLoop(rows, 0)
              ELSE /\ Finish(rows, "blocked_by_guardrail", 0, 0)
                   /\ UNCHANGED <<messages, step>>
    BY <1>4 DEF ScreenRequest
  <2> DEFINE rows == Audited(session, hits, "guardrail_request")
  <2>2. rows \in Rows /\ rows.run = session.run /\ rows.steps = session.steps
        /\ rows.costs = session.costs
    BY <1>0, AuditedFields DEF AuditAction
  <2> HIDE DEF rows
  <2>3. pc = "screen" /\ UNCHANGED <<tokens, db, answered>>
    BY <1>4 DEF ScreenRequest
  <2>4. CASE allowed
    <3>1. EnterLoop(rows, 0)
      BY <2>1, <2>4 DEF rows
    <3>2. Works
      BY <3>1, <2>2, <2>3, EnterLoopMoves DEF Works, SameLedger, Ends
    <3> QED BY <3>2 DEF Moves
  <2>5. CASE ~allowed
    <3>1. Finish(rows, "blocked_by_guardrail", 0, 0) /\ "blocked_by_guardrail" \in RunStatus
      BY <2>1, <2>5 DEF rows, RunStatus
    <3> QED BY <3>1, <2>2, <2>3, FinishMoves DEF Moves, Works, SameLedger, Ends
  <2> QED BY <2>4, <2>5
<1>5. CASE ModelFails
  <2> DEFINE row == LlmStep(FALSE, 0)
             rows == Recorded(session, row)
  <2>1. row \in Step /\ row.tokens = 0
    BY DEF LlmStep, Step, TypeOK
  <2>2. session.run.tokens \in Nat
    BY <1>0 DEF Rows, Run
  <2>3. /\ pc = "calling" /\ UNCHANGED <<tokens, db, answered>>
        /\ Finish(rows, "failed", step + 1, tokens)
    BY <1>5 DEF ModelFails
  <2> HIDE DEF row
  <2>4. /\ rows \in Rows
        /\ rows.run.tokens = session.run.tokens + 0
        /\ rows.costs = session.costs
        /\ session.run.stepCount = Len(session.steps) => rows.run.stepCount = Len(rows.steps)
        /\ "failed" \in RunStatus /\ step + 1 \in Int
    BY <1>0, <2>1, RecordedFields, RecordedCounts DEF RunStatus, TypeOK
  <2> HIDE DEF rows
  <2>5. GivesUp
    BY <2>2, <2>3, <2>4, FinishMoves DEF GivesUp, SameLedger, Ends
  <2> QED BY <2>5 DEF Moves
<1>6. CASE AnswerOverBudget
  <2>1. PICK used \in Usage :
          /\ Count(used)
          /\ OverBudget(used)
          /\ Finish(AnsweredRows(used), "budget_exceeded", step + 1, tokens')
          /\ UNCHANGED <<step, messages, pending, attempt, db>>
    BY <1>6 DEF AnswerOverBudget
  <2> DEFINE rows == AnsweredRows(used)
  <2>2. used \in Nat /\ "budget_exceeded" \in RunStatus /\ step + 1 \in Int
    BY RuntimeAssumption DEF RunStatus, TypeOK
  <2>3. AnsweredBy(rows, used)
    BY <2>2, AnsweredRowsCount
  <2> HIDE DEF rows
  <2>4. Finish(rows, "budget_exceeded", step + 1, tokens')
    BY <2>1 DEF rows
  <2>5. Answers(used)
    BY <2>1, <2>2, <2>3, <2>4, FinishMoves DEF Answers, AnsweredBy, Ends, Count, OverBudget
  <2> QED BY <2>2, <2>5 DEF Moves
<1>7. CASE AnswerFinal
  <2>1. PICK used \in Usage, hits \in 0..1, allowed \in BOOLEAN :
          /\ Count(used)
          /\ ~OverBudget(used)
          /\ Finish(Audited(AnsweredRows(used), hits, "guardrail_response"),
                    IF allowed THEN "completed" ELSE "blocked_by_guardrail",
                    step + 1, tokens')
          /\ UNCHANGED <<step, pending, attempt, db>>
    BY <1>7 DEF AnswerFinal
  <2> DEFINE rows == Audited(AnsweredRows(used), hits, "guardrail_response")
             status == IF allowed THEN "completed" ELSE "blocked_by_guardrail"
  <2>2. used \in Nat /\ status \in RunStatus /\ step + 1 \in Int
    BY RuntimeAssumption DEF RunStatus, TypeOK
  <2>3. AnsweredBy(rows, used)
    <3>1. AnsweredBy(AnsweredRows(used), used)
      BY <2>2, AnsweredRowsCount
    <3>2. "guardrail_response" \in AuditAction /\ hits \in Nat
      BY DEF AuditAction
    <3> QED BY <3>1, <3>2, AuditedFields DEF AnsweredBy
  <2>4. status \in {"completed", "blocked_by_guardrail"}
    OBVIOUS
  <2> HIDE DEF rows, status
  <2>5. Finish(rows, status, step + 1, tokens')
    BY <2>1 DEF rows, status
  <2>6. tokens' <= TokenBudget
    BY <2>1, <2>2, RuntimeAssumption DEF Count, OverBudget, TypeOK
  <2>7. Answers(used)
    BY <2>1, <2>2, <2>3, <2>4, <2>5, <2>6, FinishMoves DEF Answers, AnsweredBy, Ends, Count
  <2> QED BY <2>2, <2>7 DEF Moves
<1>8. CASE AnswerWithTools
  <2>1. PICK used \in Usage :
          /\ Count(used)
          /\ ~OverBudget(used)
          /\ pc' = "tool"
          /\ session' = AnsweredRows(used)
          /\ UNCHANGED <<step, attempt, db, reply>>
    BY <1>8 DEF AnswerWithTools
  <2>2. used \in Nat
    BY RuntimeAssumption
  <2>3. AnsweredBy(session', used)
    BY <2>1, <2>2, AnsweredRowsCount
  <2>4. tokens' <= TokenBudget
    BY <2>1, <2>2, RuntimeAssumption DEF Count, OverBudget, TypeOK
  <2>5. Answers(used)
    BY <2>1, <2>3, <2>4 DEF Answers, AnsweredBy, Count
  <2> QED BY <2>2, <2>5 DEF Moves
<1>9. CASE ToolNotRun
  BY <1>9, ToolAnsweredMoves DEF ToolNotRun, RunningTool, Moves
<1>10. CASE ToolReturns
  BY <1>0, <1>10, ToolAnsweredMoves DEF ToolReturns, RunningTool, Moves
<1>11. CASE ToolRejects
  BY <1>0, <1>11, ToolAnsweredMoves DEF ToolRejects, RunningTool, Moves
<1>12. CASE ToolFails
  <2>1. CASE NextAttempt < ToolAttempts
    BY <1>12, <2>1 DEF ToolFails, Idles, Moves
  <2>2. CASE ~(NextAttempt < ToolAttempts)
    BY <1>0, <1>12, <2>2, ToolAnsweredMoves DEF ToolFails, RunningTool, Moves
  <2> QED BY <2>1, <2>2
<1>13. CASE SqlFails
  BY <1>0, <1>13, LoseMoves, ToolAnsweredMoves DEF SqlFails, RunningTool, Moves
<1>14. CASE SqlTimesOut
  BY <1>14, LoseMoves DEF SqlTimesOut, RunningTool, Moves
<1>15. CASE Commit
  <2>1. session' = Audited(session, 1, "agent_run") /\ "agent_run" \in AuditAction
    BY <1>15 DEF Commit, AuditAction
  <2>2. /\ session'.run = session.run /\ session'.steps = session.steps
        /\ session'.costs = session.costs /\ session'.audit # <<>>
        /\ session'.audit[Len(session'.audit)] = "agent_run"
    <3>1. "agent_run" \in AuditAction /\ 1 \in Nat
      BY DEF AuditAction
    <3> QED BY <1>0, <2>1, <3>1, AuditedFields, SMTT(20)
  <2>3. Commits
    BY <1>15, <2>2 DEF Commit, Commits
  <2> QED BY <2>3 DEF Moves
<1>16. CASE Respond
  BY <1>16 DEF Respond, Leaves, Moves
<1>17. CASE RequestLost
  BY <1>17, LoseMoves DEF RequestLost, Moves
<1>18. CASE Done \/ UNCHANGED vars
  BY <1>18 DEF Done, vars, Idles, Moves
<1> QED
  BY <1>1, <1>2, <1>3, <1>4, <1>5, <1>6, <1>7, <1>8, <1>9, <1>10, <1>11, <1>12,
     <1>13, <1>14, <1>15, <1>16, <1>17, <1>18
  DEF Next, Progress

-----------------------------------------------------------------------------
(* The ledger, the commit and the reply.                                   *)

(* Where the handler is tells what the run looks like.  The commit copies  *)
(* the session, so that what holds of the session at the end of the loop   *)
(* holds of the database from then on.                                     *)
Phases ==
    /\ pc \in {"budget", "screen"} => tokens = 0 /\ answered = <<>>
    /\ pc = "budget" =>
          session.run.status = "none" /\ session.steps = <<>> /\ session.costs = <<>>
    /\ pc \in {"screen", "calling", "tool"} => session.run.status = "running"
    /\ pc = "finished" =>
          /\ session.run.status \in RunStatus
          /\ reply.status = session.run.status
          /\ reply.tokens = tokens
    /\ pc \in {"budget", "screen", "calling", "tool", "finished"} => db.run.status = "none"
    /\ pc \in {"committed", "done"} /\ reply.status \in RunStatus =>
          db.run.status = reply.status /\ reply.tokens = tokens

RunInv == TypeOK /\ Phases /\ LedgerComplete /\ AllOrNothing

LEMMA RunInvInit == Init => RunInv
BY TypeInit DEF Init, RunInv, Phases, LedgerComplete, LedgerOf, AllOrNothing, NoRows,
                NoReply, RunStatus

LEMMA PhasesStep == ASSUME RunInv, [Next]_vars PROVE Phases'
<1>0. Phases /\ LedgerComplete /\ AllOrNothing
  BY DEF RunInv
<1>1. Moves
  BY StepMoves DEF RunInv
<1>2. CASE Begins
  BY <1>0, <1>2 DEF Phases, Begins, SameLedger
<1>3. CASE Works
  BY <1>0, <1>3 DEF Phases, Works, SameLedger, Ends, RunStatus
<1>4. CASE GivesUp
  BY <1>0, <1>4 DEF Phases, GivesUp, SameLedger, Ends, RunStatus
<1>5. ASSUME NEW used \in Nat, Answers(used) PROVE Phases'
  BY <1>0, <1>5 DEF Phases, Answers, Ends, RunStatus
<1>6. CASE Commits
  BY <1>0, <1>6 DEF Phases, Commits, RunStatus
<1>7. CASE Leaves
  BY <1>0, <1>7 DEF Phases, Leaves
<1>8. CASE Idles
  BY <1>0, <1>8 DEF Phases, Idles
<1> QED BY <1>1, <1>2, <1>3, <1>4, <1>5, <1>6, <1>7, <1>8 DEF Moves

LEMMA LedgerStep == ASSUME RunInv, [Next]_vars PROVE LedgerComplete'
<1>0. Phases /\ LedgerComplete /\ AllOrNothing
  BY DEF RunInv
<1>1. Moves
  BY StepMoves DEF RunInv
<1>2. CASE Begins
  BY <1>0, <1>2 DEF Phases, LedgerComplete, LedgerOf, Begins, SameLedger
<1>3. CASE Works
  BY <1>0, <1>3 DEF Phases, LedgerComplete, LedgerOf, Works, SameLedger, Ends
<1>4. CASE GivesUp
  BY <1>0, <1>4 DEF Phases, LedgerComplete, LedgerOf, GivesUp, SameLedger, Ends
<1>5. ASSUME NEW used \in Nat, Answers(used) PROVE LedgerComplete'
  BY <1>0, <1>5 DEF Phases, LedgerComplete, LedgerOf, Answers, Ends
<1>6. CASE Commits
  BY <1>0, <1>6 DEF Phases, LedgerComplete, LedgerOf, Commits
<1>7. CASE Leaves
  BY <1>0, <1>7 DEF LedgerComplete, LedgerOf, Leaves
<1>8. CASE Idles
  BY <1>0, <1>8 DEF LedgerComplete, LedgerOf, Idles
<1> QED BY <1>1, <1>2, <1>3, <1>4, <1>5, <1>6, <1>7, <1>8 DEF Moves

LEMMA AllOrNothingStep == ASSUME RunInv, [Next]_vars PROVE AllOrNothing'
<1>0. Phases /\ AllOrNothing
  BY DEF RunInv
<1>1. Moves
  BY StepMoves DEF RunInv
<1>2. CASE db' = db
  BY <1>0, <1>2 DEF AllOrNothing
<1>3. CASE Commits
  BY <1>0, <1>3 DEF Phases, AllOrNothing, Commits, RunStatus
<1> QED BY <1>1, <1>2, <1>3 DEF Moves, Begins, Works, GivesUp, Answers, Leaves, Idles

LEMMA RunInvAlways == Spec => []RunInv
<1>1. ASSUME RunInv, [Next]_vars PROVE RunInv'
  BY <1>1, TypeStep, PhasesStep, LedgerStep, AllOrNothingStep DEF RunInv
<1> QED BY <1>1, RunInvInit, PTL DEF Spec

(* Every answer is paid for once and counted once, in the session and in   *)
(* whatever is committed (record_step and CostTracker.record together).    *)
THEOREM LedgerAlwaysComplete == Spec => []LedgerComplete
BY RunInvAlways, PTL DEF RunInv

(* Wherever the request dies, the database holds the finished run with its *)
(* closing audit entry or nothing of it (the single commit of run_agent).  *)
THEOREM CommittedWholeOrNotAtAll == Spec => []AllOrNothing
BY RunInvAlways, PTL DEF RunInv

(* The client is never told of a run the database does not hold so.        *)
THEOREM ReplyAlwaysMatchesRecord == Spec => []ReplyMatchesRecord
<1>1. RunInv => ReplyMatchesRecord
  BY DEF RunInv, Phases, LedgerComplete, LedgerOf, ReplyMatchesRecord, RunStatus
<1> QED BY <1>1, RunInvAlways, PTL

-----------------------------------------------------------------------------
(* The token budget and the step limit.                                    *)

(* The loop variable counts the answers; the last answer alone can take    *)
(* the run over its budget, and then the run is over.                      *)
Spending ==
    /\ pc = "calling" => Len(answered) = step /\ step < MaxSteps
    /\ pc = "tool" => Len(answered) = step + 1 /\ step < MaxSteps
    /\ pc = "finished" =>
          (session.run.status = "budget_exceeded" <=> answered # <<>> /\ tokens > TokenBudget)

SpendingInv == RunInv /\ Spending /\ SpendingBounded

LEMMA SpendingStep ==
    ASSUME SpendingInv, RunInv', [Next]_vars PROVE Spending' /\ SpendingBounded'
<1>0. /\ Phases /\ Spending /\ SpendingBounded /\ AllOrNothing
      /\ tokens \in Nat /\ answered \in Seq(Nat) /\ step \in Nat /\ step' \in Nat
      /\ TokenBudget \in Int /\ MaxSteps \in Int
  BY RuntimeAssumption DEF SpendingInv, RunInv, TypeOK
<1>1. Moves
  BY StepMoves DEF SpendingInv, RunInv
<1>2. CASE Begins
  BY <1>0, <1>2 DEF Phases, Spending, SpendingBounded, Begins, SameLedger
<1>3. CASE Works
  <2>1. UNCHANGED <<tokens, answered, db>> /\ db.run.status = "none"
    BY <1>0, <1>3 DEF Phases, Works, SameLedger
  <2>2. pc = "screen" => answered = <<>> /\ Len(answered) = 0
    BY <1>0, <1>3 DEF Phases
  <2>3. pc = "tool" => tokens <= TokenBudget /\ Len(answered) = step + 1 /\ step < MaxSteps
    BY <1>0 DEF Spending, SpendingBounded
  <2>4. pc = "screen" \/ pc = "tool"
    BY <1>3 DEF Works
  <2>5. SpendingBounded'
    BY <1>0, <1>3, <2>1, <2>2, <2>3, <2>4 DEF SpendingBounded, Works, Ends
  <2>6. Spending'
    <3>1. CASE pc' = "calling"
      <4>1. step' = IF pc = "screen" THEN 0 ELSE step + 1
        BY <1>3, <3>1 DEF Works, Ends
      <4>2. step' < MaxSteps
        BY <1>3, <3>1 DEF Works, Ends
      <4> QED BY <1>0, <2>1, <2>2, <2>3, <2>4, <3>1, <4>1, <4>2 DEF Spending
    <3>2. CASE pc' = "tool"
      <4>1. pc = "tool" /\ step' = step
        BY <1>3, <3>2 DEF Works, Ends
      <4> QED BY <2>1, <2>3, <3>2, <4>1 DEF Spending
    <3>3. CASE pc' = "finished"
      <4>1. session'.run.status # "budget_exceeded"
        BY <1>3, <3>3 DEF Works, Ends
      <4>2. ~(answered # <<>> /\ tokens > TokenBudget)
        BY <1>0, <2>2, <2>3, <2>4
      <4> QED BY <2>1, <3>3, <4>1, <4>2 DEF Spending
    <3> QED BY <1>3, <3>1, <3>2, <3>3 DEF Works, Ends
  <2> QED BY <2>5, <2>6
<1>4. CASE GivesUp
  BY <1>0, <1>4 DEF Phases, Spending, SpendingBounded, GivesUp, SameLedger, Ends
<1>5. ASSUME NEW used \in Nat, Answers(used) PROVE Spending' /\ SpendingBounded'
  <2>1. /\ Len(answered') = Len(answered) + 1 /\ answered' # <<>>
        /\ answered'[Len(answered')] = used /\ tokens' - used = tokens
    BY <1>0, <1>5, SMTT(30) DEF Answers
  <2>2. Len(answered) > 0 => answered # <<>>
    BY <1>0
  <2>3. db' = db /\ db.run.status = "none" /\ Len(answered) = step /\ step < MaxSteps
        /\ pc = "calling"
    BY <1>0, <1>5 DEF Answers, Phases, Spending
  <2>4. \/ pc' = "finished" /\ session'.run.status = "budget_exceeded" /\ tokens' > TokenBudget
        \/ pc' = "finished" /\ session'.run.status # "budget_exceeded" /\ tokens' <= TokenBudget
        \/ pc' = "tool" /\ tokens' <= TokenBudget /\ step' = step
    BY <1>5 DEF Answers, Ends
  <2>5. tokens' \in Nat
    BY <1>0, <1>5 DEF Answers
  <2>6. Spending'
    <3>1. CASE pc' = "finished"
      BY <2>1, <2>4, <2>5, <3>1, RuntimeAssumption DEF Spending
    <3>2. CASE pc' = "tool"
      BY <2>1, <2>3, <2>4, <3>2 DEF Spending
    <3> QED BY <2>4, <3>1, <3>2
  <2>7. Len(answered') > 1 => tokens' - answered'[Len(answered')] <= TokenBudget
    BY <1>0, <2>1, <2>2, <2>3 DEF SpendingBounded
  <2>8. Len(answered') <= MaxSteps
    BY <1>0, <2>1, <2>3
  <2>9. pc' = "tool" \/ (pc' = "calling" /\ answered' # <<>>) => tokens' <= TokenBudget
    BY <2>4
  <2> QED BY <2>3, <2>6, <2>7, <2>8, <2>9 DEF SpendingBounded
<1>6. CASE Commits
  BY <1>0, <1>6 DEF Phases, Spending, SpendingBounded, Commits
<1>7. CASE Leaves
  BY <1>0, <1>7 DEF Spending, SpendingBounded, Leaves
<1>8. CASE Idles
  BY <1>0, <1>8 DEF Spending, SpendingBounded, Idles
<1> QED BY <1>1, <1>2, <1>3, <1>4, <1>5, <1>6, <1>7, <1>8 DEF Moves

(* For every budget and limit, negative ones included: past the first      *)
(* answer nothing is asked over the budget, the overshoot is one answer,   *)
(* and no run has more answers than max_steps.                             *)
THEOREM SpendingAlwaysBounded == Spec => []SpendingBounded
<1>1. Init => Spending /\ SpendingBounded
  BY DEF Init, Spending, SpendingBounded, NoRows
<1>2. ASSUME SpendingInv, RunInv', [Next]_vars PROVE SpendingInv'
  BY <1>2, SpendingStep DEF SpendingInv
<1>3. SpendingInv => SpendingBounded
  BY DEF SpendingInv
<1>4. RunInv /\ Spending /\ SpendingBounded => SpendingInv
  BY DEF SpendingInv
<1> QED BY <1>1, <1>2, <1>3, <1>4, RunInvAlways, PTL DEF Spec

-----------------------------------------------------------------------------
(* The conversation.                                                       *)

(* next may follow message. *)
Follows(message, next) ==
    IF OpenCalls(message) > 0
    THEN next = [role |-> "tool", n |-> OpenCalls(message)]
    ELSE next.role # "tool"

(* The invariant says, in mid-turn, which calls are still open: those the  *)
(* handler has pending.                                                    *)
Conversation ==
    /\ \A i \in 1..(Len(messages) - 1) : Follows(messages[i], messages[i + 1])
    /\ pc \in {"budget", "screen"} => messages = <<>>
    /\ pc = "calling" => messages # <<>> /\ OpenCalls(messages[Len(messages)]) = 0
    /\ pc = "tool" => messages # <<>> /\ OpenCalls(messages[Len(messages)]) = Len(pending)

LEMMA OpenCallsFacts ==
    /\ \A n \in Nat : OpenCalls([role |-> "assistant", n |-> n]) = n
    /\ \A n \in Nat : OpenCalls([role |-> "tool", n |-> n]) = n - 1
    /\ OpenCalls([role |-> "user", n |-> 0]) = 0
    /\ OpenCalls([role |-> "system", n |-> 0]) = 0
BY DEF OpenCalls

(* A message that may follow the last one keeps the conversation in order. *)
LEMMA AppendFollows ==
    ASSUME TypeOK, Conversation, NEW message \in Message, messages # <<>>,
           Follows(messages[Len(messages)], message),
           messages' = Append(messages, message)
    PROVE  /\ \A i \in 1..(Len(messages') - 1) : Follows(messages'[i], messages'[i + 1])
           /\ messages' # <<>>
           /\ messages'[Len(messages')] = message
<1>1. messages \in Seq(Message) /\ Len(messages) \in Nat \ {0}
  BY DEF TypeOK
<1>2. /\ Len(messages') = Len(messages) + 1
      /\ \A i \in 1..Len(messages) : messages'[i] = messages[i]
      /\ messages'[Len(messages) + 1] = message
  BY <1>1
<1>3. messages' # <<>>
  BY <1>1
<1>4. ASSUME NEW i \in 1..Len(messages)
      PROVE  Follows(messages'[i], messages'[i + 1])
  <2>1. CASE i < Len(messages)
    <3>1. i \in 1..(Len(messages) - 1) /\ i + 1 \in 1..Len(messages)
      BY <1>1, <2>1
    <3> QED BY <1>2, <3>1 DEF Conversation
  <2>2. CASE i = Len(messages)
    BY <1>1, <1>2, <2>2
  <2> QED BY <1>1, <2>1, <2>2
<1> QED BY <1>1, <1>2, <1>3, <1>4

LEMMA ToolAnsweredConversation ==
    ASSUME TypeOK, Conversation, pc = "tool", NEW ok, NEW retries, ToolAnswered(ok, retries)
    PROVE  Conversation'
<1>1. pending \in Seq(ToolKind) /\ Len(pending) \in Nat \ {0}
  BY DEF TypeOK
<1>2. messages # <<>> /\ OpenCalls(messages[Len(messages)]) = Len(pending)
  BY DEF Conversation
<1>3. messages' = Append(messages, ToolMessage) /\ pending' = Tail(pending)
  BY DEF ToolAnswered
<1>4. ToolMessage \in Message /\ ToolMessage = [role |-> "tool", n |-> Len(pending)]
  BY <1>1 DEF ToolMessage, Message
<1>5. Follows(messages[Len(messages)], ToolMessage)
  BY <1>1, <1>2, <1>4 DEF Follows
<1>6. /\ \A i \in 1..(Len(messages') - 1) : Follows(messages'[i], messages'[i + 1])
      /\ messages' # <<>> /\ messages'[Len(messages')] = ToolMessage
  BY <1>2, <1>3, <1>4, <1>5, AppendFollows
<1>7. OpenCalls(messages'[Len(messages')]) = Len(pending) - 1
  BY <1>1, <1>4, <1>6, OpenCallsFacts
<1>8. Len(pending') = Len(pending) - 1
  BY <1>1, <1>3
<1>9. CASE LastCall
  <2>1. pc' \in {"calling", "finished"}
    BY <1>9 DEF ToolAnswered, EnterLoop, Finish
  <2>2. OpenCalls(messages'[Len(messages')]) = 0
    BY <1>7, <1>9 DEF LastCall
  <2> QED BY <1>6, <2>1, <2>2 DEF Conversation
<1>10. CASE ~LastCall
  <2>1. pc' = "tool"
    BY <1>10 DEF ToolAnswered
  <2> QED BY <1>6, <1>7, <1>8, <2>1 DEF Conversation
<1> QED BY <1>9, <1>10

LEMMA LoseConversation == ASSUME Conversation, Lose PROVE Conversation'
BY DEF Lose, Conversation

LEMMA ConversationStep == ASSUME TypeOK, Conversation, [Next]_vars PROVE Conversation'
<1>1. CASE UnknownTenant \/ BudgetExhausted \/ ModelFails \/ AnswerOverBudget
           \/ Commit \/ Respond
  BY <1>1 DEF UnknownTenant, BudgetExhausted, ModelFails, AnswerOverBudget, Commit, Respond,
              Count, Finish, Conversation
<1>2. CASE StartRun
  BY <1>2 DEF StartRun, Conversation
<1>3. CASE ScreenRequest
  <2>1. \/ /\ messages' = <<[role |-> "system", n |-> 0], [role |-> "user", n |-> 0]>>
           /\ pc' \in {"calling", "finished"}
        \/ messages' = <<>> /\ pc' = "finished"
    BY <1>3 DEF ScreenRequest, EnterLoop, Finish, Conversation
  <2>2. CASE messages' = <<>> /\ pc' = "finished"
    BY <2>2 DEF Conversation
  <2>3. CASE /\ messages' = <<[role |-> "system", n |-> 0], [role |-> "user", n |-> 0]>>
             /\ pc' \in {"calling", "finished"}
    <3>1. /\ Len(messages') = 2
          /\ messages'[1] = [role |-> "system", n |-> 0]
          /\ messages'[2] = [role |-> "user", n |-> 0]
      BY <2>3
    <3>2. Follows(messages'[1], messages'[2]) /\ OpenCalls(messages'[2]) = 0
      BY <3>1, OpenCallsFacts DEF Follows
    <3> QED BY <2>3, <3>1, <3>2 DEF Conversation
  <2> QED BY <2>1, <2>2, <2>3
<1>4. CASE AnswerFinal
  <2>1. /\ pc = "calling" /\ pc' = "finished"
        /\ messages' = Append(messages, [role |-> "assistant", n |-> 0])
    BY <1>4 DEF AnswerFinal, Count, Finish, Assistant
  <2>2. messages # <<>> /\ OpenCalls(messages[Len(messages)]) = 0
    BY <2>1 DEF Conversation
  <2>3. Follows(messages[Len(messages)], [role |-> "assistant", n |-> 0])
    BY <2>2 DEF Follows
  <2>4. [role |-> "assistant", n |-> 0] \in Message
    BY DEF Message
  <2> QED BY <2>1, <2>2, <2>3, <2>4, AppendFollows DEF Conversation
<1>5. CASE AnswerWithTools
  <2>1. PICK calls \in Replies :
          /\ messages' = Append(messages, Assistant(calls))
          /\ pending' = calls
    BY <1>5 DEF AnswerWithTools
  <2>2. pc = "calling" /\ pc' = "tool"
    BY <1>5 DEF AnswerWithTools, Count
  <2>3. Len(calls) \in Nat
    BY RuntimeAssumption
  <2>4. messages # <<>> /\ OpenCalls(messages[Len(messages)]) = 0
    BY <2>2 DEF Conversation
  <2>5. Follows(messages[Len(messages)], Assistant(calls)) /\ Assistant(calls) \in Message
    BY <2>3, <2>4 DEF Follows, Assistant, Message
  <2>6. OpenCalls(Assistant(calls)) = Len(calls)
    BY <2>3, OpenCallsFacts DEF Assistant
  <2> QED BY <2>1, <2>2, <2>4, <2>5, <2>6, AppendFollows DEF Conversation
<1>6. CASE ToolNotRun \/ ToolReturns \/ ToolRejects
  BY <1>6, ToolAnsweredConversation DEF ToolNotRun, ToolReturns, ToolRejects, RunningTool
<1>7. CASE ToolFails
  <2>1. CASE NextAttempt < ToolAttempts
    BY <1>7, <2>1 DEF ToolFails, Conversation
  <2>2. CASE ~(NextAttempt < ToolAttempts)
    BY <1>7, <2>2, ToolAnsweredConversation DEF ToolFails, RunningTool
  <2> QED BY <2>1, <2>2
<1>8. CASE SqlFails \/ SqlTimesOut \/ RequestLost
  BY <1>8, LoseConversation, ToolAnsweredConversation
     DEF SqlFails, SqlTimesOut, RequestLost, RunningTool
<1>9. CASE Done \/ UNCHANGED vars
  BY <1>9 DEF Done, vars, Conversation
<1> QED
  BY <1>1, <1>2, <1>3, <1>4, <1>5, <1>6, <1>7, <1>8, <1>9 DEF Next, Progress

(* Whatever lists of calls the model sends and whatever the tools answer,  *)
(* each call is answered once, in order, before the model is asked again.  *)
THEOREM ConversationAlwaysWellFormed == Spec => []ConversationWellFormed
<1>1. Init => Conversation
  BY DEF Init, Conversation
<1>2. ASSUME TypeOK, Conversation, [Next]_vars PROVE Conversation'
  BY <1>2, ConversationStep
<1>3. Conversation => ConversationWellFormed
  BY DEF Conversation, ConversationWellFormed, Follows
<1> QED BY <1>1, <1>2, <1>3, RunTypeCorrect, PTL DEF Spec

-----------------------------------------------------------------------------
(* The rows and messages that are picked out of a trace or a conversation, *)
(* when one is added to it.                                                *)

LEMMA PickedTypes ==
    ASSUME NEW steps \in Seq(Step), NEW k
    PROVE  /\ AnsweredCalls(steps) \in Seq(Step)
           /\ ModelCalls(steps) \in Seq(Step)
           /\ SameIndex(steps, k) \in Seq(Step)
BY WhereType DEF AnsweredCalls, ModelCalls, SameIndex

LEMMA PickedEmpty ==
    /\ AnsweredCalls(<<>>) = <<>>
    /\ ModelCalls(<<>>) = <<>>
    /\ Responses(<<>>) = <<>>
    /\ \A k : SameIndex(<<>>, k) = <<>>
BY WhereEmpty DEF AnsweredCalls, ModelCalls, SameIndex, Responses

LEMMA StepsAppend ==
    ASSUME NEW steps \in Seq(Step), NEW row \in Step
    PROVE  /\ AnsweredCalls(Append(steps, row))
                = IF row.type = "llm_call" /\ row.ok THEN Append(AnsweredCalls(steps), row)
                  ELSE AnsweredCalls(steps)
           /\ ModelCalls(Append(steps, row))
                = IF row.type = "llm_call" THEN Append(ModelCalls(steps), row)
                  ELSE ModelCalls(steps)
           /\ \A k : SameIndex(Append(steps, row), k)
                       = IF row.index = k THEN Append(SameIndex(steps, k), row)
                         ELSE SameIndex(steps, k)
BY WhereAppend DEF AnsweredCalls, ModelCalls, SameIndex

LEMMA ResponsesAppend ==
    ASSUME NEW conversation \in Seq(Message), NEW message \in Message
    PROVE  /\ Responses(conversation) \in Seq(Message)
           /\ Responses(Append(conversation, message))
                = IF message.role = "assistant" THEN Append(Responses(conversation), message)
                  ELSE Responses(conversation)
BY WhereAppend, WhereType DEF Responses

(* The conversation a run starts with holds no response. *)
Opening == <<[role |-> "system", n |-> 0], [role |-> "user", n |-> 0]>>

LEMMA OpeningResponses == Responses(Opening) = <<>>
<1> DEFINE one == [role |-> "system", n |-> 0]
           two == [role |-> "user", n |-> 0]
<1>1. one \in Message /\ two \in Message /\ one.role # "assistant" /\ two.role # "assistant"
  BY DEF Message
<1> HIDE DEF one, two
<1>2. <<>> \in Seq(Message) /\ <<one>> \in Seq(Message)
  BY <1>1
<1>3. <<one>> = Append(<<>>, one) /\ <<one, two>> = Append(<<one>>, two)
  OBVIOUS
<1>4. Responses(<<one>>) = <<>>
  BY <1>1, <1>2, <1>3, ResponsesAppend, PickedEmpty
<1>5. Responses(<<one, two>>) = <<>>
  BY <1>1, <1>2, <1>3, <1>4, ResponsesAppend
<1> QED
  BY <1>5 DEF Opening, one, two

-----------------------------------------------------------------------------
(* The trace: what a step adds to it, and to the conversation beside it.   *)

SameTrace ==
    /\ session'.steps = session.steps
    /\ session'.costs = session.costs
    /\ session'.run.tokens = session.run.tokens

TraceRow(row) ==
    /\ row \in Step
    /\ session'.steps = Append(session.steps, row)

Prepares ==
    /\ pc \in {"budget", "screen"}
    /\ SameTrace
    /\ \/ /\ pc' \in {"screen", "calling", "finished"}
          /\ db' = db
          /\ pc' = "screen" => messages' = messages
          /\ pc' = "calling" => messages' = Opening /\ step' = 0 /\ 0 < MaxSteps
          /\ pc' = "finished" =>
                /\ messages' \in {messages, Opening}
                /\ reply'.stepCount = 0 \/ (reply'.stepCount = MaxSteps /\ MaxSteps <= 0)
       \/ /\ pc = "budget" /\ pc' = "committed"
          /\ session'.run.status = session.run.status
          /\ db' = session'
          /\ reply'.status \notin RunStatus

ModelIsSilent ==
    /\ pc = "calling" /\ pc' = "finished"
    /\ TraceRow(LlmStep(FALSE, 0))
    /\ session'.costs = session.costs
    /\ session'.run.tokens = session.run.tokens
    /\ reply'.stepCount = step + 1
    /\ UNCHANGED <<step, messages, db>>

ModelAnswers(used) ==
    /\ pc = "calling"
    /\ TraceRow(LlmStep(TRUE, used))
    /\ session'.costs = Append(session.costs, used)
    /\ session'.run.tokens = session.run.tokens + used
    /\ UNCHANGED <<step, db>>
    /\ \/ /\ pc' = "finished"
          /\ reply'.stepCount = step + 1
          /\ messages' \in {messages, Append(messages, [role |-> "assistant", n |-> 0])}
       \/ /\ pc' = "tool"
          /\ messages' = Append(messages, [role |-> "assistant", n |-> Len(pending')])

CallEnds(ok, retries) ==
    /\ pc = "tool"
    /\ TraceRow(ToolStep(ok, retries))
    /\ session'.costs = session.costs
    /\ session'.run.tokens = session.run.tokens
    /\ messages' = Append(messages, ToolMessage)
    /\ pending' = Tail(pending)
    /\ db' = db
    /\ \/ LastCall /\ pc' = "calling" /\ step' = step + 1 /\ step + 1 < MaxSteps
       \/ /\ LastCall /\ pc' = "finished" /\ step' = step
          /\ reply'.stepCount = MaxSteps /\ step + 1 >= MaxSteps
       \/ ~LastCall /\ pc' = "tool" /\ step' = step

Closes ==
    /\ pc = "finished" /\ pc' = "committed"
    /\ SameTrace
    /\ session'.run.status = session.run.status
    /\ db' = session'
    /\ UNCHANGED <<messages, reply>>

Departs ==
    /\ pc # "done" /\ pc' = "done"
    /\ session' \in {session, NoRows}
    /\ UNCHANGED <<messages, db>>
    /\ (reply' = reply /\ pc = "committed") \/ reply'.status \notin RunStatus

Pauses == UNCHANGED <<pc, step, messages, pending, session, db, reply>>

Traces ==
    \/ Prepares
    \/ ModelIsSilent
    \/ \E used \in Nat : ModelAnswers(used)
    \/ \E ok \in BOOLEAN, retries \in Nat : CallEnds(ok, retries)
    \/ Closes
    \/ Departs
    \/ Pauses

LEMMA ModelAnswersRows ==
    ASSUME TypeOK, NEW used \in Nat
    PROVE  /\ LlmStep(TRUE, used) \in Step
           /\ AnsweredRows(used) \in Rows
           /\ AnsweredRows(used).steps = Append(session.steps, LlmStep(TRUE, used))
           /\ AnsweredRows(used).run.tokens = session.run.tokens + used
           /\ AnsweredRows(used).costs = Append(session.costs, used)
<1>1. LlmStep(TRUE, used) \in Step
  BY DEF LlmStep, Step, TypeOK
<1> QED BY <1>1, AnsweredRowsFields

LEMMA ToolAnsweredTraces ==
    ASSUME TypeOK, pc = "tool", NEW ok \in BOOLEAN, NEW retries \in Nat,
           ToolAnswered(ok, retries)
    PROVE  Traces
<1> DEFINE row == ToolStep(ok, retries)
           rows == Recorded(session, row)
<1>1. row \in Step /\ row.tokens = 0
  BY DEF ToolStep, Step, TypeOK
<1>2. session \in Rows /\ session.run.tokens \in Nat /\ step + 1 \in Nat
  BY DEF TypeOK, Rows, Run
<1> HIDE DEF row
<1>3. /\ rows \in Rows
      /\ rows.run.tokens = session.run.tokens
      /\ rows.costs = session.costs
      /\ rows.steps = Append(session.steps, row)
  BY <1>1, <1>2, RecordedFields
<1> HIDE DEF rows
<1>4. /\ messages' = Append(messages, ToolMessage)
      /\ pending' = Tail(pending)
      /\ db' = db
  BY DEF ToolAnswered
<1>5. CASE LastCall
  <2>1. EnterLoop(rows, step + 1)
    BY <1>5 DEF ToolAnswered, rows, row
  <2>2. CallEnds(ok, retries)
    BY <2>1, <1>1, <1>2, <1>3, <1>4, <1>5, EnterLoopMoves DEF CallEnds, TraceRow, row
  <2> QED BY <2>2 DEF Traces
<1>6. CASE ~LastCall
  <2>1. session' = rows /\ UNCHANGED <<pc, step, reply>>
    BY <1>6 DEF ToolAnswered, rows, row
  <2>2. CallEnds(ok, retries)
    BY <2>1, <1>1, <1>3, <1>4, <1>6 DEF CallEnds, TraceRow, row
  <2> QED BY <2>2 DEF Traces
<1> QED BY <1>5, <1>6

LEMMA LoseTraces == ASSUME Lose, pc # "done" PROVE Traces
BY DEF Lose, Traces, Departs, NoReply, RunStatus

LEMMA StepTraces == ASSUME TypeOK, [Next]_vars PROVE Traces
<1>0. attempt \in Nat /\ ToolAttempts \in Nat /\ session \in Rows
  BY RuntimeAssumption DEF TypeOK
<1>1. CASE UnknownTenant
  BY <1>1 DEF UnknownTenant, NoReply, RunStatus, Traces, Departs
<1>2. CASE BudgetExhausted
  <2>1. session' = Audited(session, 1, "budget_hard_stop") /\ "budget_hard_stop" \in AuditAction
        /\ 1 \in Nat
    BY <1>2 DEF BudgetExhausted, AuditAction
  <2>2. session'.run = session.run /\ session'.steps = session.steps
        /\ session'.costs = session.costs
    BY <1>0, <2>1, AuditedFields, SMTT(20)
  <2>3. Prepares
    BY <1>2, <2>2 DEF BudgetExhausted, Prepares, SameTrace, NoReply, RunStatus
  <2> QED BY <2>3 DEF Traces
<1>3. CASE StartRun
  <2>1. session' = [session EXCEPT !.run.status = "running"]
    BY <1>3 DEF StartRun
  <2>2. /\ session'.run.tokens = session.run.tokens
        /\ session'.steps = session.steps /\ session'.costs = session.costs
    BY <1>0, <2>1 DEF Rows, Run
  <2>3. Prepares
    BY <1>3, <2>2 DEF StartRun, Prepares, SameTrace
  <2> QED BY <2>3 DEF Traces
<1>4. CASE ScreenRequest
  <2>1. PICK hits \in 0..2, allowed \in BOOLEAN :
          LET rows == Audited(session, hits, "guardrail_request")
          IN  IF allowed
              THEN /\ messages' = <<[role |-> "system", n |-> 0], [role |-> "user", n |-> 0]>>
                   /\ EnterLoop(rows, 0)
              ELSE /\ Finish(rows, "blocked_by_guardrail", 0, 0)
                   /\ UNCHANGED <<messages, step>>
    BY <1>4 DEF ScreenRequest
  <2> DEFINE rows == Audited(session, hits, "guardrail_request")
  <2>2. rows \in Rows /\ rows.run = session.run /\ rows.steps = session.steps
        /\ rows.costs = session.costs
    BY <1>0, AuditedFields DEF AuditAction
  <2> HIDE DEF rows
  <2>3. pc = "screen" /\ db' = db
    BY <1>4 DEF ScreenRequest
  <2>4. CASE allowed
    <3>1. EnterLoop(rows, 0) /\ messages' = Opening
      BY <2>1, <2>4 DEF rows, Opening
    <3>2. Prepares
      BY <3>1, <2>2, <2>3, EnterLoopMoves DEF Prepares, SameTrace
    <3> QED BY <3>2 DEF Traces
  <2>5. CASE ~allowed
    <3>1. /\ Finish(rows, "blocked_by_guardrail", 0, 0) /\ "blocked_by_guardrail" \in RunStatus
          /\ messages' = messages
      BY <2>1, <2>5 DEF rows, RunStatus
    <3>2. Prepares
      BY <3>1, <2>2, <2>3, FinishMoves DEF Prepares, SameTrace
    <3> QED BY <3>2 DEF Traces
  <2> QED BY <2>4, <2>5
<1>5. CASE ModelFails
  <2> DEFINE row == LlmStep(FALSE, 0)
             rows == Recorded(session, row)
  <2>1. row \in Step /\ row.tokens = 0
    BY DEF LlmStep, Step, TypeOK
  <2>2. session.run.tokens \in Nat
    BY <1>0 DEF Rows, Run
  <2>3. /\ pc = "calling" /\ UNCHANGED <<step, messages, db>>
        /\ Finish(rows, "failed", step + 1, tokens)
    BY <1>5 DEF ModelFails
  <2> HIDE DEF row
  <2>4. /\ rows \in Rows
        /\ rows.run.tokens = session.run.tokens
        /\ rows.costs = session.costs
        /\ rows.steps = Append(session.steps, row)
        /\ "failed" \in RunStatus /\ step + 1 \in Int
    BY <1>0, <2>1, <2>2, RecordedFields DEF RunStatus, TypeOK
  <2> HIDE DEF rows
  <2>5. ModelIsSilent
    BY <2>1, <2>3, <2>4, FinishMoves DEF ModelIsSilent, TraceRow, row
  <2> QED BY <2>5 DEF Traces
<1>6. CASE AnswerOverBudget
  <2>1. PICK used \in Usage :
          /\ Count(used)
          /\ Finish(AnsweredRows(used), "budget_exceeded", step + 1, tokens')
          /\ UNCHANGED <<step, messages, pending, attempt, db>>
    BY <1>6 DEF AnswerOverBudget
  <2>2. used \in Nat /\ "budget_exceeded" \in RunStatus /\ step + 1 \in Int
    BY RuntimeAssumption DEF RunStatus, TypeOK
  <2>3. /\ LlmStep(TRUE, used) \in Step /\ AnsweredRows(used) \in Rows
        /\ AnsweredRows(used).steps = Append(session.steps, LlmStep(TRUE, used))
        /\ AnsweredRows(used).run.tokens = session.run.tokens + used
        /\ AnsweredRows(used).costs = Append(session.costs, used)
    BY <2>2, ModelAnswersRows
  <2>4. /\ pc' = "finished" /\ reply'.stepCount = step + 1
        /\ session'.run.tokens = AnsweredRows(used).run.tokens
        /\ session'.steps = AnsweredRows(used).steps
        /\ session'.costs = AnsweredRows(used).costs
    BY <2>1, <2>2, <2>3, FinishMoves
  <2>5. ModelAnswers(used)
    BY <2>1, <2>3, <2>4 DEF ModelAnswers, TraceRow, Count
  <2> QED BY <2>2, <2>5 DEF Traces
<1>7. CASE AnswerFinal
  <2>1. PICK used \in Usage, hits \in 0..1, allowed \in BOOLEAN :
          /\ Count(used)
          /\ messages' = Append(messages, Assistant(<<>>))
          /\ Finish(Audited(AnsweredRows(used), hits, "guardrail_response"),
                    IF allowed THEN "completed" ELSE "blocked_by_guardrail",
                    step + 1, tokens')
          /\ UNCHANGED <<step, pending, attempt, db>>
    BY <1>7 DEF AnswerFinal
  <2> DEFINE rows == Audited(AnsweredRows(used), hits, "guardrail_response")
             status == IF allowed THEN "completed" ELSE "blocked_by_guardrail"
  <2>2. used \in Nat /\ status \in RunStatus /\ step + 1 \in Int
    BY RuntimeAssumption DEF RunStatus, TypeOK
  <2>3. /\ rows \in Rows
        /\ rows.run = AnsweredRows(used).run
        /\ rows.steps = AnsweredRows(used).steps
        /\ rows.costs = AnsweredRows(used).costs
    <3>1. AnsweredRows(used) \in Rows
      BY <2>2, ModelAnswersRows
    <3>2. "guardrail_response" \in AuditAction /\ hits \in Nat
      BY DEF AuditAction
    <3> QED BY <3>1, <3>2, AuditedFields
  <2>4. Assistant(<<>>) = [role |-> "assistant", n |-> 0]
    BY DEF Assistant
  <2> HIDE DEF rows, status
  <2>5. Finish(rows, status, step + 1, tokens')
    BY <2>1 DEF rows, status
  <2>6. /\ LlmStep(TRUE, used) \in Step
        /\ rows.steps = Append(session.steps, LlmStep(TRUE, used))
        /\ rows.run.tokens = session.run.tokens + used
        /\ rows.costs = Append(session.costs, used)
    BY <2>2, <2>3, ModelAnswersRows
  <2>7. /\ pc' = "finished" /\ reply'.stepCount = step + 1
        /\ session'.run.tokens = rows.run.tokens
        /\ session'.steps = rows.steps
        /\ session'.costs = rows.costs
    BY <2>2, <2>3, <2>5, FinishMoves
  <2>8. ModelAnswers(used)
    BY <2>1, <2>4, <2>6, <2>7 DEF ModelAnswers, TraceRow, Count
  <2> QED BY <2>2, <2>8 DEF Traces
<1>8. CASE AnswerWithTools
  <2>1. PICK used \in Usage, calls \in Replies \ {<<>>} :
          /\ Count(used)
          /\ messages' = Append(messages, Assistant(calls))
          /\ pending' = calls
          /\ pc' = "tool"
          /\ session' = AnsweredRows(used)
          /\ UNCHANGED <<step, attempt, db, reply>>
    BY <1>8 DEF AnswerWithTools
  <2>2. used \in Nat
    BY RuntimeAssumption
  <2>3. Assistant(calls) = [role |-> "assistant", n |-> Len(pending')]
    BY <2>1 DEF Assistant
  <2>4. ModelAnswers(used)
    BY <2>1, <2>2, <2>3, ModelAnswersRows DEF ModelAnswers, TraceRow, Count
  <2> QED BY <2>2, <2>4 DEF Traces
<1>9. CASE ToolNotRun
  BY <1>9, ToolAnsweredTraces DEF ToolNotRun, RunningTool
<1>10. CASE ToolReturns
  BY <1>0, <1>10, ToolAnsweredTraces DEF ToolReturns, RunningTool
<1>11. CASE ToolRejects
  BY <1>0, <1>11, ToolAnsweredTraces DEF ToolRejects, RunningTool
<1>12. CASE ToolFails
  <2>1. CASE NextAttempt < ToolAttempts
    BY <1>12, <2>1 DEF ToolFails, Pauses, Traces
  <2>2. CASE ~(NextAttempt < ToolAttempts)
    BY <1>0, <1>12, <2>2, ToolAnsweredTraces DEF ToolFails, RunningTool
  <2> QED BY <2>1, <2>2
<1>13. CASE SqlFails
  BY <1>0, <1>13, LoseTraces, ToolAnsweredTraces DEF SqlFails, RunningTool
<1>14. CASE SqlTimesOut
  BY <1>14, LoseTraces DEF SqlTimesOut, RunningTool
<1>15. CASE Commit
  <2>1. session' = Audited(session, 1, "agent_run") /\ "agent_run" \in AuditAction /\ 1 \in Nat
    BY <1>15 DEF Commit, AuditAction
  <2>2. /\ session'.run = session.run /\ session'.steps = session.steps
        /\ session'.costs = session.costs
    BY <1>0, <2>1, AuditedFields, SMTT(20)
  <2>3. Closes
    BY <1>15, <2>2 DEF Commit, Closes, SameTrace
  <2> QED BY <2>3 DEF Traces
<1>16. CASE Respond
  BY <1>16 DEF Respond, Departs, Traces
<1>17. CASE RequestLost
  BY <1>17, LoseTraces DEF RequestLost
<1>18. CASE Done \/ UNCHANGED vars
  BY <1>18 DEF Done, vars, Pauses, Traces
<1> QED
  BY <1>1, <1>2, <1>3, <1>4, <1>5, <1>6, <1>7, <1>8, <1>9, <1>10, <1>11, <1>12,
     <1>13, <1>14, <1>15, <1>16, <1>17, <1>18
  DEF Next, Progress

-----------------------------------------------------------------------------
(* The trace accounts for the money.                                       *)

AddsUp(steps, costs, total) ==
    LET calls == AnsweredCalls(steps)
    IN  /\ costs = [i \in DOMAIN calls |-> calls[i].tokens]
        /\ total = Sum(costs, DOMAIN costs)

LEMMA NothingAddsUp == AddsUp(<<>>, <<>>, 0)
<1>1. AnsweredCalls(<<>>) = <<>> /\ Sum(<<>>, {}) = 0
  BY PickedEmpty, SumEmpty
<1>2. DOMAIN <<>> = {} /\ <<>> = [i \in {} |-> <<>>[i].tokens]
  OBVIOUS
<1> QED
  BY <1>1, <1>2 DEF AddsUp

(* A row that is no answer changes nothing; an answer is paid for.         *)
LEMMA UnpaidRowAddsUp ==
    ASSUME NEW steps \in Seq(Step), NEW costs, NEW total, AddsUp(steps, costs, total),
           NEW row \in Step, ~(row.type = "llm_call" /\ row.ok)
    PROVE  AddsUp(Append(steps, row), costs, total)
<1>1. AnsweredCalls(Append(steps, row)) = AnsweredCalls(steps)
  BY StepsAppend
<1> QED
  BY <1>1 DEF AddsUp

LEMMA AnswerAddsUp ==
    ASSUME NEW steps \in Seq(Step), NEW costs \in Seq(Nat), NEW total \in Nat,
           AddsUp(steps, costs, total),
           NEW row \in Step, row.type = "llm_call", row.ok
    PROVE  AddsUp(Append(steps, row), Append(costs, row.tokens), total + row.tokens)
<1> DEFINE calls == AnsweredCalls(steps)
           more == Append(calls, row)
           paid == Append(costs, row.tokens)
<1>1. AnsweredCalls(Append(steps, row)) = more
  BY StepsAppend
<1>2. calls \in Seq(Step) /\ row.tokens \in Nat
  BY PickedTypes DEF Step
<1>3. costs = [i \in DOMAIN calls |-> calls[i].tokens] /\ total = Sum(costs, DOMAIN costs)
  BY DEF AddsUp
<1> HIDE DEF calls
<1>4. Len(calls) \in Nat /\ DOMAIN calls = 1 .. Len(calls) /\ Len(costs) = Len(calls)
  BY <1>2, <1>3
<1>5. /\ DOMAIN more = 1 .. (Len(calls) + 1) /\ more[Len(calls) + 1] = row
      /\ \A i \in 1 .. Len(calls) : more[i] = calls[i]
  BY <1>2
<1>6. /\ paid \in Seq(Nat) /\ DOMAIN paid = 1 .. (Len(calls) + 1)
      /\ paid[Len(calls) + 1] = row.tokens
      /\ \A i \in 1 .. Len(calls) : paid[i] = costs[i]
  BY <1>2, <1>4
<1>7. Sum(paid, DOMAIN paid) = total + row.tokens
  BY <1>2, <1>3, SumAppend
<1> HIDE DEF more, paid
<1>8. ASSUME NEW i \in DOMAIN more
      PROVE  paid[i] = more[i].tokens
  <2>1. CASE i = Len(calls) + 1
    BY <1>5, <1>6, <2>1
  <2>2. CASE i # Len(calls) + 1
    <3>1. i \in 1 .. Len(calls)
      BY <1>4, <1>5, <2>2
    <3>2. costs[i] = calls[i].tokens
      BY <1>3, <1>4, <3>1
    <3> QED
      BY <1>5, <1>6, <3>1, <3>2
  <2> QED
    BY <2>1, <2>2
<1>9. paid = [i \in DOMAIN more |-> more[i].tokens]
  BY <1>5, <1>6, <1>8
<1>10. AddsUp(Append(steps, row), paid, total + row.tokens)
  BY <1>1, <1>7, <1>9 DEF AddsUp
<1> QED
  BY <1>10 DEF paid

RowsAddUp(rows) == AddsUp(rows.steps, rows.costs, rows.run.tokens)

LEMMA AddsUpStep ==
    ASSUME TypeOK, RowsAddUp(session), RowsAddUp(db), [Next]_vars
    PROVE  RowsAddUp(session)' /\ RowsAddUp(db)'
<1>0. /\ session.steps \in Seq(Step) /\ session.costs \in Seq(Nat)
      /\ session.run.tokens \in Nat
  BY DEF TypeOK, Rows, Run
<1>1. Traces
  BY StepTraces
<1>2. SameTrace => RowsAddUp(session)'
  BY DEF SameTrace, RowsAddUp
<1>3. session' = session => RowsAddUp(session)'
  BY DEF RowsAddUp
<1>4. (db' = db => RowsAddUp(db)') /\ (db' = session' /\ RowsAddUp(session)' => RowsAddUp(db)')
  BY DEF RowsAddUp
<1>5. CASE Prepares
  BY <1>2, <1>4, <1>5 DEF Prepares
<1>6. CASE ModelIsSilent
  <2> DEFINE row == LlmStep(FALSE, 0)
  <2>1. row \in Step /\ ~row.ok /\ session'.steps = Append(session.steps, row)
    BY <1>6 DEF ModelIsSilent, TraceRow, LlmStep
  <2> HIDE DEF row
  <2>2. RowsAddUp(session)'
    BY <1>0, <1>6, <2>1, UnpaidRowAddsUp DEF ModelIsSilent, RowsAddUp
  <2> QED
    BY <1>4, <1>6, <2>2 DEF ModelIsSilent
<1>7. ASSUME NEW used \in Nat, ModelAnswers(used)
      PROVE  RowsAddUp(session)' /\ RowsAddUp(db)'
  <2> DEFINE row == LlmStep(TRUE, used)
  <2>1. /\ row \in Step /\ row.type = "llm_call" /\ row.ok /\ row.tokens = used
        /\ session'.steps = Append(session.steps, row)
    BY <1>7 DEF ModelAnswers, TraceRow, LlmStep
  <2> HIDE DEF row
  <2>2. RowsAddUp(session)'
    BY <1>0, <1>7, <2>1, AnswerAddsUp DEF ModelAnswers, RowsAddUp
  <2> QED
    BY <1>4, <1>7, <2>2 DEF ModelAnswers
<1>8. ASSUME NEW ok \in BOOLEAN, NEW retries \in Nat, CallEnds(ok, retries)
      PROVE  RowsAddUp(session)' /\ RowsAddUp(db)'
  <2> DEFINE row == ToolStep(ok, retries)
  <2>1. /\ row \in Step /\ row.type # "llm_call"
        /\ session'.steps = Append(session.steps, row)
    BY <1>8 DEF CallEnds, TraceRow, ToolStep
  <2> HIDE DEF row
  <2>2. RowsAddUp(session)'
    BY <1>0, <1>8, <2>1, UnpaidRowAddsUp DEF CallEnds, RowsAddUp
  <2> QED
    BY <1>4, <1>8, <2>2 DEF CallEnds
<1>9. CASE Closes
  BY <1>2, <1>4, <1>9 DEF Closes
<1>10. CASE Departs
  <2>1. RowsAddUp(NoRows)
    BY NothingAddsUp DEF RowsAddUp, NoRows
  <2>2. session' = NoRows => RowsAddUp(session)'
    BY <2>1 DEF RowsAddUp
  <2> QED
    BY <1>3, <1>4, <1>10, <2>2 DEF Departs
<1>11. CASE Pauses
  BY <1>3, <1>4, <1>11 DEF Pauses
<1> QED
  BY <1>1, <1>5, <1>6, <1>7, <1>8, <1>9, <1>10, <1>11 DEF Traces

(* The answered calls of the trace are the cost entries and sum up to the  *)
(* total of the run, at every moment and in whatever is committed, for any *)
(* number of answers (record_step and CostTracker.record are never checked *)
(* against each other).                                                    *)
THEOREM TraceAlwaysAddsUp == Spec => []TraceAddsUp
<1> DEFINE I == RowsAddUp(session) /\ RowsAddUp(db)
<1>1. Init => I
  BY NothingAddsUp DEF Init, NoRows, RowsAddUp
<1>2. TypeOK /\ I /\ [Next]_vars => I'
  BY AddsUpStep
<1>3. I => TraceAddsUp
  BY DEF RowsAddUp, AddsUp, TraceAddsUp
<1> QED
  BY <1>1, <1>2, <1>3, RunTypeCorrect, PTL DEF Spec

-----------------------------------------------------------------------------
(* The model calls: the loop variable counts them, and so does the reply.  *)

Turns ==
    /\ pc \in {"budget", "screen"} => session.steps = <<>> /\ messages = <<>>
    /\ pc = "calling" =>
          /\ Len(ModelCalls(session.steps)) = step
          /\ Len(Responses(messages)) = step
          /\ step < MaxSteps
    /\ pc = "tool" =>
          /\ Len(ModelCalls(session.steps)) = step + 1
          /\ Len(Responses(messages)) = step + 1
          /\ step < MaxSteps
    /\ pc = "finished" /\ MaxSteps >= 0 =>
          reply.stepCount = Len(ModelCalls(session.steps))
    /\ pc \in {"committed", "done"} /\ reply.status \in RunStatus /\ MaxSteps >= 0 =>
          reply.stepCount = Len(ModelCalls(db.steps))

LEMMA MoreCalls ==
    ASSUME NEW steps \in Seq(Step), NEW row \in Step
    PROVE  /\ Len(ModelCalls(steps)) \in Nat
           /\ row.type = "llm_call" =>
                 Len(ModelCalls(Append(steps, row))) = Len(ModelCalls(steps)) + 1
           /\ row.type # "llm_call" =>
                 Len(ModelCalls(Append(steps, row))) = Len(ModelCalls(steps))
<1> DEFINE calls == ModelCalls(steps)
<1>1. calls \in Seq(Step)
  BY PickedTypes
<1>2. ModelCalls(Append(steps, row)) = IF row.type = "llm_call" THEN Append(calls, row) ELSE calls
  BY StepsAppend
<1> HIDE DEF calls
<1>3. Len(calls) \in Nat /\ Len(Append(calls, row)) = Len(calls) + 1
  BY <1>1
<1>4. /\ Len(calls) \in Nat
      /\ row.type = "llm_call" => Len(ModelCalls(Append(steps, row))) = Len(calls) + 1
      /\ row.type # "llm_call" => Len(ModelCalls(Append(steps, row))) = Len(calls)
  BY <1>2, <1>3
<1> QED
  BY <1>4 DEF calls

LEMMA MoreResponses ==
    ASSUME NEW conversation \in Seq(Message), NEW message \in Message
    PROVE  /\ Len(Responses(conversation)) \in Nat
           /\ message.role = "assistant" =>
                 Len(Responses(Append(conversation, message)))
                   = Len(Responses(conversation)) + 1
           /\ message.role # "assistant" =>
                 Len(Responses(Append(conversation, message))) = Len(Responses(conversation))
<1> DEFINE replies == Responses(conversation)
<1>1. /\ replies \in Seq(Message)
      /\ Responses(Append(conversation, message))
           = IF message.role = "assistant" THEN Append(replies, message) ELSE replies
  BY ResponsesAppend
<1> HIDE DEF replies
<1>2. Len(replies) \in Nat /\ Len(Append(replies, message)) = Len(replies) + 1
  BY <1>1
<1>3. /\ Len(replies) \in Nat
      /\ message.role = "assistant" =>
            Len(Responses(Append(conversation, message))) = Len(replies) + 1
      /\ message.role # "assistant" =>
            Len(Responses(Append(conversation, message))) = Len(replies)
  BY <1>1, <1>2
<1> QED
  BY <1>3 DEF replies

LEMMA TurnsStep == ASSUME TypeOK, Turns, [Next]_vars PROVE Turns'
<1>0. /\ session.steps \in Seq(Step) /\ messages \in Seq(Message) /\ step \in Nat
      /\ MaxSteps \in Int /\ pending \in Seq(ToolKind)
  BY RuntimeAssumption DEF TypeOK, Rows
<1>1. Traces
  BY StepTraces
<1>2. Len(ModelCalls(<<>>)) = 0 /\ Len(Responses(<<>>)) = 0 /\ Len(Responses(Opening)) = 0
  BY PickedEmpty, OpeningResponses
<1>3. CASE Prepares
  BY <1>0, <1>2, <1>3 DEF Turns, Prepares, SameTrace, RunStatus
<1>4. CASE ModelIsSilent
  <2> DEFINE row == LlmStep(FALSE, 0)
  <2>1. /\ row \in Step /\ row.type = "llm_call"
        /\ session'.steps = Append(session.steps, row)
    BY <1>4 DEF ModelIsSilent, TraceRow, LlmStep
  <2> HIDE DEF row
  <2>2. Len(ModelCalls(session'.steps)) = step + 1
    BY <1>0, <1>4, <2>1, MoreCalls DEF Turns, ModelIsSilent
  <2> QED
    BY <1>4, <2>2 DEF Turns, ModelIsSilent
<1>5. ASSUME NEW used \in Nat, ModelAnswers(used)
      PROVE  Turns'
  <2> DEFINE row == LlmStep(TRUE, used)
             message == [role |-> "assistant", n |-> Len(pending')]
  <2>1. /\ row \in Step /\ row.type = "llm_call"
        /\ session'.steps = Append(session.steps, row)
    BY <1>5 DEF ModelAnswers, TraceRow, LlmStep
  <2> HIDE DEF row
  <2>2. Len(ModelCalls(session'.steps)) = step + 1 /\ step < MaxSteps
    BY <1>0, <1>5, <2>1, MoreCalls DEF Turns, ModelAnswers
  <2>3. CASE pc' = "finished"
    BY <1>5, <2>2, <2>3 DEF Turns, ModelAnswers
  <2>4. CASE pc' = "tool"
    <3>1. pending' \in Seq(ToolKind)
      BY TypeStep DEF TypeOK
    <3>2. message \in Message /\ message.role = "assistant"
      BY <3>1 DEF Message
    <3>3. messages' = Append(messages, message)
      BY <1>5, <2>4 DEF ModelAnswers
    <3> HIDE DEF message
    <3>4. Len(Responses(messages')) = step + 1
      BY <1>0, <1>5, <3>2, <3>3, MoreResponses DEF Turns, ModelAnswers
    <3> QED
      BY <1>5, <2>2, <2>4, <3>4 DEF Turns, ModelAnswers
  <2> QED
    BY <1>5, <2>3, <2>4 DEF ModelAnswers
<1>6. ASSUME NEW ok \in BOOLEAN, NEW retries \in Nat, CallEnds(ok, retries)
      PROVE  Turns'
  <2> DEFINE row == ToolStep(ok, retries)
  <2>1. /\ row \in Step /\ row.type # "llm_call"
        /\ session'.steps = Append(session.steps, row)
    BY <1>6 DEF CallEnds, TraceRow, ToolStep
  <2>2. ToolMessage \in Message /\ ToolMessage.role # "assistant"
        /\ messages' = Append(messages, ToolMessage)
    BY <1>0, <1>6 DEF CallEnds, ToolMessage, Message
  <2> HIDE DEF row
  <2>3. /\ Len(ModelCalls(session'.steps)) = step + 1 /\ step < MaxSteps
        /\ Len(Responses(messages')) = step + 1
    <3>1. /\ Len(ModelCalls(session.steps)) = step + 1 /\ step < MaxSteps
          /\ Len(Responses(messages)) = step + 1
      BY <1>6 DEF Turns, CallEnds
    <3> QED
      BY <1>0, <2>1, <2>2, <3>1, MoreCalls, MoreResponses
  <2> QED
    BY <1>0, <1>6, <2>3 DEF Turns, CallEnds
<1>7. CASE Closes
  BY <1>7 DEF Turns, Closes, SameTrace
<1>8. CASE Departs
  BY <1>8 DEF Turns, Departs
<1>9. CASE Pauses
  BY <1>9 DEF Turns, Pauses
<1> QED
  BY <1>1, <1>3, <1>4, <1>5, <1>6, <1>7, <1>8, <1>9 DEF Traces

LEMMA TurnsInit == Init => Turns
BY DEF Init, Turns, NoRows, NoReply, RunStatus

(* Whichever way a run ends, the step_count in the response is the number  *)
(* of model calls in its committed trace (the six returns of               *)
(* AgentRuntime.run each compute it on their own), for every max_steps     *)
(* that is not negative.                                                   *)
THEOREM ReplyAlwaysCountsCalls == Spec => []ReplyCountsCalls
<1>1. TypeOK /\ Turns /\ [Next]_vars => Turns'
  BY TurnsStep
<1>2. Turns => ReplyCountsCalls
  BY DEF Turns, ReplyCountsCalls
<1> QED
  BY <1>1, <1>2, TurnsInit, RunTypeCorrect, PTL DEF Spec

-----------------------------------------------------------------------------
(* The groups of a replay.                                                 *)

(* A response, the calls recorded for it and those still open make up what *)
(* it asked for.                                                           *)
IsGroup(group, asked, open) ==
    /\ \A j \in 2 .. Len(group) : group[j].type = "tool_call"
    /\ Len(group) - 1 + open = asked

AskedBy(replies, i) == IF i <= Len(replies) THEN replies[i].n ELSE 0

(* So does each group, and only the last one has open calls. *)
Grouped(steps, conversation, open) ==
    LET calls   == ModelCalls(steps)
        replies == Responses(conversation)
    IN  /\ \A i \in DOMAIN calls : calls[i].index = i - 1
        /\ \A i \in DOMAIN steps : steps[i].index < Len(calls)
        /\ \A k \in Nat : k >= Len(calls) => SameIndex(steps, k) = <<>>
        /\ \A i \in DOMAIN calls :
              IsGroup(SameIndex(steps, i - 1), AskedBy(replies, i),
                      IF i = Len(calls) THEN open ELSE 0)

LEMMA NothingGrouped == \A conversation : Grouped(<<>>, conversation, 0)
BY PickedEmpty DEF Grouped

LEMMA GroupBegins ==
    ASSUME NEW row, NEW n \in Nat
    PROVE  IsGroup(<<row>>, n, n)
<1>1. Len(<<row>>) = 1
  OBVIOUS
<1> QED
  BY <1>1 DEF IsGroup

LEMMA GroupGrows ==
    ASSUME NEW group \in Seq(Step), NEW asked, NEW open \in Nat, NEW rest, rest = open - 1,
           IsGroup(group, asked, open), NEW row \in Step, row.type = "tool_call"
    PROVE  IsGroup(Append(group, row), asked, rest)
<1> DEFINE longer == Append(group, row)
<1>1. /\ Len(group) \in Nat /\ Len(longer) = Len(group) + 1
      /\ longer[Len(group) + 1] = row
      /\ \A j \in 1 .. Len(group) : longer[j] = group[j]
  OBVIOUS
<1>2. (\A j \in 2 .. Len(group) : group[j].type = "tool_call") /\ Len(group) - 1 + open = asked
  BY DEF IsGroup
<1> HIDE DEF longer
<1>3. ASSUME NEW j \in 2 .. Len(longer)
      PROVE  longer[j].type = "tool_call"
  <2>1. CASE j = Len(group) + 1
    BY <1>1, <2>1
  <2>2. CASE j # Len(group) + 1
    <3>1. j \in 2 .. Len(group) /\ j \in 1 .. Len(group)
      BY <1>1, <2>2
    <3> QED
      BY <1>1, <1>2, <3>1
  <2> QED
    BY <2>1, <2>2
<1>4. Len(longer) - 1 + rest = asked
  BY <1>1, <1>2
<1> QED
  BY <1>3, <1>4 DEF IsGroup, longer

(* A row beyond those there are: where it lies. *)
LEMMA MoreRows ==
    ASSUME NEW steps \in Seq(Step), NEW row \in Step
    PROVE  /\ DOMAIN Append(steps, row) = DOMAIN steps \cup {Len(steps) + 1}
           /\ Append(steps, row)[Len(steps) + 1] = row
           /\ \A i \in DOMAIN steps :
                 Append(steps, row)[i] = steps[i] /\ steps[i].index \in Nat
<1>1. \A i \in DOMAIN steps : steps[i] \in Step
  OBVIOUS
<1>2. \A i \in DOMAIN steps : steps[i].index \in Nat
  BY <1>1 DEF Step
<1> QED
  BY <1>2

(* A response is recorded after groups that have no call open. *)
LEMMA CallRowGrouped ==
    ASSUME NEW steps \in Seq(Step), NEW conversation \in Seq(Message),
           NEW row \in Step, row.type = "llm_call",
           row.index = Len(ModelCalls(steps)),
           Len(Responses(conversation)) = Len(ModelCalls(steps)),
           Grouped(steps, conversation, 0)
    PROVE  /\ Grouped(Append(steps, row), conversation, 0)
           /\ \A n \in Nat :
                 Grouped(Append(steps, row),
                         Append(conversation, [role |-> "assistant", n |-> n]), n)
<1> DEFINE calls == ModelCalls(steps)
           m == Len(calls)
           moreCalls == Append(calls, row)
           more == Append(steps, row)
           replies == Responses(conversation)
<1>1. /\ calls \in Seq(Step) /\ replies \in Seq(Message)
      /\ ModelCalls(more) = moreCalls
      /\ \A k : SameIndex(more, k) = IF m = k THEN Append(SameIndex(steps, k), row)
                                      ELSE SameIndex(steps, k)
  <2>1. calls \in Seq(Step) /\ replies \in Seq(Message)
    BY PickedTypes, WhereType DEF Responses
  <2>2. ModelCalls(more) = moreCalls
    BY StepsAppend
  <2>3. ASSUME NEW k
        PROVE  SameIndex(more, k) = IF row.index = k THEN Append(SameIndex(steps, k), row)
                                     ELSE SameIndex(steps, k)
    BY StepsAppend
  <2>4. row.index = m
    OBVIOUS
  <2> HIDE DEF calls, m, moreCalls, more, replies
  <2> QED
    BY <2>1, <2>2, <2>3, <2>4
<1>2. /\ m \in Nat /\ DOMAIN calls = 1 .. m
      /\ Len(moreCalls) = m + 1 /\ DOMAIN moreCalls = 1 .. (m + 1)
      /\ moreCalls[m + 1] = row /\ \A i \in 1 .. m : moreCalls[i] = calls[i]
      /\ Len(replies) = m
  BY <1>1
<1>3. /\ \A i \in DOMAIN calls : calls[i].index = i - 1
      /\ \A i \in DOMAIN steps : steps[i].index < m
      /\ \A k \in Nat : k >= m => SameIndex(steps, k) = <<>>
      /\ \A i \in DOMAIN calls :
            IsGroup(SameIndex(steps, i - 1), AskedBy(replies, i), IF i = m THEN 0 ELSE 0)
  BY DEF Grouped
<1>4. /\ DOMAIN more = DOMAIN steps \cup {Len(steps) + 1}
      /\ more[Len(steps) + 1] = row
      /\ \A i \in DOMAIN steps : more[i] = steps[i] /\ steps[i].index \in Nat
  BY MoreRows
<1>5. row.index = m
  OBVIOUS
<1> HIDE DEF calls, m, moreCalls, more, replies
<1>6. /\ SameIndex(more, m) = <<row>>
      /\ \A i \in 1 .. m : SameIndex(more, i - 1) = SameIndex(steps, i - 1)
  <2>1. SameIndex(steps, m) = <<>>
    <3>1. m \in Nat /\ m >= m
      BY <1>2
    <3> QED
      BY <1>3, <3>1
  <2>2. SameIndex(more, m) = Append(<<>>, row)
    BY <1>1, <2>1
  <2>3. Append(<<>>, row) = <<row>>
    OBVIOUS
  <2>4. \A i \in 1 .. m : i - 1 # m
    BY <1>2
  <2> QED
    BY <1>1, <2>2, <2>3, <2>4
<1>7. \A i \in 1 .. (m + 1) : (i = m + 1 /\ i - 1 = m) \/ (i # m + 1 /\ i \in 1 .. m)
  BY <1>2
<1>8. \A i \in 1 .. (m + 1) : moreCalls[i].index = i - 1
  BY <1>2, <1>3, <1>5, <1>7
<1>9. \A i \in DOMAIN more : more[i].index < m + 1
  BY <1>2, <1>3, <1>4, <1>5
<1>10. \A k \in Nat : k >= m + 1 => SameIndex(more, k) = <<>>
  <2>1. \A k \in Nat : k >= m + 1 => k >= m /\ k # m
    BY <1>2
  <2> QED
    BY <1>1, <1>3, <2>1
<1>11. \A i \in 1 .. m : IsGroup(SameIndex(more, i - 1), AskedBy(replies, i), 0)
  BY <1>2, <1>3, <1>6
<1>12. Grouped(more, conversation, 0)
  <2>1. AskedBy(replies, m + 1) = 0
    BY <1>2 DEF AskedBy
  <2>2. IsGroup(SameIndex(more, m), AskedBy(replies, m + 1), 0)
    BY <1>6, <2>1, GroupBegins
  <2>3. \A i \in 1 .. (m + 1) :
           IsGroup(SameIndex(more, i - 1), AskedBy(replies, i), IF i = m + 1 THEN 0 ELSE 0)
    BY <1>7, <1>11, <2>2
  <2> QED
    BY <1>1, <1>2, <1>8, <1>9, <1>10, <2>3 DEF Grouped, replies
<1>13. ASSUME NEW n \in Nat
       PROVE  Grouped(more, Append(conversation, [role |-> "assistant", n |-> n]), n)
  <2> DEFINE message == [role |-> "assistant", n |-> n]
             moreReplies == Append(replies, message)
  <2>1. message \in Message /\ message.role = "assistant" /\ message.n = n
    BY DEF Message
  <2> HIDE DEF message
  <2>2. Responses(Append(conversation, message)) = moreReplies
    BY <2>1, ResponsesAppend DEF replies
  <2>3. /\ Len(moreReplies) = m + 1 /\ moreReplies[m + 1] = message
        /\ \A i \in 1 .. m : moreReplies[i] = replies[i]
    BY <1>1, <1>2
  <2> HIDE DEF moreReplies
  <2>4. /\ AskedBy(moreReplies, m + 1) = n
        /\ \A i \in 1 .. m : AskedBy(moreReplies, i) = AskedBy(replies, i)
    BY <1>2, <2>1, <2>3 DEF AskedBy
  <2>5. IsGroup(SameIndex(more, m), AskedBy(moreReplies, m + 1), n)
    BY <1>6, <2>4, GroupBegins
  <2>6. ASSUME NEW i \in 1 .. (m + 1)
        PROVE  IsGroup(SameIndex(more, i - 1), AskedBy(moreReplies, i),
                       IF i = m + 1 THEN n ELSE 0)
    <3>1. CASE i = m + 1
      BY <1>7, <2>5, <3>1
    <3>2. CASE i # m + 1
      BY <1>7, <1>11, <2>4, <3>2
    <3> QED
      BY <3>1, <3>2
  <2>7. Grouped(more, Append(conversation, message), n)
    BY <1>1, <1>2, <1>8, <1>9, <1>10, <2>2, <2>6 DEF Grouped
  <2> QED
    BY <2>7 DEF message
<1> QED
  BY <1>12, <1>13 DEF more

(* A tool call is recorded in the last group: one less is open. *)
LEMMA ToolRowGrouped ==
    ASSUME NEW steps \in Seq(Step), NEW conversation \in Seq(Message),
           NEW row \in Step, row.type = "tool_call",
           row.index + 1 = Len(ModelCalls(steps)),
           NEW message \in Message, message.role = "tool",
           NEW open \in Nat, NEW rest, rest = open - 1,
           Grouped(steps, conversation, open)
    PROVE  Grouped(Append(steps, row), Append(conversation, message), rest)
<1> DEFINE calls == ModelCalls(steps)
           m == Len(calls)
           more == Append(steps, row)
           replies == Responses(conversation)
<1>1. /\ calls \in Seq(Step) /\ ModelCalls(more) = calls
      /\ \A k : SameIndex(more, k) = IF row.index = k THEN Append(SameIndex(steps, k), row)
                                      ELSE SameIndex(steps, k)
      /\ Responses(Append(conversation, message)) = replies
  BY PickedTypes, StepsAppend, ResponsesAppend
<1>2. m \in Nat /\ DOMAIN calls = 1 .. m /\ row.index \in Nat /\ row.index + 1 = m
  BY <1>1 DEF Step
<1>3. /\ \A i \in DOMAIN calls : calls[i].index = i - 1
      /\ \A i \in DOMAIN steps : steps[i].index < m
      /\ \A k \in Nat : k >= m => SameIndex(steps, k) = <<>>
      /\ \A i \in DOMAIN calls :
            IsGroup(SameIndex(steps, i - 1), AskedBy(replies, i), IF i = m THEN open ELSE 0)
  BY DEF Grouped
<1>4. /\ DOMAIN more = DOMAIN steps \cup {Len(steps) + 1}
      /\ more[Len(steps) + 1] = row
      /\ \A i \in DOMAIN steps : more[i] = steps[i] /\ steps[i].index \in Nat
  BY MoreRows
<1>5. \A k : SameIndex(steps, k) \in Seq(Step)
  BY PickedTypes
<1> HIDE DEF calls, m, more, replies
<1>6. \A i \in DOMAIN more : more[i].index < m
  BY <1>2, <1>3, <1>4
<1>7. \A k \in Nat : k >= m => SameIndex(more, k) = <<>>
  BY <1>1, <1>2, <1>3
<1>8. ASSUME NEW i \in DOMAIN calls
      PROVE  IsGroup(SameIndex(more, i - 1), AskedBy(replies, i), IF i = m THEN rest ELSE 0)
  <2>1. CASE i = m
    <3>1. row.index = i - 1
      BY <1>2, <2>1
    <3>2. SameIndex(more, i - 1) = Append(SameIndex(steps, i - 1), row)
      BY <1>1, <3>1
    <3>3. IsGroup(SameIndex(steps, i - 1), AskedBy(replies, i), open)
      BY <1>3, <2>1
    <3>4. IsGroup(Append(SameIndex(steps, i - 1), row), AskedBy(replies, i), rest)
      BY <1>5, <3>3, GroupGrows
    <3> QED
      BY <2>1, <3>2, <3>4
  <2>2. CASE i # m
    <3>1. row.index # i - 1
      BY <1>2, <2>2
    <3>2. SameIndex(more, i - 1) = SameIndex(steps, i - 1)
      BY <1>1, <3>1
    <3> QED
      BY <1>3, <2>2, <3>2
  <2> QED
    BY <2>1, <2>2
<1>9. Grouped(more, Append(conversation, message), rest)
  BY <1>1, <1>3, <1>6, <1>7, <1>8 DEF Grouped, m
<1> QED
  BY <1>9 DEF more

Open == IF pc = "tool" THEN Len(pending) ELSE 0

Replayed ==
    /\ pc # "done" => Grouped(session.steps, messages, Open)
    /\ db.run.status # "none" => Grouped(db.steps, messages, 0)

LEMMA ReplayedInit == Init => Replayed
BY NothingGrouped DEF Init, NoRows, Replayed, Open

LEMMA ReplayedStep ==
    ASSUME RunInv, Turns, Replayed, [Next]_vars
    PROVE  Replayed'
<1>0. /\ TypeOK /\ session.steps \in Seq(Step) /\ messages \in Seq(Message) /\ step \in Nat
      /\ pending \in Seq(ToolKind)
  BY DEF RunInv, TypeOK, Rows
<1>1. Traces
  BY <1>0, StepTraces
<1>2. pc \in {"budget", "screen", "calling", "tool", "finished"} => db.run.status = "none"
  BY DEF RunInv, Phases
<1>3. CASE Prepares
  <2>1. session'.steps = <<>>
    BY <1>3 DEF Prepares, SameTrace, Turns
  <2>2. Open' = 0 /\ db'.run.status = "none"
    BY <1>2, <1>3 DEF Prepares, Open, RunInv, Phases
  <2> QED
    BY <2>1, <2>2, NothingGrouped DEF Replayed
<1>4. CASE ModelIsSilent
  <2> DEFINE row == LlmStep(FALSE, 0)
  <2>1. /\ row \in Step /\ row.type = "llm_call" /\ row.index = step
        /\ session'.steps = Append(session.steps, row)
    BY <1>4 DEF ModelIsSilent, TraceRow, LlmStep
  <2> HIDE DEF row
  <2>2. Grouped(session.steps, messages, 0)
    BY <1>4 DEF ModelIsSilent, Replayed, Open
  <2>3. Len(ModelCalls(session.steps)) = step /\ Len(Responses(messages)) = step
    BY <1>4 DEF ModelIsSilent, Turns
  <2>4. Grouped(Append(session.steps, row), messages, 0)
    BY <1>0, <2>1, <2>2, <2>3, CallRowGrouped
  <2> QED
    BY <1>2, <1>4, <2>1, <2>4 DEF ModelIsSilent, Replayed, Open
<1>5. ASSUME NEW used \in Nat, ModelAnswers(used)
      PROVE  Replayed'
  <2> DEFINE row == LlmStep(TRUE, used)
             steps == Append(session.steps, row)
  <2>1. /\ row \in Step /\ row.type = "llm_call" /\ row.index = step
        /\ session'.steps = steps
    BY <1>5 DEF ModelAnswers, TraceRow, LlmStep
  <2> HIDE DEF row
  <2>2. Grouped(session.steps, messages, 0)
    BY <1>5 DEF ModelAnswers, Replayed, Open
  <2>3. Len(ModelCalls(session.steps)) = step /\ Len(Responses(messages)) = step
    BY <1>5 DEF ModelAnswers, Turns
  <2>4. /\ Grouped(steps, messages, 0)
        /\ \A n \in Nat :
              Grouped(steps, Append(messages, [role |-> "assistant", n |-> n]), n)
    BY <1>0, <2>1, <2>2, <2>3, CallRowGrouped
  <2> HIDE DEF steps
  <2>5. Len(pending') \in Nat
    BY <1>0, TypeStep DEF TypeOK
  <2>6. Grouped(steps, messages', Open')
    BY <1>5, <2>4, <2>5 DEF ModelAnswers, Open
  <2>7. db'.run.status = "none"
    BY <1>2, <1>5 DEF ModelAnswers
  <2> QED
    BY <2>1, <2>6, <2>7 DEF Replayed
<1>6. ASSUME NEW ok \in BOOLEAN, NEW retries \in Nat, CallEnds(ok, retries)
      PROVE  Replayed'
  <2> DEFINE row == ToolStep(ok, retries)
  <2>1. /\ row \in Step /\ row.type = "tool_call" /\ row.index = step
        /\ session'.steps = Append(session.steps, row)
    BY <1>6 DEF CallEnds, TraceRow, ToolStep
  <2> HIDE DEF row
  <2>2. Grouped(session.steps, messages, Len(pending)) /\ Len(pending) \in Nat \ {0}
    BY <1>0, <1>6 DEF CallEnds, Replayed, Open, TypeOK
  <2>3. Len(ModelCalls(session.steps)) = step + 1
    BY <1>6 DEF CallEnds, Turns
  <2>4. ToolMessage \in Message /\ ToolMessage.role = "tool"
        /\ messages' = Append(messages, ToolMessage)
    BY <1>6, <2>2 DEF CallEnds, ToolMessage, Message
  <2>5. Grouped(session'.steps, messages', Len(pending) - 1)
    BY <1>0, <2>1, <2>2, <2>3, <2>4, ToolRowGrouped
  <2>6. Open' = Len(pending) - 1
    <3>1. Len(pending') = Len(pending) - 1
      BY <1>0, <1>6, <2>2 DEF CallEnds
    <3>2. LastCall => Len(pending) - 1 = 0
      BY DEF LastCall
    <3> QED
      BY <1>6, <3>1, <3>2 DEF CallEnds, Open
  <2>7. db'.run.status = "none"
    BY <1>2, <1>6 DEF CallEnds
  <2> QED
    BY <2>5, <2>6, <2>7 DEF Replayed
<1>7. CASE Closes
  BY <1>7 DEF Replayed, Closes, SameTrace, Open
<1>8. CASE Departs
  BY <1>8 DEF Replayed, Departs
<1>9. CASE Pauses
  BY <1>9 DEF Replayed, Pauses, Open
<1> QED
  BY <1>1, <1>3, <1>4, <1>5, <1>6, <1>7, <1>8, <1>9 DEF Traces

(* Whatever the model asks for and wherever the run ends, its committed    *)
(* rows sorted by step_index alone are the responses in their order, each  *)
(* with the tool calls it asked for (TraceStore.replay has nothing else to *)
(* sort by).                                                               *)
THEOREM ReplayAlwaysGroups == Spec => []ReplayGroups
<1>1. RunInv /\ Turns /\ Replayed /\ [Next]_vars => Replayed'
  BY ReplayedStep
<1>2. TypeOK /\ Turns /\ [Next]_vars => Turns'
  BY TurnsStep
<1>3. RunInv => TypeOK
  BY DEF RunInv
<1>4. Replayed => ReplayGroups
  <2>1. SUFFICES ASSUME Replayed, db.run.status # "none"
                 PROVE  ReplayGroups
    BY DEF ReplayGroups
  <2>2. Grouped(db.steps, messages, 0)
    BY <2>1 DEF Replayed
  <2> DEFINE calls == ModelCalls(db.steps)
  <2>3. \A i \in DOMAIN calls :
           IsGroup(SameIndex(db.steps, i - 1), AskedBy(Responses(messages), i), 0)
    BY <2>2 DEF Grouped
  <2>4. \A i \in DOMAIN calls :
           LET group == SameIndex(db.steps, i - 1)
           IN  /\ \A j \in 2 .. Len(group) : group[j].type = "tool_call"
               /\ Len(group) - 1 = IF i <= Len(Responses(messages))
                                   THEN Responses(messages)[i].n ELSE 0
    BY <2>3 DEF IsGroup, AskedBy
  <2> QED
    BY <2>1, <2>2, <2>4 DEF ReplayGroups, Grouped
<1> QED
  BY <1>1, <1>2, <1>3, <1>4, TurnsInit, ReplayedInit, RunInvAlways, PTL DEF Spec

-----------------------------------------------------------------------------
(* The run ends.  Each step brings it nearer to its end: first come the    *)
(* stages of the handler, in the loop the step_index still to come, then   *)
(* the answer that is awaited, the tool calls still to run, and the        *)
(* attempts the first of them has left.                                    *)
Stage ==
    CASE pc = "budget"              -> 5
      [] pc = "screen"              -> 4
      [] pc \in {"calling", "tool"} -> 3
      [] pc = "finished"            -> 2
      [] pc = "committed"           -> 1
      [] pc = "done"                -> 0

StillToDo ==
    << Stage,
       IF Stage = 3 THEN MaxSteps - step ELSE 0,
       IF pc = "calling" THEN 1 ELSE 0,
       Len(pending),
       ToolAttempts - attempt >>

LessToDo == <<StillToDo', StillToDo>> \in Smaller(5)

(* Inductive with the types. *)
InLoop == pc \in {"calling", "tool"} => step < MaxSteps

(* The ways in which a step may do so. *)
NextStage == Stage' < Stage

NextInStage == Stage' = 3 /\ Stage = 3

NextRound == NextInStage /\ step' = step + 1

NextTurn == NextInStage /\ step' = step /\ pc = "calling" /\ pc' = "tool"

NextCall ==
    /\ NextInStage
    /\ UNCHANGED <<pc, step>>
    /\ Len(pending') < Len(pending)

NextTry == UNCHANGED <<pc, step, pending>> /\ attempt' > attempt

Nears == NextStage \/ NextRound \/ NextTurn \/ NextCall \/ NextTry

LEMMA StageType == ASSUME TypeOK PROVE Stage \in Nat
BY DEF Stage, TypeOK

LEMMA StillToDoType == ASSUME TypeOK, InLoop PROVE StillToDo \in [1 .. 5 -> Nat]
<1>1. Stage = 3 => MaxSteps - step \in Nat
  BY RuntimeAssumption DEF Stage, TypeOK, InLoop
<1>2. Len(pending) \in Nat /\ ToolAttempts - attempt \in Nat
  BY RuntimeAssumption DEF TypeOK
<1> QED
  BY <1>1, <1>2, StageType DEF StillToDo

(* A tool call is over: the next call, the next round, or the last stage. *)
LEMMA ToolAnsweredNears ==
    ASSUME TypeOK, InLoop, pc = "tool", NEW ok \in BOOLEAN, NEW retries \in Nat,
           ToolAnswered(ok, retries)
    PROVE  Nears /\ InLoop'
<1> DEFINE rows == Recorded(session, ToolStep(ok, retries))
<1>1. step \in Nat /\ pending \in Seq(ToolKind) /\ pending # <<>>
  BY DEF TypeOK
<1>2. CASE LastCall
  <2>1. EnterLoop(rows, step + 1)
    BY <1>2 DEF ToolAnswered
  <2>2. CASE step + 1 < MaxSteps
    BY <2>1, <2>2, <1>1 DEF EnterLoop, Nears, NextRound, NextInStage, Stage, InLoop
  <2>3. CASE ~(step + 1 < MaxSteps)
    BY <2>1, <2>3 DEF EnterLoop, Finish, Nears, NextStage, Stage, InLoop
  <2> QED
    BY <2>2, <2>3
<1>3. CASE ~LastCall
  <2>1. pending' = Tail(pending) /\ UNCHANGED <<pc, step>>
    BY <1>3 DEF ToolAnswered
  <2>2. Len(pending') < Len(pending)
    BY <1>1, <2>1
  <2> QED
    BY <2>1, <2>2 DEF Nears, NextCall, NextInStage, Stage, InLoop
<1> QED
  BY <1>2, <1>3

LEMMA LoseNears == ASSUME TypeOK, pc # "done", Lose PROVE Nears /\ InLoop'
BY DEF TypeOK, Lose, Nears, NextStage, Stage, InLoop

LEMMA StepNears ==
    ASSUME TypeOK, InLoop, [Next]_vars
    PROVE  (Nears \/ UNCHANGED vars) /\ InLoop'
<1>0. attempt \in Nat /\ ToolAttempts \in Nat
  BY RuntimeAssumption DEF TypeOK
<1>1. CASE UnknownTenant
  BY <1>1 DEF UnknownTenant, Nears, NextStage, Stage, InLoop
<1>2. CASE BudgetExhausted
  BY <1>2 DEF BudgetExhausted, Nears, NextStage, Stage, InLoop
<1>3. CASE StartRun
  BY <1>3 DEF StartRun, Nears, NextStage, Stage, InLoop
<1>4. CASE ScreenRequest
  <2>1. PICK rows : EnterLoop(rows, 0) \/ Finish(rows, "blocked_by_guardrail", 0, 0)
    BY <1>4 DEF ScreenRequest
  <2>2. pc = "screen"
    BY <1>4 DEF ScreenRequest
  <2> QED
    BY <2>1, <2>2 DEF EnterLoop, Finish, Nears, NextStage, Stage, InLoop
<1>5. CASE ModelFails
  BY <1>5 DEF ModelFails, Finish, Nears, NextStage, Stage, InLoop
<1>6. CASE AnswerOverBudget
  BY <1>6 DEF AnswerOverBudget, Count, Finish, Nears, NextStage, Stage, InLoop
<1>7. CASE AnswerFinal
  BY <1>7 DEF AnswerFinal, Count, Finish, Nears, NextStage, Stage, InLoop
<1>8. CASE AnswerWithTools
  BY <1>8 DEF AnswerWithTools, Count, Nears, NextTurn, NextInStage, Stage, InLoop
<1>9. CASE ToolNotRun
  BY <1>9, ToolAnsweredNears DEF ToolNotRun, RunningTool
<1>10. CASE ToolReturns
  BY <1>0, <1>10, ToolAnsweredNears DEF ToolReturns, RunningTool
<1>11. CASE ToolRejects
  BY <1>0, <1>11, ToolAnsweredNears DEF ToolRejects, RunningTool
<1>12. CASE ToolFails
  <2>1. CASE NextAttempt < ToolAttempts
    BY <1>0, <1>12, <2>1 DEF ToolFails, NextAttempt, Nears, NextTry, InLoop
  <2>2. CASE ~(NextAttempt < ToolAttempts)
    BY <1>0, <1>12, <2>2, ToolAnsweredNears DEF ToolFails, RunningTool
  <2> QED
    BY <2>1, <2>2
<1>13. CASE SqlFails
  BY <1>0, <1>13, LoseNears, ToolAnsweredNears DEF SqlFails, RunningTool
<1>14. CASE SqlTimesOut
  BY <1>14, LoseNears DEF SqlTimesOut, RunningTool
<1>15. CASE Commit
  BY <1>15 DEF Commit, Nears, NextStage, Stage, InLoop
<1>16. CASE Respond
  BY <1>16 DEF Respond, Nears, NextStage, Stage, InLoop
<1>17. CASE RequestLost
  BY <1>17, LoseNears DEF RequestLost
<1>18. CASE Done \/ UNCHANGED vars
  BY <1>18 DEF Done, InLoop, vars
<1> QED
  BY <1>1, <1>2, <1>3, <1>4, <1>5, <1>6, <1>7, <1>8, <1>9, <1>10, <1>11, <1>12,
     <1>13, <1>14, <1>15, <1>16, <1>17, <1>18
  DEF Next, Progress

LEMMA NearsIsSmaller ==
    ASSUME TypeOK, TypeOK', Nears,
           StillToDo \in [1 .. 5 -> Nat], StillToDo' \in [1 .. 5 -> Nat]
    PROVE  LessToDo
<1> DEFINE f == StillToDo'
           g == StillToDo
<1>1. f \in [1 .. 5 -> Nat] /\ g \in [1 .. 5 -> Nat]
  OBVIOUS
<1>2. /\ f[1] = Stage' /\ g[1] = Stage
      /\ f[2] = (IF Stage' = 3 THEN MaxSteps - step' ELSE 0)
      /\ g[2] = (IF Stage = 3 THEN MaxSteps - step ELSE 0)
      /\ f[3] = (IF pc' = "calling" THEN 1 ELSE 0)
      /\ g[3] = (IF pc = "calling" THEN 1 ELSE 0)
      /\ f[4] = Len(pending') /\ g[4] = Len(pending)
      /\ f[5] = ToolAttempts - attempt' /\ g[5] = ToolAttempts - attempt
  BY DEF StillToDo
<1>3. SUFFICES \E j \in 1 .. 5 : f[j] < g[j] /\ \A i \in 1 .. (j - 1) : f[i] = g[i]
  <2> HIDE DEF f, g
  <2>1. PICK j \in 1 .. 5 : f[j] < g[j] /\ \A i \in 1 .. (j - 1) : f[i] = g[i]
    BY <1>3
  <2> QED
    BY <1>1, <2>1, SmallerAt DEF f, g, LessToDo
<1> HIDE DEF f, g
<1>4. CASE NextStage
  BY <1>2, <1>4 DEF NextStage
<1>5. CASE NextRound
  <2>1. f[1] = g[1] /\ f[2] < g[2]
    BY <1>2, <1>5, RuntimeAssumption DEF NextRound, NextInStage, TypeOK
  <2> QED
    BY <2>1
<1>6. CASE NextTurn
  <2>1. f[1] = g[1] /\ f[2] = g[2] /\ f[3] < g[3]
    BY <1>2, <1>6 DEF NextTurn, NextInStage
  <2> QED
    BY <2>1
<1>7. CASE NextCall
  <2>1. f[1] = g[1] /\ f[2] = g[2] /\ f[3] = g[3] /\ f[4] < g[4]
    BY <1>2, <1>7 DEF NextCall, NextInStage
  <2> QED
    BY <2>1
<1>8. CASE NextTry
  <2>1. Stage' = Stage
    BY <1>8 DEF NextTry, Stage
  <2>2. f[5] < g[5]
    <3>1. attempt \in Int /\ attempt' \in Int /\ ToolAttempts \in Int
      BY RuntimeAssumption DEF TypeOK
    <3>2. attempt' > attempt
      BY <1>8 DEF NextTry
    <3>3. ToolAttempts - attempt' < ToolAttempts - attempt
      <4>1. \A n, a, b \in Int : b > a => n - b < n - a
        OBVIOUS
      <4> QED
        BY <3>1, <3>2, <4>1
    <3> QED
      BY <1>2, <3>3
  <2>3. f[1] = g[1] /\ f[2] = g[2] /\ f[3] = g[3] /\ f[4] = g[4] /\ f[5] < g[5]
    BY <1>2, <1>8, <2>1, <2>2 DEF NextTry
  <2> QED
    BY <2>3
<1> QED
  BY <1>4, <1>5, <1>6, <1>7, <1>8 DEF Nears

(* A run takes finitely many steps, whatever the model and the tools       *)
(* answer: every step, of the handler or its death, makes what is still to *)
(* do smaller, and nothing can become smaller for ever.  (The loop of      *)
(* AgentRuntime.run, the list of calls of a response and the attempts of   *)
(* _execute_tool_with_retry are each bounded; no path leads back without   *)
(* using up one of them.)  That no step is left out is EveryRunEnds.       *)
THEOREM RunAlwaysNearsItsEnd ==
    /\ IsWellFoundedOn(Smaller(5), [1 .. 5 -> Nat])
    /\ Spec => []( StillToDo \in [1 .. 5 -> Nat] )
    /\ Spec => [][LessToDo]_vars
<1>1. IsWellFoundedOn(Smaller(5), [1 .. 5 -> Nat])
  BY NothingSmallerForEver
<1>2. Init => InLoop
  BY DEF Init, InLoop
<1>3. TypeOK /\ InLoop /\ [Next]_vars => InLoop'
  BY StepNears
<1>4. TypeOK /\ InLoop => StillToDo \in [1 .. 5 -> Nat]
  BY StillToDoType
<1>5. /\ TypeOK /\ TypeOK' /\ InLoop /\ [Next]_vars
      /\ StillToDo \in [1 .. 5 -> Nat] /\ (StillToDo \in [1 .. 5 -> Nat])'
      => [LessToDo]_vars
  BY StepNears, NearsIsSmaller
<1>6. Spec => [](TypeOK /\ InLoop)
  BY <1>2, <1>3, RunTypeCorrect, PTL DEF Spec
<1>7. Spec => []( StillToDo \in [1 .. 5 -> Nat] )
  BY <1>4, <1>6, PTL
<1>8. Spec => [][LessToDo]_vars
  BY <1>5, <1>6, <1>7, PTL DEF Spec
<1> QED
  BY <1>1, <1>7, <1>8

=============================================================================
