---------------------------- MODULE EvalGateProofs ----------------------------
(***************************************************************************)
(* Theorems about EvalGate, for every suite, registry, number of steps and *)
(* minimum rate.                                                           *)
(***************************************************************************)
EXTENDS EvalGate, FoldingProofs

Running == {"starting", "asking", "calling", "judging"}

(* The place of the case in the suite. *)
now == Len(results) + 1

-----------------------------------------------------------------------------
(* The guardrails and the script.                                          *)

LEMMA ScreenedText ==
    ASSUME NEW t \in Text, NEW policy \in GuardrailPolicy
    PROVE  ScreenRequest(t, policy).text \in Text /\ ScreenResponse(t, policy).text \in Text
BY DEF ScreenRequest, ScreenResponse, Text, Redact

(* A script is as long as its tool calls and one more, and its last        *)
(* response, and no other, calls no tool.                                  *)
LEMMA ScriptShape ==
    ASSUME NEW c \in EvalCase
    PROVE  /\ Script(c) \in Seq(Response)
           /\ Len(Script(c)) = Len(c.golden_tool_calls) + 1
           /\ Len(c.golden_tool_calls) \in Nat
           /\ \A i \in 1 .. Len(Script(c)) :
                Script(c)[i].call = "none" <=> i = Len(Script(c))
<1> DEFINE names == c.golden_tool_calls
           steps == [i \in 1 .. Len(names) |-> [content |-> Empty, call |-> names[i]]]
           final == [content |-> c.golden_final_text, call |-> "none"]
<1>1. names \in Seq(ToolNames) /\ c.golden_final_text \in Text
  BY DEF EvalCase
<1>2. Empty \in Text /\ final \in Response
  BY <1>1 DEF Empty, Text, Response
<1>3. /\ Len(names) \in Nat
      /\ \A i \in 1 .. Len(names) : names[i] \in ToolNames
  BY <1>1
<1>4. \A i \in 1 .. Len(names) : steps[i] \in Response /\ steps[i].call = names[i]
  BY <1>2, <1>3 DEF Response
<1>5. steps \in Seq(Response) /\ Len(steps) = Len(names)
  <2>1. \A i \in 1 .. Len(names) : [content |-> Empty, call |-> names[i]] \in Response
    BY <1>4
  <2>2. [i \in 1 .. Len(names) |-> [content |-> Empty, call |-> names[i]]] \in
           [1 .. Len(names) -> Response]
    BY <2>1, Zenon
  <2> HIDE DEF names
  <2> QED
    BY <1>3, <2>2
<1>6. Script(c) = Append(steps, final)
  BY DEF Script
<1> HIDE DEF steps, final
<1>7. /\ Script(c) \in Seq(Response)
      /\ Len(Script(c)) = Len(names) + 1
      /\ \A i \in 1 .. Len(names) : Script(c)[i] = steps[i]
      /\ Script(c)[Len(names) + 1] = final
  BY <1>2, <1>5, <1>6
<1>8. final.call = "none"
  BY DEF final
<1>9. \A i \in 1 .. Len(names) : Script(c)[i].call # "none"
  BY <1>3, <1>4, <1>7, EvalGateAssumption
<1> QED
  BY <1>3, <1>7, <1>8, <1>9

-----------------------------------------------------------------------------
(* The invariant.  Of the case that is run, the responses popped and those *)
(* pending make up its script, and the loop has counted the popped ones;   *)
(* a case that is still to come has asked for nothing.                     *)
Playing ==
    /\ pc \in Running => now \in DOMAIN cases
    /\ \A i \in DOMAIN cases :
         i > now \/ (i = now /\ pc \in {"loading", "starting"}) => calls[i] = 0
    /\ pc = "loading" => results = <<>>
    /\ pc \in {"asking", "calling", "judging"} =>
         /\ calls[now] + Len(pending) = Len(Script(case))
         /\ \A i \in 1 .. Len(pending) : pending[i] = Script(case)[calls[now] + i]
    /\ pc = "asking" =>
         pending # <<>> /\ calls[now] = IF case.mode = "chat" THEN 0 ELSE step
    /\ pc = "calling" =>
         /\ case.mode = "agent" /\ step < MaxSteps
         /\ calls[now] = step + 1 /\ Called \in ToolNames

Judged ==
    pc = "judging" =>
        LET asked  == calls[now]
            length == IF case.mode = "chat" THEN 1 ELSE Len(case.golden_tool_calls) + 1
        IN  /\ asked <= length
            /\ status = "completed" => asked = length
            /\ status = "max_steps_exceeded" => asked = MaxSteps /\ asked < length
            /\ status \in {"blocked_request", "blocked_response", "blocked_by_guardrail"} =>
                 asked \in {0, length}

IInv == TypeOK /\ Playing /\ Judged

LEMMA CaseTyped ==
    ASSUME TypeOK, now \in DOMAIN cases
    PROVE  case \in EvalCase /\ now \in Nat \ {0}
<1>1. cases \in Seq(EvalCase) /\ results \in Seq(Result)
  BY EvalGateAssumption DEF TypeOK
<1>2. now \in 1 .. Len(cases)
  BY <1>1
<1> QED
  BY <1>1, <1>2 DEF case, now

LEMMA InitIInv == Init => IInv
<1> SUFFICES ASSUME Init PROVE IInv
  OBVIOUS
<1>1. TypeOK
  <2>1. cases \in Seq(EvalCase)
    BY EvalGateAssumption DEF Init
  <2>2. NoneYet \in [Categories -> [total : Nat, passed : Nat]] /\ Empty \in Text
    BY DEF NoneYet, Empty, Text
  <2>3. MaxSteps \in Nat
    BY EvalGateAssumption
  <2> QED
    BY <2>1, <2>2, <2>3 DEF Init, TypeOK
<1>2. Playing
  BY DEF Init, Playing, Running
<1>3. Judged
  BY DEF Init, Judged
<1> QED
  BY <1>1, <1>2, <1>3 DEF IInv

(* Steps before the first case and after the last. *)
LEMMA FrameKeeps ==
    ASSUME IInv, NoCases \/ Load \/ Exited
    PROVE  IInv'
<1>1. TypeOK'
  BY DEF IInv, TypeOK, NoCases, Load, Exited, vars, UnchangedCase, UnchangedHistory,
         UnchangedReport
<1>2. Playing'
  <2>1. CASE NoCases \/ Exited
    BY <2>1 DEF IInv, Playing, Running, NoCases, Exited, vars, UnchangedCase, UnchangedHistory,
                case, now, Called
  <2>2. CASE Load
    <3>1. now = 1 /\ 1 \in DOMAIN cases
      <4>1. cases \in Seq(EvalCase) /\ cases # <<>>
        BY <2>2, EvalGateAssumption DEF IInv, TypeOK, Load
      <4> QED
        BY <2>2, <4>1 DEF IInv, Playing, Load, now
    <3> QED
      BY <2>2, <3>1 DEF IInv, Playing, Running, Load, UnchangedCase, UnchangedHistory,
                UnchangedReport, case, now, Called
  <2> QED
    BY <2>1, <2>2
<1>3. Judged'
  BY DEF IInv, Judged, NoCases, Load, Exited, vars, UnchangedCase, UnchangedHistory,
         UnchangedReport, case, now
<1> QED
  BY <1>1, <1>2, <1>3 DEF IInv

(* What the lemmas about the steps of a case start from. *)
LEMMA CaseFacts ==
    ASSUME IInv, pc \in Running
    PROVE  /\ now \in DOMAIN cases /\ now \in Nat \ {0}
           /\ case \in EvalCase
           /\ case.user_message \in Text /\ case.guardrail_policy \in GuardrailPolicy
           /\ calls[now] \in Nat /\ step \in Nat /\ MaxSteps \in Nat
           /\ pending \in Seq(Response)
<1>1. now \in DOMAIN cases
  BY DEF IInv, Playing
<1>2. case \in EvalCase /\ now \in Nat \ {0}
  BY <1>1, CaseTyped DEF IInv
<1> QED
  BY <1>1, <1>2, EvalGateAssumption DEF IInv, TypeOK, EvalCase

LEMMA StartKeeps ==
    ASSUME IInv, StartCase
    PROVE  IInv'
<1> DEFINE pre == ScreenRequest(case.user_message, case.guardrail_policy)
<1>1. pc = "starting" /\ pc \in Running
  BY DEF StartCase, Running
<1>2. /\ now \in DOMAIN cases /\ now \in Nat \ {0}
      /\ case.user_message \in Text /\ case \in EvalCase
      /\ pre.text \in Text
      /\ calls[now] = 0
  BY <1>1, CaseFacts, ScreenedText DEF IInv, Playing
<1>3. /\ Script(case) \in Seq(Response)
      /\ Len(case.golden_tool_calls) \in Nat
      /\ Len(Script(case)) = Len(case.golden_tool_calls) + 1
  BY <1>2, ScriptShape
<1>4. /\ pending' = Script(case) /\ step' = 0 /\ tools' = {}
      /\ UNCHANGED <<cases, results, categories, exit, sent, calls, returned>>
      /\ \/ /\ user' = case.user_message
            /\ pc' = "judging" /\ text' = Empty
            /\ status' \in {"blocked_request", "blocked_by_guardrail"}
         \/ user' = pre.text /\ pc' = "asking" /\ UNCHANGED <<status, text>>
  BY DEF StartCase, Ends, UnchangedReport, UnchangedHistory
<1> HIDE DEF pre
<1>5. case' = case /\ now' = now /\ now = Len(results) + 1
  BY <1>4 DEF case, now
<1>6. TypeOK'
  <2>1. Empty \in Text /\ MaxSteps \in Nat
    BY EvalGateAssumption DEF Empty, Text
  <2> QED
    BY <1>2, <1>3, <1>4, <2>1 DEF IInv, TypeOK, EvalStatus
<1>7. Playing'
  <2>1. Len(pending') \in Nat /\ calls'[now] = 0 /\ pending' # <<>>
    BY <1>2, <1>3, <1>4
  <2>2. \A i \in 1 .. Len(pending') : pending'[i] = Script(case)[calls'[now] + i]
    BY <1>4, <2>1
  <2>3. calls'[now] + Len(pending') = Len(Script(case))
    BY <1>4, <2>1
  <2>4. Script(case)' = Script(case)
    BY <1>5 DEF Script
  <2> QED
    BY <1>1, <1>2, <1>4, <1>5, <2>1, <2>2, <2>3, <2>4 DEF IInv, Playing, Running
<1>8. Judged'
  BY <1>2, <1>3, <1>4, <1>5 DEF Judged
<1> QED
  BY <1>6, <1>7, <1>8 DEF IInv

(* A response that is popped is the next one of the script. *)
LEMMA PopFacts ==
    ASSUME IInv, pc = "asking", NEW response \in Response, Pops(response)
    PROVE  /\ case' = case /\ now' = now
           /\ calls' = [calls EXCEPT ![now] = @ + 1]
           /\ calls'[now] = calls[now] + 1
           /\ pending' = Tail(pending) /\ pending' \in Seq(Response)
           /\ Len(pending') = Len(pending) - 1
           /\ calls'[now] + Len(pending') = Len(Script(case))
           /\ response = Script(case)[calls'[now]]
           /\ \A i \in 1 .. Len(pending') : pending'[i] = Script(case)[calls'[now] + i]
           /\ UNCHANGED <<user, step, tools, returned, cases, results, categories, exit>>
<1>1. pc \in Running
  BY DEF Running
<1>2. /\ now \in DOMAIN cases /\ calls[now] \in Nat
      /\ pending \in Seq(Response) /\ DOMAIN calls = DOMAIN cases
  BY <1>1, CaseFacts DEF IInv, TypeOK
<1>3. /\ pending # <<>> /\ response = Head(pending) /\ pending' = Tail(pending)
      /\ calls' = [calls EXCEPT ![now] = @ + 1]
      /\ UNCHANGED <<user, step, tools, returned, cases, results, categories, exit>>
  BY DEF Pops, UnchangedReport, now
<1>4. case' = case /\ now' = now
  BY <1>3 DEF case, now
<1>5. calls'[now] = calls[now] + 1
  BY <1>2, <1>3
<1>6. /\ Len(pending) \in Nat \ {0} /\ response = pending[1]
      /\ pending' \in Seq(Response) /\ Len(pending') = Len(pending) - 1
      /\ \A i \in 1 .. Len(pending') : pending'[i] = pending[i + 1]
  BY <1>2, <1>3
<1>7. /\ calls[now] + Len(pending) = Len(Script(case))
      /\ \A i \in 1 .. Len(pending) : pending[i] = Script(case)[calls[now] + i]
  BY DEF IInv, Playing
<1>8. response = Script(case)[calls'[now]]
  BY <1>5, <1>6, <1>7
<1>9. \A i \in 1 .. Len(pending') : pending'[i] = Script(case)[calls'[now] + i]
  <2> TAKE i \in 1 .. Len(pending')
  <2>1. i + 1 \in 1 .. Len(pending) /\ pending'[i] = pending[i + 1]
    BY <1>6
  <2>2. calls[now] + (i + 1) = calls'[now] + i
    BY <1>2, <1>5, <1>6
  <2> QED
    BY <1>7, <2>1, <2>2
<1>10. calls'[now] + Len(pending') = Len(Script(case))
  BY <1>2, <1>5, <1>6, <1>7
<1> QED
  BY <1>3, <1>4, <1>5, <1>6, <1>8, <1>9, <1>10

(* The types of what a pop changes. *)
LEMMA PopTypes ==
    ASSUME IInv, pc = "asking", NEW response \in Response, Pops(response),
           pc' \in {"calling", "judging"}, status' \in EvalStatus \cup {"none"}, text' \in Text
    PROVE  TypeOK'
<1>1. pc \in Running
  BY DEF Running
<1>2. now \in DOMAIN cases /\ calls[now] \in Nat
  BY <1>1, CaseFacts
<1>3. /\ pending' \in Seq(Response) /\ calls' = [calls EXCEPT ![now] = @ + 1]
      /\ UNCHANGED <<user, step, tools, returned, cases, results, categories, exit>>
  BY PopFacts
<1>4. sent' = [sent EXCEPT ![now] = @ \cup {user}]
  BY DEF Pops, now
<1>5. DOMAIN sent' = DOMAIN cases' /\ \A i \in DOMAIN cases' : sent'[i] \subseteq Text
  BY <1>3, <1>4 DEF IInv, TypeOK
<1>6. calls' \in [DOMAIN cases' -> Nat]
  BY <1>2, <1>3 DEF IInv, TypeOK
<1> QED
  BY <1>3, <1>5, <1>6 DEF IInv, TypeOK

LEMMA AskKeeps ==
    ASSUME IInv, AskForTool
    PROVE  IInv'
<1>1. PICK response \in Response :
        case.mode = "agent" /\ response.call # "none" /\ Pops(response)
  BY DEF AskForTool
<1>2. /\ pc = "asking" /\ pc' = "calling" /\ pc \in Running
      /\ UNCHANGED <<status, text>>
  BY DEF AskForTool, Running
<1>3. TypeOK'
  BY <1>1, <1>2, PopTypes DEF IInv, TypeOK
<1>4. /\ now \in DOMAIN cases /\ case \in EvalCase /\ now \in Nat
      /\ calls[now] \in Nat /\ step \in Nat /\ MaxSteps \in Nat
      /\ calls[now] = step
  BY <1>1, <1>2, CaseFacts DEF IInv, Playing
<1>5. /\ case' = case /\ now' = now
      /\ calls'[now] = calls[now] + 1 /\ calls' = [calls EXCEPT ![now] = @ + 1]
      /\ calls'[now] + Len(pending') = Len(Script(case))
      /\ response = Script(case)[calls'[now]]
      /\ \A i \in 1 .. Len(pending') : pending'[i] = Script(case)[calls'[now] + i]
      /\ UNCHANGED <<step, cases, results>> /\ pending' \in Seq(Response)
  BY <1>1, <1>2, PopFacts
<1>6. step < MaxSteps
  BY <1>1 DEF Pops, StepsLeft
<1>7. Script(case)' = Script(case)
  BY <1>5 DEF Script
<1>8. Called' = response.call /\ response.call \in ToolNames
  <2>1. Len(Script(case)) - Len(pending') = calls'[now]
    BY <1>4, <1>5
  <2>2. Called' = Script(case)[Len(Script(case)) - Len(pending')].call
    BY <1>5, <1>7 DEF Called
  <2> QED
    BY <1>1, <1>5, <2>1, <2>2 DEF Response
<1>9. Playing'
  <2>1. \A i \in DOMAIN cases' :
           i > now' \/ (i = now' /\ pc' \in {"loading", "starting"}) => calls'[i] = 0
    <3> SUFFICES ASSUME NEW i \in DOMAIN cases, i > now PROVE calls'[i] = 0
      BY <1>2, <1>5
    <3>1. calls'[i] = calls[i]
      BY <1>4, <1>5 DEF IInv, TypeOK
    <3> QED
      BY <3>1 DEF IInv, Playing
  <2>2. /\ calls'[now'] + Len(pending') = Len(Script(case)')
        /\ \A i \in 1 .. Len(pending') : pending'[i] = Script(case)'[calls'[now'] + i]
    BY <1>5, <1>7
  <2>3. /\ case'.mode = "agent" /\ step' < MaxSteps
        /\ calls'[now'] = step' + 1 /\ Called' \in ToolNames
    BY <1>1, <1>4, <1>5, <1>6, <1>8
  <2>4. now' \in DOMAIN cases'
    BY <1>4, <1>5
  <2> QED
    BY <1>2, <2>1, <2>2, <2>3, <2>4 DEF Playing
<1>10. Judged'
  BY <1>2 DEF Judged
<1> QED
  BY <1>3, <1>9, <1>10 DEF IInv

LEMMA AnswerKeeps ==
    ASSUME IInv, Answer
    PROVE  IInv'
<1>1. PICK response \in Response :
        LET post == ScreenResponse(response.content, case.guardrail_policy)
        IN  /\ case.mode = "chat" \/ response.call = "none"
            /\ Pops(response)
            /\ \/ post.allowed /\ Ends("completed", post.text)
               \/ /\ ~post.allowed
                  /\ Ends(IF case.mode = "chat" THEN "blocked_response"
                          ELSE "blocked_by_guardrail", Empty)
  BY DEF Answer
<1>2. pc = "asking" /\ pc \in Running
  BY DEF Answer, Running
<1>3. /\ now \in DOMAIN cases /\ case \in EvalCase /\ now \in Nat
      /\ calls[now] \in Nat /\ case.guardrail_policy \in GuardrailPolicy
  BY <1>2, CaseFacts
<1>4. /\ Empty \in Text
      /\ ScreenResponse(response.content, case.guardrail_policy).text \in Text
  <2>1. response.content \in Text
    BY DEF Response
  <2> QED
    BY <1>3, <2>1, ScreenedText DEF Empty, Text
<1>5. pc' = "judging" /\ status' \in {"completed", "blocked_response", "blocked_by_guardrail"}
        /\ text' \in Text
  BY <1>1, <1>4 DEF Ends
<1>6. TypeOK'
  BY <1>1, <1>2, <1>5, PopTypes DEF EvalStatus
<1>7. /\ case' = case /\ now' = now
      /\ calls'[now] = calls[now] + 1 /\ calls' = [calls EXCEPT ![now] = @ + 1]
      /\ calls'[now] + Len(pending') = Len(Script(case))
      /\ response = Script(case)[calls'[now]]
      /\ \A i \in 1 .. Len(pending') : pending'[i] = Script(case)[calls'[now] + i]
      /\ UNCHANGED <<cases, results>> /\ pending' \in Seq(Response)
  BY <1>1, <1>2, PopFacts
<1>8. Script(case)' = Script(case)
  BY <1>7 DEF Script
<1>9. Playing'
  <2>1. \A i \in DOMAIN cases' :
           i > now' \/ (i = now' /\ pc' \in {"loading", "starting"}) => calls'[i] = 0
    <3> SUFFICES ASSUME NEW i \in DOMAIN cases, i > now PROVE calls'[i] = 0
      BY <1>5, <1>7
    <3>1. calls'[i] = calls[i]
      BY <1>3, <1>7 DEF IInv, TypeOK
    <3> QED
      BY <3>1 DEF IInv, Playing
  <2>2. /\ calls'[now'] + Len(pending') = Len(Script(case)')
        /\ \A i \in 1 .. Len(pending') : pending'[i] = Script(case)'[calls'[now'] + i]
    BY <1>7, <1>8
  <2>3. now' \in DOMAIN cases'
    BY <1>3, <1>7
  <2> QED
    BY <1>5, <2>1, <2>2, <2>3 DEF Playing
<1>10. Judged'
  <2>1. /\ Len(Script(case)) = Len(case.golden_tool_calls) + 1
        /\ Len(case.golden_tool_calls) \in Nat
        /\ \A i \in 1 .. Len(Script(case)) :
             Script(case)[i].call = "none" <=> i = Len(Script(case))
    BY <1>3, ScriptShape
  <2>2. case.mode = "chat" => calls'[now] = 1
    BY <1>2, <1>7 DEF IInv, Playing
  <2>3. case.mode # "chat" => calls'[now] = Len(case.golden_tool_calls) + 1
    <3>1. calls'[now] \in 1 .. Len(Script(case))
      <4>1. Len(pending') \in Nat
        BY <1>7
      <4> QED
        BY <1>3, <1>7, <2>1, <4>1
    <3>2. case.mode # "chat" => response.call = "none"
      BY <1>1
    <3> QED
      BY <1>7, <2>1, <3>1, <3>2
  <2> QED
    BY <1>5, <1>7, <2>1, <2>2, <2>3 DEF Judged
<1> QED
  BY <1>6, <1>9, <1>10 DEF IInv

LEMMA CallKeeps ==
    ASSUME IInv, CallTool
    PROVE  IInv'
<1>1. /\ pc = "calling" /\ pc' = "asking" /\ pc \in Running /\ step' = step + 1
      /\ UNCHANGED <<user, pending, status, text, sent, calls, cases, results, categories, exit>>
  BY DEF CallTool, Running, UnchangedReport
<1>2. PICK works \in BOOLEAN :
        /\ Counts(Called, works)
        /\ returned' = [returned EXCEPT ![Len(results) + 1] = IF works THEN @ \cup {Called} ELSE @]
  BY DEF CallTool
<1>3. /\ now \in DOMAIN cases /\ case \in EvalCase /\ now \in Nat
      /\ calls[now] = step + 1 /\ step \in Nat /\ MaxSteps \in Nat /\ step < MaxSteps
      /\ case.mode = "agent" /\ Called \in ToolNames /\ pending \in Seq(Response)
      /\ calls[now] + Len(pending) = Len(Script(case))
  BY <1>1, CaseFacts DEF IInv, Playing
<1>4. case' = case /\ now' = now /\ Script(case)' = Script(case)
  BY <1>1 DEF case, now, Script
<1>5. TypeOK'
  <2>1. tools' \subseteq ToolNames
    BY <1>2, <1>3 DEF Counts, IInv, TypeOK
  <2>2. returned' \in [DOMAIN cases' -> SUBSET ToolNames]
    BY <1>1, <1>2, <1>3 DEF now, IInv, TypeOK
  <2>3. step' \in 0 .. MaxSteps
    BY <1>1, <1>3
  <2> QED
    BY <1>1, <2>1, <2>2, <2>3 DEF IInv, TypeOK
<1>6. pending # <<>>
  <2>1. Called = Script(case)[calls[now]] .call
    BY <1>3 DEF Called
  <2>2. calls[now] # Len(Script(case))
    BY <1>3, <2>1, ScriptShape, EvalGateAssumption
  <2> QED
    BY <1>3, <2>2
<1>7. Playing'
  <2>1. \A i \in DOMAIN cases' :
           i > now' \/ (i = now' /\ pc' \in {"loading", "starting"}) => calls'[i] = 0
    BY <1>1, <1>4 DEF IInv, Playing
  <2>2. /\ calls'[now'] + Len(pending') = Len(Script(case)')
        /\ \A i \in 1 .. Len(pending') : pending'[i] = Script(case)'[calls'[now'] + i]
    BY <1>1, <1>4 DEF IInv, Playing
  <2>3. pending' # <<>> /\ calls'[now'] = IF case'.mode = "chat" THEN 0 ELSE step'
    BY <1>1, <1>3, <1>4, <1>6
  <2>4. now' \in DOMAIN cases'
    BY <1>1, <1>3, <1>4
  <2> QED
    BY <1>1, <2>1, <2>2, <2>3, <2>4 DEF Playing
<1>8. Judged'
  BY <1>1 DEF Judged
<1> QED
  BY <1>5, <1>7, <1>8 DEF IInv

LEMMA ExceedKeeps ==
    ASSUME IInv, StepsExceeded
    PROVE  IInv'
<1>1. /\ pc = "asking" /\ pc' = "judging" /\ pc \in Running
      /\ status' = "max_steps_exceeded" /\ text' = Empty
      /\ case.mode # "chat" /\ ~(step < MaxSteps)
      /\ UNCHANGED <<user, pending, step, tools, cases, results, categories, exit,
                     sent, calls, returned>>
  BY DEF StepsExceeded, StepsLeft, Ends, Running, UnchangedReport, UnchangedHistory
<1>2. /\ now \in DOMAIN cases /\ case \in EvalCase /\ pending \in Seq(Response)
      /\ calls[now] = step /\ step \in Nat /\ MaxSteps \in Nat /\ pending # <<>>
      /\ calls[now] + Len(pending) = Len(Script(case))
  BY <1>1, CaseFacts DEF IInv, Playing
<1>3. case' = case /\ now' = now /\ Script(case)' = Script(case)
  BY <1>1 DEF case, now, Script
<1>4. TypeOK'
  BY <1>1 DEF IInv, TypeOK, EvalStatus, Empty, Text
<1>5. Playing'
  <2>1. \A i \in DOMAIN cases' :
           i > now' \/ (i = now' /\ pc' \in {"loading", "starting"}) => calls'[i] = 0
    BY <1>1, <1>3 DEF IInv, Playing
  <2>2. /\ calls'[now'] + Len(pending') = Len(Script(case)')
        /\ \A i \in 1 .. Len(pending') : pending'[i] = Script(case)'[calls'[now'] + i]
    BY <1>1, <1>3 DEF IInv, Playing
  <2>3. now' \in DOMAIN cases'
    BY <1>1, <1>2, <1>3
  <2> QED
    BY <1>1, <2>1, <2>2, <2>3 DEF Playing
<1>6. Judged'
  <2>1. calls'[now'] = MaxSteps /\ case'.mode # "chat"
    BY <1>1, <1>2, <1>3 DEF IInv, TypeOK
  <2>2. Len(case.golden_tool_calls) \in Nat /\ calls[now] < Len(case.golden_tool_calls) + 1
    BY <1>2, ScriptShape
  <2> QED
    BY <1>1, <1>2, <1>3, <2>1, <2>2 DEF Judged
<1> QED
  BY <1>4, <1>5, <1>6 DEF IInv

(* The case is over and the next one has still to ask. *)
LEMMA VerdictKeeps ==
    ASSUME IInv, pc \in Running, NEW passed \in BOOLEAN, NEW error \in BOOLEAN,
           Verdict(passed, error)
    PROVE  IInv'
<1> DEFINE verdict == [category |-> case.category, passed |-> passed, error |-> error]
<1>1. /\ results' = Append(results, verdict)
      /\ pc' = IF Len(results') = Len(cases) THEN "reporting" ELSE "starting"
      /\ UNCHANGED <<cases, categories, exit, user, pending, step, tools, status, text,
                     sent, calls, returned>>
  BY DEF Verdict, UnchangedCase, UnchangedHistory
<1>2. /\ now \in DOMAIN cases /\ case \in EvalCase /\ verdict \in Result
      /\ results \in Seq(Result) /\ cases \in Seq(EvalCase)
  <2>1. now \in DOMAIN cases /\ case \in EvalCase
    BY CaseFacts
  <2> QED
    BY <2>1, EvalGateAssumption DEF EvalCase, Result, IInv, TypeOK
<1> HIDE DEF verdict
<1>3. /\ results' \in Seq(Result) /\ Len(results') = Len(results) + 1
      /\ Len(results) \in Nat /\ Len(cases) \in Nat /\ DOMAIN cases = 1 .. Len(cases)
  BY <1>1, <1>2
<1>4. /\ now \in Nat /\ now' = now + 1 /\ now = Len(results) + 1
      /\ now <= Len(cases) /\ now' = Len(results') + 1
  BY <1>2, <1>3 DEF now
<1>5. TypeOK'
  <2>1. Len(results') <= Len(cases)
    BY <1>3, <1>4
  <2>2. pc' \in {"reporting", "starting"}
    BY <1>1
  <2> QED
    BY <1>1, <1>3, <2>1, <2>2 DEF IInv, TypeOK
<1>6. Playing'
  <2>1. \A i \in DOMAIN cases' : i > now' \/ i = now' => calls'[i] = 0
    <3> SUFFICES ASSUME NEW i \in 1 .. Len(cases), i > now' \/ i = now' PROVE calls[i] = 0
      BY <1>1, <1>3
    <3>1. i > now
      BY <1>4
    <3> QED
      BY <1>3, <3>1 DEF IInv, Playing
  <2>2. pc' = "starting" => now' \in DOMAIN cases'
    <3>1. pc' = "starting" => Len(results') # Len(cases)
      BY <1>1
    <3>2. ASSUME Len(results') # Len(cases)
          PROVE  now' \in 1 .. Len(cases)
      <4>1. Len(results') = now /\ Len(cases) \in Nat
        BY <1>3, <1>4
      <4>2. now # Len(cases)
        BY <3>2, <4>1
      <4> QED
        BY <1>4, <4>1, <4>2
    <3> QED
      BY <1>1, <1>3, <3>1, <3>2
  <2>3. pc' \in {"reporting", "starting"}
    BY <1>1
  <2> QED
    BY <2>1, <2>2, <2>3 DEF Playing, Running
<1>7. Judged'
  BY <1>1 DEF Judged
<1> QED
  BY <1>5, <1>6, <1>7 DEF IInv

LEMMA ReportKeeps ==
    ASSUME IInv, Report
    PROVE  IInv'
<1>1. /\ pc' = "exited" /\ exit' \in {0, 1}
      /\ categories' = [c \in Categories |->
           [total |-> Cardinality({i \in DOMAIN results : results[i].category = c}),
            passed |-> Cardinality({i \in {i \in DOMAIN results : results[i].category = c} :
                                     results[i].passed})]]
      /\ UNCHANGED <<cases, results, user, pending, step, tools, status, text,
                     sent, calls, returned>>
  BY DEF Report, UnchangedCase, UnchangedHistory
<1>2. \A set \in SUBSET DOMAIN results : Cardinality(set) \in Nat
  <2>1. IsFiniteSet(DOMAIN results)
    <3>1. DOMAIN results = 1 .. Len(results) /\ Len(results) \in Nat
      BY DEF IInv, TypeOK
    <3> QED
      BY <3>1, FS_Interval
  <2> QED
    BY <2>1, FS_Subset, FS_CardinalityType
<1>3. categories' \in [Categories -> [total : Nat, passed : Nat]]
  <2> SUFFICES ASSUME NEW c \in Categories
               PROVE  categories'[c] \in [total : Nat, passed : Nat]
    BY <1>1
  <2> QED
    BY <1>1, <1>2
<1>4. TypeOK'
  BY <1>1, <1>3 DEF IInv, TypeOK
<1>5. Playing'
  BY <1>1 DEF IInv, Playing, Running, now
<1>6. Judged'
  BY <1>1 DEF Judged
<1> QED
  BY <1>4, <1>5, <1>6 DEF IInv

LEMMA StepKeepsIInv == IInv /\ [Next]_vars => IInv'
<1> SUFFICES ASSUME IInv, [Next]_vars PROVE IInv'
  OBVIOUS
<1>1. CASE Judge
  <2>1. (\A a \in case.assertions : Holds(a)) \in BOOLEAN
    OBVIOUS
  <2> QED
    BY <1>1, <2>1, VerdictKeeps DEF Judge, Running
<1>2. CASE BlowUp
  BY <1>2, VerdictKeeps DEF BlowUp, Running
<1>3. CASE UNCHANGED vars
  BY <1>3 DEF vars, IInv, TypeOK, Playing, Judged, Running, now, case, Called
<1> QED
  BY <1>1, <1>2, <1>3, StartKeeps, AskKeeps, AnswerKeeps, CallKeeps, ExceedKeeps, ReportKeeps,
     FrameKeeps DEF Next

LEMMA Invariance == Spec => []IInv
<1> QED
  BY InitIInv, StepKeepsIInv, PTL DEF Spec

-----------------------------------------------------------------------------
(* Types: what is pending is golden, the loop of an agent case never       *)
(* counts beyond max_steps (runtime.py), and no case is judged twice.      *)
THEOREM TypeCorrect == Spec => []TypeOK
<1>1. IInv => TypeOK
  BY DEF IInv
<1> QED
  BY <1>1, Invariance, PTL

(* The provider of a case is never asked beyond its golden script          *)
(* (golden_provider.py): however its tools fare, whatever the guardrails   *)
(* make of its texts, and wherever an earlier case ended.                  *)
THEOREM ScriptAlwaysFits == Spec => []ScriptFits
<1>1. IInv => ScriptFits
  BY DEF IInv, Playing, Judged, ScriptFits, now
<1> QED
  BY <1>1, Invariance, PTL
-----------------------------------------------------------------------------
(* The verdicts.                                                           *)

(* Of the case that is run: what its provider was sent, what its tools     *)
(* returned, and whose text it ended with.                                 *)
Honest ==
    /\ \A i \in DOMAIN cases :
         i > now \/ (i = now /\ pc \in {"loading", "starting"}) => sent[i] = {}
    /\ pc \in {"asking", "calling", "judging"} =>
         /\ sent[now] \subseteq {user}
         /\ tools \subseteq returned[now]
         /\ \A v \in Contents : user[v] => case.user_message[v]

Reached == case.mode = "agent" \/ case.golden_tool_calls = <<>>

Outcome ==
    pc = "judging" =>
        /\ \A v \in Contents : text[v] =>
             Reached /\ calls[now] = Len(case.golden_tool_calls) + 1 /\ case.golden_final_text[v]
        /\ status = "blocked_request" => sent[now] = {}
        /\ status = "completed" => sent[now] # {}

JInv == Honest /\ Outcome /\ VerdictsSound

(* Screening adds nothing to a text. *)
LEMMA ScreenedLess ==
    ASSUME NEW t \in Text, NEW policy \in GuardrailPolicy, NEW v \in Contents
    PROVE  /\ ScreenRequest(t, policy).text[v] => t[v]
           /\ ScreenResponse(t, policy).text[v] => t[v]
BY DEF ScreenRequest, ScreenResponse, Text, Redact, Contents

(* The text of a response is the golden one if it is the last, else empty. *)
LEMMA ScriptText ==
    ASSUME NEW c \in EvalCase
    PROVE  \A i \in 1 .. Len(Script(c)) :
             Script(c)[i].content =
                IF i = Len(Script(c)) THEN c.golden_final_text ELSE Empty
<1> DEFINE names == c.golden_tool_calls
           steps == [i \in 1 .. Len(names) |-> [content |-> Empty, call |-> names[i]]]
           final == [content |-> c.golden_final_text, call |-> "none"]
<1>1. /\ Len(names) \in Nat /\ Len(Script(c)) = Len(names) + 1
  BY ScriptShape
<1>2. steps \in Seq([content : {Empty}, call : ToolNames]) /\ Len(steps) = Len(names)
  <2>1. names \in Seq(ToolNames)
    BY DEF EvalCase
  <2>2. \A i \in 1 .. Len(names) :
           [content |-> Empty, call |-> names[i]] \in [content : {Empty}, call : ToolNames]
    BY <2>1
  <2>3. [i \in 1 .. Len(names) |-> [content |-> Empty, call |-> names[i]]] \in
           [1 .. Len(names) -> [content : {Empty}, call : ToolNames]]
    BY <2>2, Zenon
  <2> HIDE DEF names
  <2> QED
    BY <1>1, <2>3
<1>3. Script(c) = Append(steps, final)
  BY DEF Script
<1>4. \A i \in 1 .. Len(names) : steps[i].content = Empty
  BY <1>1
<1> HIDE DEF steps, final
<1>5. /\ \A i \in 1 .. Len(names) : Script(c)[i] = steps[i]
      /\ Script(c)[Len(names) + 1] = final
  BY <1>2, <1>3
<1>6. final.content = c.golden_final_text
  BY DEF final
<1> QED
  BY <1>1, <1>4, <1>5, <1>6

(* A verdict stays right: what it is about belongs to a case that is over. *)
LEMMA VerdictsStay ==
    ASSUME VerdictsSound, UNCHANGED <<cases, results>>,
           \A i \in DOMAIN results :
              sent'[i] = sent[i] /\ calls'[i] = calls[i] /\ returned'[i] = returned[i]
    PROVE  VerdictsSound'
BY DEF VerdictsSound, Meant

LEMMA JudgedApart ==
    ASSUME IInv
    PROVE  now \notin DOMAIN results /\ now \in Nat
BY DEF IInv, TypeOK, now

LEMMA StartHonest ==
    ASSUME IInv, JInv, StartCase
    PROVE  JInv'
<1> DEFINE pre == ScreenRequest(case.user_message, case.guardrail_policy)
<1>1. pc = "starting" /\ pc \in Running
  BY DEF StartCase, Running
<1>2. /\ now \in DOMAIN cases /\ now \in Nat
      /\ case.user_message \in Text /\ case.guardrail_policy \in GuardrailPolicy
      /\ sent[now] = {}
  BY <1>1, CaseFacts DEF JInv, Honest
<1>3. \A v \in Contents : pre.text[v] => case.user_message[v]
  BY <1>2, ScreenedLess
<1>4. /\ tools' = {}
      /\ UNCHANGED <<cases, results, categories, exit, sent, calls, returned>>
      /\ \/ /\ user' = case.user_message
            /\ pc' = "judging" /\ text' = Empty
            /\ status' \in {"blocked_request", "blocked_by_guardrail"}
         \/ user' = pre.text /\ pc' = "asking" /\ UNCHANGED <<status, text>>
  BY DEF StartCase, Ends, UnchangedReport, UnchangedHistory
<1> HIDE DEF pre
<1>5. case' = case /\ now' = now
  BY <1>4 DEF case, now
<1>6. Honest'
  <2>1. \A v \in Contents : user'[v] => case'.user_message[v]
    BY <1>3, <1>4, <1>5
  <2>2. \A i \in DOMAIN cases' :
           i > now' \/ (i = now' /\ pc' \in {"loading", "starting"}) => sent'[i] = {}
    BY <1>4, <1>5 DEF JInv, Honest
  <2> QED
    BY <1>2, <1>4, <1>5, <2>1, <2>2 DEF Honest
<1>7. Outcome'
  BY <1>2, <1>4, <1>5 DEF Outcome, Empty, Contents
<1>8. VerdictsSound'
  BY <1>4, VerdictsStay DEF JInv
<1> QED
  BY <1>6, <1>7, <1>8 DEF JInv

(* A pop sends the message of the case that is run, and no other's. *)
LEMMA PopHonest ==
    ASSUME IInv, JInv, pc = "asking", NEW response \in Response, Pops(response),
           pc' \in {"calling", "judging"}
    PROVE  Honest' /\ VerdictsSound' /\ sent'[now] # {}
<1>1. pc \in Running
  BY DEF Running
<1>2. now \in DOMAIN cases /\ now \in Nat /\ now \notin DOMAIN results
  BY <1>1, CaseFacts, JudgedApart
<1>3. /\ case' = case /\ now' = now /\ calls' = [calls EXCEPT ![now] = @ + 1]
      /\ UNCHANGED <<user, step, tools, returned, cases, results, categories, exit>>
  BY PopFacts
<1>4. sent' = [sent EXCEPT ![now] = @ \cup {user}] /\ DOMAIN sent = DOMAIN cases
  BY DEF Pops, now, IInv, TypeOK
<1>5. /\ sent'[now] = sent[now] \cup {user}
      /\ \A i \in DOMAIN cases \ {now} : sent'[i] = sent[i]
  BY <1>2, <1>4
<1>6. Honest'
  <2>1. \A i \in DOMAIN cases' :
           i > now' \/ (i = now' /\ pc' \in {"loading", "starting"}) => sent'[i] = {}
    <3> SUFFICES ASSUME NEW i \in DOMAIN cases, i > now PROVE sent'[i] = {}
      BY <1>3
    <3>1. i # now
      BY <1>2
    <3> QED
      BY <1>5, <3>1 DEF JInv, Honest
  <2>2. /\ sent[now] \subseteq {user} /\ tools \subseteq returned[now]
        /\ \A v \in Contents : user[v] => case.user_message[v]
    BY DEF JInv, Honest
  <2> QED
    BY <1>3, <1>5, <2>1, <2>2 DEF Honest
<1>7. VerdictsSound'
  <2>1. \A i \in DOMAIN results : i \in DOMAIN cases \ {now}
    BY <1>2 DEF IInv, TypeOK
  <2>2. \A i \in DOMAIN results :
           sent'[i] = sent[i] /\ calls'[i] = calls[i] /\ returned'[i] = returned[i]
    BY <1>3, <1>5, <2>1 DEF IInv, TypeOK
  <2> QED
    BY <1>3, <2>2, VerdictsStay DEF JInv
<1> QED
  BY <1>5, <1>6, <1>7

LEMMA AnswerHonest ==
    ASSUME IInv, JInv, Answer
    PROVE  JInv'
<1>1. PICK response \in Response :
        LET post == ScreenResponse(response.content, case.guardrail_policy)
        IN  /\ case.mode = "chat" \/ response.call = "none"
            /\ Pops(response)
            /\ \/ post.allowed /\ Ends("completed", post.text)
               \/ /\ ~post.allowed
                  /\ Ends(IF case.mode = "chat" THEN "blocked_response"
                          ELSE "blocked_by_guardrail", Empty)
  BY DEF Answer
<1>2. /\ pc = "asking" /\ pc' = "judging" /\ pc \in Running
      /\ status' # "blocked_request"
      /\ \/ text' = ScreenResponse(response.content, case.guardrail_policy).text
         \/ text' = Empty
  BY <1>1 DEF Answer, Ends, Running
<1>3. Honest' /\ VerdictsSound' /\ sent'[now] # {}
  BY <1>1, <1>2, PopHonest
<1>4. /\ case \in EvalCase /\ case.guardrail_policy \in GuardrailPolicy
      /\ calls[now] \in Nat /\ response.content \in Text
  BY <1>2, CaseFacts DEF Response
<1>5. /\ case' = case /\ now' = now /\ calls'[now] = calls[now] + 1
      /\ calls'[now] + Len(pending') = Len(Script(case))
      /\ response = Script(case)[calls'[now]] /\ pending' \in Seq(Response)
  BY <1>1, <1>2, PopFacts
<1>6. /\ Len(Script(case)) = Len(case.golden_tool_calls) + 1
      /\ Len(case.golden_tool_calls) \in Nat
      /\ case.golden_tool_calls \in Seq(ToolNames)
  BY <1>4, ScriptShape DEF EvalCase
<1>7. calls'[now] \in 1 .. Len(Script(case))
  <2>1. Len(pending') \in Nat
    BY <1>5
  <2>2. calls'[now] \in Nat \ {0} /\ Len(Script(case)) \in Nat
    <3>1. calls[now] \in Nat /\ calls'[now] = calls[now] + 1
      BY <1>4, <1>5
    <3>2. Len(Script(case)) \in Nat
      BY <1>6
    <3> QED
      BY <3>1, <3>2
  <2>3. calls'[now] <= Len(Script(case))
    BY <1>5, <2>1, <2>2
  <2> QED
    BY <2>2, <2>3
<1>8. ASSUME NEW v \in Contents, text'[v]
      PROVE  /\ Reached /\ calls'[now] = Len(case.golden_tool_calls) + 1
             /\ case.golden_final_text[v]
  <2>1. ~Empty[v]
    BY DEF Empty, Contents
  <2>2. response.content[v]
    BY <1>2, <1>4, <1>8, <2>1, ScreenedLess
  <2>3. response.content = IF calls'[now] = Len(Script(case)) THEN case.golden_final_text ELSE Empty
    BY <1>4, <1>5, <1>7, ScriptText
  <2>4. calls'[now] = Len(case.golden_tool_calls) + 1 /\ case.golden_final_text[v]
    BY <1>6, <2>1, <2>2, <2>3
  <2>5. case.mode = "chat" => calls'[now] = 1
    BY <1>2, <1>5 DEF IInv, Playing
  <2>6. case.mode = "chat" => case.golden_tool_calls = <<>>
    BY <1>6, <2>4, <2>5
  <2>7. case.mode \in {"chat", "agent"}
    BY <1>4 DEF EvalCase
  <2> QED
    BY <2>4, <2>6, <2>7 DEF Reached
<1>9. Reached' <=> Reached
  BY <1>5 DEF Reached
<1>10. Outcome'
  BY <1>2, <1>3, <1>5, <1>8, <1>9 DEF Outcome
<1> QED
  BY <1>3, <1>10 DEF JInv

LEMMA AskHonest ==
    ASSUME IInv, JInv, AskForTool
    PROVE  JInv'
<1>1. PICK response \in Response : Pops(response)
  BY DEF AskForTool
<1>2. pc = "asking" /\ pc' = "calling"
  BY DEF AskForTool
<1>3. Honest' /\ VerdictsSound'
  BY <1>1, <1>2, PopHonest
<1>4. Outcome'
  BY <1>2 DEF Outcome
<1> QED
  BY <1>3, <1>4 DEF JInv

LEMMA CallHonest ==
    ASSUME IInv, JInv, CallTool
    PROVE  JInv'
<1>1. /\ pc = "calling" /\ pc' = "asking" /\ pc \in Running
      /\ UNCHANGED <<user, pending, status, text, sent, calls, cases, results, categories, exit>>
  BY DEF CallTool, Running, UnchangedReport
<1>2. PICK works \in BOOLEAN :
        /\ Counts(Called, works)
        /\ returned' = [returned EXCEPT ![now] = IF works THEN @ \cup {Called} ELSE @]
  BY DEF CallTool, now
<1>3. /\ now \in DOMAIN cases /\ now \in Nat /\ now \notin DOMAIN results
      /\ case' = case /\ now' = now
  BY <1>1, CaseFacts, JudgedApart DEF case, now
<1>4. /\ returned'[now] = IF works THEN returned[now] \cup {Called} ELSE returned[now]
      /\ \A i \in DOMAIN cases \ {now} : returned'[i] = returned[i]
  BY <1>2, <1>3 DEF IInv, TypeOK
<1>5. Honest'
  <2>1. tools' \subseteq returned'[now]
    BY <1>1, <1>2, <1>4 DEF Counts, JInv, Honest
  <2> QED
    BY <1>1, <1>3, <2>1 DEF JInv, Honest
<1>6. VerdictsSound'
  <2>1. \A i \in DOMAIN results : i \in DOMAIN cases \ {now}
    BY <1>3 DEF IInv, TypeOK
  <2> QED
    BY <1>1, <1>4, <2>1, VerdictsStay DEF JInv
<1>7. Outcome'
  BY <1>1 DEF Outcome
<1> QED
  BY <1>5, <1>6, <1>7 DEF JInv

(* What a passed case that Judge found to hold was asked for. *)
LEMMA JudgedMeant ==
    ASSUME IInv, JInv, pc = "judging", \A a \in case.assertions : Holds(a)
    PROVE  Meant(now)
<1>1. /\ pc \in Running /\ case \in EvalCase /\ case = cases[now]
  BY CaseFacts DEF Running, case, now
<1>2. /\ sent[now] \subseteq {user} /\ tools \subseteq returned[now]
      /\ \A v \in Contents : user[v] => case.user_message[v]
      /\ \A v \in Contents : text[v] =>
           Reached /\ calls[now] = Len(case.golden_tool_calls) + 1 /\ case.golden_final_text[v]
      /\ status = "blocked_request" => sent[now] = {}
      /\ status = "completed" => sent[now] # {}
  BY DEF JInv, Honest, Outcome
<1> SUFFICES ASSUME NEW a \in case.assertions
             PROVE  CASE a.type = "tool_called"        -> a.value \in returned[now]
                      [] a.type = "input_not_contains" -> \A t \in sent[now] : ~t[a.value]
                      [] a.type = "contains"           ->
                           Reached /\ calls[now] = Len(case.golden_tool_calls) + 1
                                   /\ case.golden_final_text[a.value]
                      [] a.type = "status_equals" /\ a.value = "blocked_request" -> sent[now] = {}
                      [] a.type = "status_equals" /\ a.value = "completed" -> sent[now] # {}
                      [] a.type = "unknown" -> FALSE
                      [] OTHER -> TRUE
  BY <1>1 DEF Meant, Reached
<1>3. a \in Assertion /\ Holds(a)
  BY <1>1 DEF EvalCase
<1>4. CASE a.type = "tool_called"
  BY <1>2, <1>3, <1>4 DEF Holds
<1>5. CASE a.type = "input_not_contains"
  <2>1. a.value \in Contents
    BY <1>3, <1>5 DEF Assertion
  <2>2. ~Input[a.value]
    BY <1>3, <1>5 DEF Holds
  <2>3. ~user[a.value]
    BY <1>2, <2>1, <2>2 DEF Input
  <2> QED
    BY <1>2, <1>5, <2>3
<1>6. CASE a.type = "contains"
  <2>1. a.value \in Contents
    BY <1>3, <1>6 DEF Assertion
  <2>2. text[a.value]
    BY <1>3, <1>6 DEF Holds
  <2> QED
    BY <1>2, <1>6, <2>1, <2>2
<1>7. CASE a.type = "status_equals"
  <2>1. status = a.value
    BY <1>3, <1>7 DEF Holds
  <2> QED
    BY <1>2, <1>7, <2>1
<1>8. CASE a.type = "unknown"
  BY <1>3, <1>8 DEF Holds
<1> QED
  BY <1>4, <1>5, <1>6, <1>7, <1>8

LEMMA VerdictHonest ==
    ASSUME IInv, JInv, pc \in Running, NEW passed \in BOOLEAN, NEW error \in BOOLEAN,
           Verdict(passed, error), passed => ~error /\ Meant(now)
    PROVE  JInv'
<1> DEFINE verdict == [category |-> case.category, passed |-> passed, error |-> error]
<1>1. /\ results' = Append(results, verdict)
      /\ pc' \in {"reporting", "starting"}
      /\ UNCHANGED <<cases, categories, exit, user, pending, step, tools, status, text,
                     sent, calls, returned>>
  BY DEF Verdict, UnchangedCase, UnchangedHistory
<1>2. /\ now \in DOMAIN cases /\ now \in Nat /\ case = cases[now] /\ verdict \in Result
      /\ results \in Seq(Result)
  <2>1. now \in DOMAIN cases /\ case \in EvalCase /\ now \in Nat /\ case = cases[now]
    BY CaseFacts DEF case, now
  <2> QED
    BY <2>1 DEF EvalCase, Result, IInv, TypeOK
<1>3. verdict.category = cases[now].category /\ verdict.passed = passed /\ verdict.error = error
  BY <1>2
<1> HIDE DEF verdict
<1>4. /\ now = Len(results) + 1 /\ Len(results) \in Nat /\ now' = now + 1
      /\ DOMAIN results' = DOMAIN results \cup {now} /\ results'[now] = verdict
      /\ \A i \in DOMAIN results : results'[i] = results[i]
  BY <1>1, <1>2 DEF now
<1>5. VerdictsSound'
  <2> SUFFICES ASSUME NEW i \in DOMAIN results \cup {now}
               PROVE  /\ results'[i].category = cases[i].category
                      /\ results'[i].passed => ~results'[i].error /\ Meant(i)'
    BY <1>1, <1>4 DEF VerdictsSound
  <2>1. Meant(i) <=> Meant(i)'
    BY <1>1 DEF Meant
  <2>2. CASE i = now
    BY <1>3, <1>4, <2>1, <2>2
  <2>3. CASE i \in DOMAIN results
    BY <1>4, <2>1, <2>3 DEF JInv, VerdictsSound
  <2> QED
    BY <2>2, <2>3
<1>6. Honest'
  <2>1. \A i \in DOMAIN cases' : i > now' \/ i = now' => sent'[i] = {}
    <3> SUFFICES ASSUME NEW i \in DOMAIN cases, i > now' \/ i = now' PROVE sent[i] = {}
      BY <1>1
    <3>1. i \in Nat
      <4>1. cases \in Seq(EvalCase)
        BY EvalGateAssumption DEF IInv, TypeOK
      <4> QED
        BY <4>1
    <3>2. i > now
      BY <1>2, <1>4, <3>1
    <3> QED
      BY <3>2 DEF JInv, Honest
  <2> QED
    BY <1>1, <2>1 DEF Honest
<1>7. Outcome'
  BY <1>1 DEF Outcome
<1> QED
  BY <1>5, <1>6, <1>7 DEF JInv

(* Steps that judge nothing and ask nothing. *)
LEMMA OtherHonest ==
    ASSUME IInv, JInv, NoCases \/ Load \/ StepsExceeded \/ Report \/ UNCHANGED vars
    PROVE  JInv'
<1>1. UNCHANGED <<cases, user, tools, results, sent, calls, returned>>
  BY DEF NoCases, Load, StepsExceeded, Ends, Report, vars, UnchangedCase, UnchangedHistory,
         UnchangedReport
<1>2. case' = case /\ now' = now
  BY <1>1 DEF case, now
<1>3. \/ pc = "loading" /\ pc' \in {"starting", "exited"}
      \/ /\ pc = "asking" /\ pc' = "judging"
         /\ text' = Empty /\ status' = "max_steps_exceeded"
      \/ pc' = "exited"
      \/ pc' = pc /\ UNCHANGED <<status, text>>
  BY DEF NoCases, Load, StepsExceeded, Ends, Report, vars
<1>4. Honest'
  <2>1. now \in Nat
    BY JudgedApart
  <2> QED
    BY <1>1, <1>2, <1>3, <2>1 DEF JInv, Honest
<1>5. Outcome'
  <2>1. \A v \in Contents : ~Empty[v]
    BY DEF Empty, Contents
  <2>2. Reached' <=> Reached
    BY <1>2 DEF Reached
  <2> QED
    BY <1>1, <1>2, <1>3, <2>1, <2>2 DEF JInv, Outcome
<1>6. VerdictsSound'
  BY <1>1, VerdictsStay DEF JInv
<1> QED
  BY <1>4, <1>5, <1>6 DEF JInv

LEMMA StepKeepsJInv == IInv /\ JInv /\ [Next]_vars => JInv'
<1> SUFFICES ASSUME IInv, JInv, [Next]_vars PROVE JInv'
  OBVIOUS
<1>1. CASE Judge
  <2>1. pc = "judging" /\ pc \in Running /\ Verdict(\A a \in case.assertions : Holds(a), FALSE)
    BY <1>1 DEF Judge, Running
  <2>2. (\A a \in case.assertions : Holds(a)) \in BOOLEAN
    OBVIOUS
  <2>3. (\A a \in case.assertions : Holds(a)) => Meant(now)
    BY <2>1, JudgedMeant
  <2> QED
    BY <2>1, <2>2, <2>3, VerdictHonest
<1>2. CASE BlowUp
  BY <1>2, VerdictHonest DEF BlowUp, Running
<1> QED
  BY <1>1, <1>2, StartHonest, AskHonest, AnswerHonest, CallHonest, OtherHonest DEF Next, Exited

LEMMA InitJInv == Init => JInv
<1> SUFFICES ASSUME Init PROVE JInv
  OBVIOUS
<1>1. Honest /\ Outcome
  BY DEF Init, Honest, Outcome
<1>2. VerdictsSound
  BY DEF Init, VerdictsSound
<1> QED
  BY <1>1, <1>2 DEF JInv

(* No case passes that raised, or for anything but what it did itself      *)
(* (runner.py): the first half of GateSound, for suites of any length,     *)
(* whatever their assertions and whatever earlier cases left behind.       *)
THEOREM VerdictsAlwaysSound == Spec => []VerdictsSound
<1>1. IInv /\ JInv /\ [Next]_vars => (IInv /\ JInv)'
  BY StepKeepsIInv, StepKeepsJInv
<1>2. Init => IInv /\ JInv
  BY InitIInv, InitJInv
<1>3. JInv => VerdictsSound
  BY DEF JInv
<1> QED
  BY <1>1, <1>2, <1>3, PTL DEF Spec
-----------------------------------------------------------------------------
(* The exit code.                                                          *)

GInv ==
    /\ pc # "exited" => exit = -1
    /\ pc = "reporting" => Len(results) = Len(cases) /\ cases # <<>>
    /\ OpensForEnough

LEMMA EnoughOpens ==
    ASSUME IInv, Enough
    PROVE  /\ MinPassed = OutOf => \A i \in DOMAIN results : results[i].passed
           /\ Cardinality({i \in DOMAIN results : ~results[i].passed}) * OutOf
                <= (OutOf - MinPassed) * Len(results)
<1> DEFINE all == DOMAIN results
           good == {i \in all : results[i].passed}
           bad == {i \in all : ~results[i].passed}
<1>1. all = 1 .. Len(results) /\ Len(results) \in Nat
  BY DEF IInv, TypeOK
<1>2. IsFiniteSet(all) /\ Cardinality(all) = Len(results)
  <2> HIDE DEF all
  <2> QED
    BY <1>1, IntervalSize
<1>3. /\ bad = all \ good /\ good \subseteq all /\ IsFiniteSet(good)
      /\ all \cap good = good
  BY <1>2, FS_Subset
<1>4. /\ Cardinality(good) \in Nat
      /\ Cardinality(bad) = Len(results) - Cardinality(good)
      /\ Cardinality(good) <= Len(results)
      /\ Cardinality(good) = Len(results) => good = all
  <2>1. Cardinality(all \ good) = Cardinality(all) - Cardinality(all \cap good)
    BY <1>2, <1>3, FS_Difference
  <2>2. Cardinality(good) <= Cardinality(all) /\ (Cardinality(good) = Cardinality(all) => good = all)
    BY <1>2, <1>3, FS_Subset
  <2> QED
    BY <1>2, <1>3, <2>1, <2>2, FS_CardinalityType
<1>5. Cardinality(good) * OutOf >= MinPassed * Len(results)
  BY DEF Enough, Passing
<1>6. OutOf \in Nat \ {0} /\ MinPassed \in Nat /\ MinPassed <= OutOf
  BY EvalGateAssumption
<1> HIDE DEF good, bad, all
<1>7. ASSUME NEW g \in Nat, NEW n \in Nat, NEW m \in Nat, NEW o \in Nat \ {0},
             g * o >= m * n, g <= n
      PROVE  (n - g) * o <= (o - m) * n /\ (m = o => g >= n)
  <2>1. (n - g) * o = n * o - g * o /\ (o - m) * n = n * o - m * n
    BY <1>7
  <2>2. n * o \in Nat /\ g * o \in Nat /\ m * n \in Nat
    BY <1>7
  <2>3. (n - g) * o <= (o - m) * n
    BY <1>7, <2>1, <2>2
  <2>4. ASSUME m = o, g < n
        PROVE  FALSE
    <3>1. (n - g) * o <= 0 * n
      BY <2>3, <2>4
    <3>2. n - g \in Nat \ {0}
      BY <2>4
    <3>3. (n - g) * o > 0
      BY <3>2
    <3> QED
      BY <3>1, <3>3
  <2> QED
    BY <2>3, <2>4
<1>8. /\ (Len(results) - Cardinality(good)) * OutOf <= (OutOf - MinPassed) * Len(results)
      /\ MinPassed = OutOf => Cardinality(good) >= Len(results)
  BY <1>1, <1>4, <1>5, <1>6, <1>7
<1>9. MinPassed = OutOf => good = all
  BY <1>1, <1>4, <1>8
<1> QED
  BY <1>4, <1>8, <1>9 DEF good, bad, all

LEMMA StepKeepsGInv == IInv /\ GInv /\ [Next]_vars => GInv'
<1> SUFFICES ASSUME IInv, GInv, [Next]_vars PROVE GInv'
  OBVIOUS
<1>1. CASE Report
  <2>1. /\ pc = "reporting" /\ pc' = "exited" /\ UNCHANGED <<cases, results>>
        /\ exit' = 0 => Enough
    BY <1>1 DEF Report
  <2>2. Len(results) = Len(cases) /\ cases # <<>>
    BY <2>1 DEF GInv
  <2>3. DOMAIN results = DOMAIN cases
    <3>1. results \in Seq(Result) /\ cases \in Seq(EvalCase)
      BY EvalGateAssumption DEF IInv, TypeOK
    <3> QED
      BY <2>2, <3>1
  <2>4. OpensForEnough'
    BY <2>1, <2>2, <2>3, EnoughOpens DEF OpensForEnough
  <2> QED
    BY <2>1, <2>4 DEF GInv
<1>2. ASSUME pc \in Running, NEW passed, NEW error, Verdict(passed, error)
      PROVE  GInv'
  <2>1. /\ pc' = IF Len(results') = Len(cases) THEN "reporting" ELSE "starting"
        /\ UNCHANGED <<cases, exit>>
    BY <1>2 DEF Verdict
  <2>2. cases # <<>> /\ exit = -1
    <3>1. now \in DOMAIN cases
      BY <1>2, CaseFacts
    <3> QED
      BY <1>2, <3>1 DEF GInv, Running
  <2> QED
    BY <2>1, <2>2 DEF GInv, OpensForEnough
<1>3. CASE Judge \/ BlowUp
  BY <1>2, <1>3 DEF Judge, BlowUp, Running
<1>4. CASE NoCases
  BY <1>4 DEF NoCases, GInv, OpensForEnough
<1>5. CASE Load \/ StartCase \/ AskForTool \/ Answer \/ CallTool \/ StepsExceeded
  <2>1. /\ UNCHANGED <<cases, results, exit>>
        /\ pc # "exited" /\ pc' \notin {"exited", "reporting"}
    BY <1>5 DEF Load, StartCase, AskForTool, Answer, CallTool, StepsExceeded, Pops, Ends,
                UnchangedReport
  <2> QED
    BY <2>1 DEF GInv, OpensForEnough
<1>6. CASE Exited \/ UNCHANGED vars
  BY <1>6 DEF Exited, vars, GInv, OpensForEnough
<1> QED
  BY <1>1, <1>3, <1>4, <1>5, <1>6 DEF Next

(* The merge gate opens only for enough of a suite that has cases          *)
(* (cli.py): at the default rate only when every case passed, and at any   *)
(* other when the share that failed is no more than the rest.              *)
THEOREM OpensOnlyForEnough == Spec => []OpensForEnough
<1>1. Init => IInv /\ GInv
  <2>1. Init => GInv
    BY DEF Init, GInv, OpensForEnough
  <2> QED
    BY <2>1, InitIInv
<1>2. IInv /\ GInv /\ [Next]_vars => (IInv /\ GInv)'
  BY StepKeepsIInv, StepKeepsGInv
<1>3. GInv => OpensForEnough
  BY DEF GInv
<1> QED
  BY <1>1, <1>2, <1>3, PTL DEF Spec

-----------------------------------------------------------------------------
(* The report.                                                             *)

LEMMA StepKeepsReport == IInv /\ ReportAddsUp /\ [Next]_vars => ReportAddsUp'
<1> SUFFICES ASSUME IInv, ReportAddsUp, [Next]_vars PROVE ReportAddsUp'
  OBVIOUS
<1>1. CASE Report
  <2> DEFINE all == DOMAIN results
             reported == {results[i].category : i \in all}
             kind == [i \in all |-> results[i].category]
             good == {i \in all : results[i].passed}
             total == [c \in reported |-> categories'[c].total]
             passed == [c \in reported |-> categories'[c].passed]
  <2>1. /\ results' = results
        /\ categories' = [c \in Categories |->
             LET of == {i \in DOMAIN results : results[i].category = c}
             IN  [total |-> Cardinality(of),
                  passed |-> Cardinality({i \in of : results[i].passed})]]
    BY <1>1 DEF Report
  <2>2. /\ all = 1 .. Len(results) /\ Len(results) \in Nat
        /\ reported \subseteq Categories
    <3>1. results \in Seq(Result)
      BY DEF IInv, TypeOK
    <3>2. \A i \in all : results[i] \in Result
      BY <3>1
    <3> QED
      BY <3>1, <3>2 DEF Result
  <2>3. IsFiniteSet(all) /\ Cardinality(all) = Len(results)
    <3> HIDE DEF all
    <3> QED
      BY <2>2, IntervalSize
  <2>4. IsFiniteSet(reported)
    <3>1. kind \in Surjection(all, reported)
      BY DEF Surjection
    <3> HIDE DEF all, reported, kind
    <3> QED
      BY <2>3, <3>1, FS_Surjection
  <2>5. /\ \A i \in all : kind[i] \in reported
        /\ good \in SUBSET all
    OBVIOUS
  <2>6. ASSUME NEW c \in reported
        PROVE  /\ total[c] = Cardinality(OfKind(all, kind, c))
               /\ passed[c] = Cardinality(OfKind(good, kind, c))
    <3>1. c \in Categories
      BY <2>2
    <3>2. /\ OfKind(all, kind, c) = {i \in all : results[i].category = c}
          /\ OfKind(good, kind, c)
               = {i \in {j \in all : results[j].category = c} : results[i].passed}
      BY DEF OfKind
    <3>3. categories'[c] = [total |-> Cardinality({i \in all : results[i].category = c}),
                            passed |-> Cardinality({i \in {j \in all : results[j].category = c} :
                                                       results[i].passed})]
      BY <2>1, <3>1
    <3>4. /\ total[c] = categories'[c].total
          /\ passed[c] = categories'[c].passed
      OBVIOUS
    <3> HIDE DEF total, passed, kind, reported, good
    <3>5. /\ categories'[c].total = Cardinality({i \in all : results[i].category = c})
          /\ categories'[c].passed
                = Cardinality({i \in {j \in all : results[j].category = c} : results[i].passed})
      BY <3>3
    <3> QED
      BY <3>2, <3>4, <3>5
  <2>7. Passing' = Cardinality(good)
    BY <2>1 DEF Passing
  <2>8. {results[i].category : i \in DOMAIN results}' = reported
    BY <2>1
  <2>9. /\ total = [c \in reported |-> categories'[c].total]
        /\ passed = [c \in reported |-> categories'[c].passed]
    OBVIOUS
  <2>10. IsFiniteSet(good)
    <3> HIDE DEF all, good
    <3> QED
      BY <2>3, <2>5, FS_Subset
  <2> HIDE DEF all, kind, good, reported, total, passed
  <2>11. Sum(total, reported) = Len(results)
    BY <2>3, <2>4, <2>5, <2>6, SumOfCounts
  <2>12. Sum(passed, reported) = Cardinality(good)
    <3>1. \A i \in good : kind[i] \in reported
      BY <2>5
    <3> QED
      BY <2>4, <2>6, <2>10, <3>1, SumOfCounts
  <2> QED
    BY <2>1, <2>7, <2>8, <2>9, <2>11, <2>12 DEF ReportAddsUp
<1>2. CASE NoCases
  <2>1. results = <<>> /\ results' = <<>>
    BY <1>2 DEF NoCases, IInv, Playing
  <2>2. {results'[i].category : i \in DOMAIN results'} = {} /\ Len(results') = 0 /\ Passing' = 0
    BY <2>1, FS_EmptySet DEF Passing
  <2> QED
    BY <2>2, SumEmpty DEF ReportAddsUp
<1>3. CASE \/ Load \/ StartCase \/ AskForTool \/ Answer \/ CallTool \/ StepsExceeded
           \/ Judge \/ BlowUp
  <2>1. pc' # "exited"
    BY <1>3 DEF Load, StartCase, AskForTool, Answer, CallTool, StepsExceeded, Pops, Ends,
                Judge, BlowUp, Verdict
  <2> QED
    BY <2>1 DEF ReportAddsUp
<1>4. CASE Exited \/ UNCHANGED vars
  <2>1. pc' = pc /\ results' = results /\ categories' = categories
    BY <1>4 DEF Exited, vars
  <2> QED
    BY <2>1 DEF ReportAddsUp, Passing
<1> QED
  BY <1>1, <1>2, <1>3, <1>4 DEF Next

(* What the gate is there for, for every suite: honest verdicts, an exit   *)
(* code 0 only for enough of them, and a report that adds up to them.      *)
THEOREM GateAlwaysSound == Spec => []GateSound
<1>1. Init => IInv /\ ReportAddsUp
  <2>1. Init => ReportAddsUp
    BY DEF Init, ReportAddsUp
  <2> QED
    BY <2>1, InitIInv
<1>2. IInv /\ ReportAddsUp /\ [Next]_vars => (IInv /\ ReportAddsUp)'
  BY StepKeepsIInv, StepKeepsReport
<1>3. VerdictsSound /\ OpensForEnough /\ ReportAddsUp => GateSound
  BY DEF GateSound
<1> QED
  BY <1>1, <1>2, <1>3, VerdictsAlwaysSound, OpensOnlyForEnough, PTL DEF Spec

=============================================================================
