------------------------------- MODULE EvalGate -------------------------------
(***************************************************************************)
(* The merge gate (eval/cli.py, runner.py, report.py): it runs the cases   *)
(* of a suite one after another, each against a provider that plays back   *)
(* the case's golden script, judges what each case did by its assertions,  *)
(* and exits with 0 if enough of them passed.                              *)
(*                                                                         *)
(* The text of an assertion is something the guardrails look for, so a     *)
(* text contains it or not (Guardrails).  An agent case runs AgentRuntime  *)
(* with its default AgentConfig, whose token budget no script reaches.     *)
(***************************************************************************)
EXTENDS Guardrails, Integers, Sequences, FiniteSets, Folding

CONSTANTS
    Suites,       \* what load_cases may return
    Categories,
    ToolNames,    \* of the golden tool calls
    Registered,   \* those the registry has
    MaxSteps,     \* AgentConfig.max_steps
    MinPassed,    \* --min-pass-rate is MinPassed / OutOf
    OutOf

EvalStatus ==
    {"completed", "blocked_request", "blocked_response", "blocked_by_guardrail",
     "max_steps_exceeded"}

Contents == {"injection", "pii", "secret"}

(* A regex that is found is a text that is contained. *)
Assertion ==
    [type : {"contains", "not_contains", "input_contains", "input_not_contains"}, value : Contents]
        \cup [type : {"status_equals"}, value : EvalStatus]
        \cup [type : {"tool_called"}, value : ToolNames]
        \cup [type : {"unknown"}, value : Contents]

EvalCase ==
    [mode : {"chat", "agent"}, category : Categories, user_message : Text,
     guardrail_policy : GuardrailPolicy, golden_tool_calls : Seq(ToolNames),
     golden_final_text : Text, assertions : SUBSET Assertion]

ASSUME EvalGateAssumption ==
    /\ Suites \subseteq Seq(EvalCase)
    /\ Registered \subseteq ToolNames /\ "none" \notin ToolNames
    /\ MaxSteps \in Nat
    /\ OutOf \in Nat \ {0} /\ MinPassed \in 0 .. OutOf

VARIABLES
    cases,       \* the suite
    pc,
    user,        \* the user's message as the provider is sent it
    pending,     \* GoldenScriptProvider._pending
    step,        \* step_index of the run
    tools,       \* tools_called: the tool steps without an error
    status,      \* of the case
    text,        \* response_text of the case
    results,     \* an EvalCaseResult for each case that ended
    categories,  \* EvalReport.categories
    exit,        \* exit code of the gate, -1 before it has one
    (* Not state of the code, of the cases so far: *)
    sent,        \* user messages a provider was sent
    calls,       \* how often it was called
    returned     \* tools that returned a result

case == cases[Len(results) + 1]

vars == <<cases, pc, user, pending, step, tools, status, text, results, categories,
          exit, sent, calls, returned>>

Empty == [long |-> FALSE, injection |-> FALSE, pii |-> FALSE, secret |-> FALSE]

(* A golden response: its text, and the tool it calls. *)
Response == [content : Text, call : ToolNames \cup {"none"}]

Result == [category : Categories, passed : BOOLEAN, error : BOOLEAN]

TypeOK ==
    /\ cases \in Suites
    /\ pc \in {"loading", "starting", "asking", "calling", "judging", "reporting", "exited"}
    /\ user \in Text
    /\ pending \in Seq(Response)
    /\ step \in 0 .. MaxSteps
    /\ tools \subseteq ToolNames
    /\ status \in EvalStatus \cup {"none"}
    /\ text \in Text
    /\ results \in Seq(Result) /\ Len(results) <= Len(cases)
    /\ categories \in [Categories -> [total : Nat, passed : Nat]]
    /\ exit \in {-1, 0, 1}
    /\ DOMAIN sent = DOMAIN cases /\ \A i \in DOMAIN cases : sent[i] \subseteq Text
    /\ calls \in [DOMAIN cases -> Nat]
    /\ returned \in [DOMAIN cases -> SUBSET ToolNames]

NoneYet == [c \in Categories |-> [total |-> 0, passed |-> 0]]

Init ==
    /\ cases \in Suites
    /\ pc = "loading"
    /\ user = Empty
    /\ pending = <<>>
    /\ step = 0
    /\ tools = {}
    /\ status = "none"
    /\ text = Empty
    /\ results = <<>>
    /\ categories = NoneYet
    /\ exit = -1
    /\ sent = [i \in DOMAIN cases |-> {}]
    /\ calls = [i \in DOMAIN cases |-> 0]
    /\ returned = [i \in DOMAIN cases |-> {}]

UnchangedCase == UNCHANGED <<user, pending, step, tools, status, text>>
UnchangedHistory == UNCHANGED <<sent, calls, returned>>
UnchangedReport == UNCHANGED <<cases, results, categories, exit>>

-----------------------------------------------------------------------------
(* One case.                                                               *)

(* Mutant: the script lacks the final text. *)
ScriptToolsOnly(c) ==
    [i \in 1 .. Len(c.golden_tool_calls) |-> [content |-> Empty, call |-> c.golden_tool_calls[i]]]

(* One response per tool call, then the final text. *)
Script(c) ==
    Append([i \in 1 .. Len(c.golden_tool_calls) |->
               [content |-> Empty, call |-> c.golden_tool_calls[i]]],
           [content |-> c.golden_final_text, call |-> "none"])

(* The case is over: its status and, if it has one, its response. *)
Ends(as, with) ==
    /\ pc' = "judging"
    /\ status' = as
    /\ text' = with

(* A provider, a session and a runtime of its own; the request guardrails. *)
StartCase ==
    pc = "starting" /\
    LET pre == ScreenRequest(case.user_message, case.guardrail_policy)
    IN  /\ pending' = Script(case)
        /\ step' = 0
        /\ tools' = {}
        /\ \/ /\ ~pre.allowed
              /\ user' = case.user_message
              /\ Ends(IF case.mode = "chat" THEN "blocked_request" ELSE "blocked_by_guardrail",
                      Empty)
           \/ /\ pre.allowed
              /\ user' = pre.text
              /\ pc' = "asking"
              /\ UNCHANGED <<status, text>>
        /\ UnchangedReport /\ UnchangedHistory

(* Mutant: the loop runs once more. *)
StepsLeftPlusOne == case.mode = "chat" \/ step <= MaxSteps

StepsLeft == case.mode = "chat" \/ step < MaxSteps

(* GoldenScriptProvider.chat *)
Pops(response) ==
    /\ StepsLeft
    /\ pending # <<>> /\ response = Head(pending)
    /\ pending' = Tail(pending)
    /\ LET i == Len(results) + 1
       IN  /\ sent' = [sent EXCEPT ![i] = @ \cup {user}]
           /\ calls' = [calls EXCEPT ![i] = @ + 1]
    /\ UNCHANGED <<user, step, tools, returned>> /\ UnchangedReport

(* A response that calls a tool, to an agent. *)
AskForTool == pc = "asking" /\ \E response \in Response :
    /\ case.mode = "agent" /\ response.call # "none"
    /\ Pops(response)
    /\ pc' = "calling"
    /\ UNCHANGED <<status, text>>

(* The final text, or whatever a chat case is answered: tool calls of a    *)
(* chat case are not made, nor the rest of its script asked for.           *)
Answer == pc = "asking" /\ \E response \in Response :
    LET post == ScreenResponse(response.content, case.guardrail_policy)
    IN  /\ case.mode = "chat" \/ response.call = "none"
        /\ Pops(response)
        /\ \/ post.allowed /\ Ends("completed", post.text)
           \/ /\ ~post.allowed
              /\ Ends(IF case.mode = "chat" THEN "blocked_response" ELSE "blocked_by_guardrail",
                      Empty)

(* The tool the last response popped calls. *)
Called == Script(case)[Len(Script(case)) - Len(pending)].call

(* Mutant: tool_called counts the failed tool steps. *)
CountsAll(name, works) == tools' = tools \cup {name}

(* tools_called leaves out the tool steps with an error (an exception is   *)
(* taken to have a text: one without would leave no error behind).         *)
Counts(name, works) == tools' = IF works THEN tools \cup {name} ELSE tools

(* The tool returns, or it fails after its retries; one that is not        *)
(* registered always fails.                                                *)
CallTool ==
    /\ pc = "calling"
    /\ \E works \in BOOLEAN :
         /\ works => Called \in Registered
         /\ Counts(Called, works)
         /\ returned' = [returned EXCEPT ![Len(results) + 1] = IF works THEN @ \cup {Called} ELSE @]
    /\ step' = step + 1
    /\ pc' = "asking"
    /\ UNCHANGED <<user, pending, status, text, sent, calls>> /\ UnchangedReport

StepsExceeded ==
    /\ pc = "asking" /\ ~StepsLeft
    /\ Ends("max_steps_exceeded", Empty)
    /\ UNCHANGED <<user, pending, step, tools>> /\ UnchangedReport /\ UnchangedHistory

-----------------------------------------------------------------------------
(* Its verdict.                                                            *)

(* input_text: of an agent case the message as it was before screening. *)
Input == IF case.mode = "chat" THEN user ELSE case.user_message

(* _check_assertion *)
Holds(a) ==
    CASE a.type = "contains"           -> text[a.value]
      [] a.type = "not_contains"       -> ~text[a.value]
      [] a.type = "status_equals"      -> status = a.value
      [] a.type = "tool_called"        -> case.mode = "agent" /\ a.value \in tools
      [] a.type = "input_contains"     -> Input[a.value]
      [] a.type = "input_not_contains" -> ~Input[a.value]
      [] OTHER                         -> FALSE

Verdict(passed, error) ==
    /\ results' = Append(results, [category |-> case.category, passed |-> passed, error |-> error])
    /\ pc' = IF Len(results') = Len(cases) THEN "reporting" ELSE "starting"
    /\ UNCHANGED <<cases, categories, exit>> /\ UnchangedCase /\ UnchangedHistory

Judge == pc = "judging" /\ Verdict(\A a \in case.assertions : Holds(a), FALSE)

(* run_case: an exception of any step, a script that has nothing left      *)
(* included, fails this case and no other.                                 *)
BlowUp == pc \in {"starting", "asking", "calling", "judging"} /\ Verdict(FALSE, TRUE)

-----------------------------------------------------------------------------
(* The gate.                                                               *)

NoCases ==
    /\ pc = "loading" /\ cases = <<>>
    /\ pc' = "exited" /\ exit' = 1
    /\ UNCHANGED <<cases, results, categories>> /\ UnchangedCase /\ UnchangedHistory

Load ==
    /\ pc = "loading" /\ cases # <<>>
    /\ pc' = "starting"
    /\ UnchangedReport /\ UnchangedCase /\ UnchangedHistory

Passing == Cardinality({i \in DOMAIN results : results[i].passed})

(* Mutant: a rate just below the minimum is enough. *)
EnoughRounded == (Passing + 1) * OutOf > MinPassed * Len(results)

(* pass_rate is not below --min-pass-rate. *)
Enough == Passing * OutOf >= MinPassed * Len(results)

(* build_report, the output, and the exit code; the JSON may not be        *)
(* written, which nobody catches.                                          *)
Report ==
    /\ pc = "reporting"
    /\ pc' = "exited"
    /\ categories' = [c \in Categories |->
         LET of == {i \in DOMAIN results : results[i].category = c}
         IN  [total |-> Cardinality(of),
              passed |-> Cardinality({i \in of : results[i].passed})]]
    /\ \/ exit' = IF Enough THEN 0 ELSE 1
       \/ exit' = 1
    /\ UNCHANGED <<cases, results>> /\ UnchangedCase /\ UnchangedHistory

Exited == pc = "exited" /\ UNCHANGED vars

Next ==
    \/ NoCases
    \/ Load
    \/ StartCase
    \/ AskForTool
    \/ Answer
    \/ CallTool
    \/ StepsExceeded
    \/ Judge
    \/ BlowUp
    \/ Report
    \/ Exited

Spec == Init /\ [][Next]_vars

-----------------------------------------------------------------------------
(* The provider is never asked beyond its golden script ("called more      *)
(* times than the golden fixture script has steps for"): the loop stops at *)
(* the final text or at max_steps, whichever the script has first; a chat  *)
(* case takes one response.  Each case has a script of its own.            *)
ScriptFits ==
    /\ pc = "asking" /\ StepsLeft => pending # <<>>
    /\ pc = "judging" =>
         LET asked  == calls[Len(results) + 1]
             length == IF case.mode = "chat" THEN 1 ELSE Len(case.golden_tool_calls) + 1
         IN  /\ asked <= length
             /\ status = "completed" => asked = length
             /\ status = "max_steps_exceeded" => asked = MaxSteps /\ asked < length
             /\ status \in {"blocked_request", "blocked_response", "blocked_by_guardrail"} =>
                  asked \in {0, length}

(* What a verdict "passed" says of the case's own run.                     *)
Meant(i) == \A a \in cases[i].assertions :
    LET reached == cases[i].mode = "agent" \/ cases[i].golden_tool_calls = <<>>
    IN  CASE a.type = "tool_called"        -> a.value \in returned[i]
          [] a.type = "input_not_contains" -> \A t \in sent[i] : ~t[a.value]
          [] a.type = "contains"           ->
               reached /\ calls[i] = Len(cases[i].golden_tool_calls) + 1
                       /\ cases[i].golden_final_text[a.value]
          [] a.type = "status_equals" /\ a.value = "blocked_request" -> sent[i] = {}
          [] a.type = "status_equals" /\ a.value = "completed" -> sent[i] # {}
          [] a.type = "unknown" -> FALSE
          [] OTHER -> TRUE

(* No case passes that raised, or for anything but what it did itself.     *)
VerdictsSound == \A i \in DOMAIN results :
    /\ results[i].category = cases[i].category
    /\ results[i].passed => ~results[i].error /\ Meant(i)

(* The gate opens only for a suite that has cases, each judged once, of    *)
(* which enough passed.                                                    *)
OpensForEnough ==
    exit = 0 =>
        /\ Len(results) = Len(cases) /\ cases # <<>>
        /\ MinPassed = OutOf => \A i \in DOMAIN cases : results[i].passed
        /\ LET failed == {i \in DOMAIN results : ~results[i].passed}
           IN  Cardinality(failed) * OutOf <= (OutOf - MinPassed) * Len(cases)

(* The categories of the report add up to the results, whatever the exit   *)
(* code: no result is left out or counted in two of them.                  *)
ReportAddsUp ==
    LET reported == {results[i].category : i \in DOMAIN results}
    IN  pc = "exited" =>
          /\ Sum([c \in reported |-> categories[c].total], reported) = Len(results)
          /\ Sum([c \in reported |-> categories[c].passed], reported) = Passing

(* ADR-0008: what the gate is there for, with a report that adds up.       *)
GateSound ==
    /\ VerdictsSound
    /\ OpensForEnough
    /\ ReportAddsUp

=============================================================================
