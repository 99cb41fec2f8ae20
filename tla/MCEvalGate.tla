------------------------------ MODULE MCEvalGate ------------------------------
(* An instance of EvalGate for TLC. *)
EXTENDS EvalGate

(* The "standard" policy of policies/guardrails.yaml. *)
MCPolicy == [injection |-> "block", pii |-> "redact", secret |-> "block"]

With(field) == [Empty EXCEPT ![field] = TRUE]

Chat(says, tool_calls, answer, assertions) ==
    [mode |-> "chat", category |-> "chats", user_message |-> says, guardrail_policy |-> MCPolicy,
     golden_tool_calls |-> tool_calls, golden_final_text |-> answer, assertions |-> assertions]

Agent(says, tool_calls, answer, assertions) ==
    [Chat(says, tool_calls, answer, assertions) EXCEPT !.mode = "agent", !.category = "agents"]

Is(kind, what) == [type |-> kind, value |-> what]

(* Answered, redacted, blocked and leaking chats; a chat with tool calls;  *)
(* agents whose tools work or not, with one step, two and too many; and    *)
(* cases with no assertion or one nobody knows.                            *)
MCCases ==
    { Chat(Empty, <<>>, With("injection"), {Is("contains", "injection"), Is("status_equals", "completed")}),
      Chat(With("pii"), <<>>, Empty, {Is("input_not_contains", "pii"), Is("not_contains", "pii")}),
      Chat(With("injection"), <<>>, Empty, {Is("status_equals", "blocked_request")}),
      Chat(Empty, <<>>, With("secret"), {Is("status_equals", "blocked_response")}),
      Chat(Empty, <<"calculator">>, With("pii"), {Is("contains", "pii")}),
      Chat(Empty, <<>>, Empty, {}),
      Chat(With("pii"), <<>>, Empty, {Is("unknown", "pii")}),
      Agent(Empty, <<"calculator">>, With("pii"), {Is("tool_called", "calculator"), Is("contains", "pii")}),
      Agent(Empty, <<"calculator", "absent">>, Empty, {Is("tool_called", "absent")}),
      Agent(Empty, <<"calculator", "calculator">>, Empty, {Is("tool_called", "calculator")}),
      Agent(Empty, <<"calculator", "calculator", "calculator">>, Empty,
            {Is("status_equals", "max_steps_exceeded"), Is("tool_called", "calculator")}),
      Agent(With("injection"), <<"calculator">>, Empty, {Is("status_equals", "blocked_by_guardrail")}),
      Agent(With("pii"), <<>>, With("secret"), {Is("input_contains", "pii"), Is("not_contains", "secret")}) }

MCSuites == {<<>>} \cup {<<c>> : c \in MCCases} \cup (MCCases \X MCCases)
                \cup {<<c, d, e>> : c, d \in MCCases, e \in {x \in MCCases : x.assertions = {}}}

=============================================================================
