--------------------------- MODULE MCTenantRequests ---------------------------
(* Instances of TenantRequests for TLC. *)
EXTENDS TenantRequests, TLC

CONSTANTS r1, r2, r3

(* The "standard" policy of policies/guardrails.yaml. *)
MCPolicy == [injection |-> "block", pii |-> "redact", secret |-> "block"]

Clean == [long |-> FALSE, injection |-> FALSE, pii |-> FALSE, secret |-> FALSE]

Says(who, text) == [role |-> who, content |-> text]

(* A harmless last message, one with PII, one that is blocked after a      *)
(* harmless one, and a conversation with the model's own turn at its end.  *)
MCBodies ==
    { <<Says("user", Clean)>>,
      <<Says("user", [Clean EXCEPT !.pii = TRUE]), Says("assistant", Clean)>>,
      <<Says("user", Clean), Says("user", [Clean EXCEPT !.injection = TRUE])>> }

MCAnswers == {Clean, [Clean EXCEPT !.secret = TRUE]}

MCSymmetry == Permutations(Requests)

=============================================================================
