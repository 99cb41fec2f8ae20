----------------------------- MODULE Guardrails -----------------------------
(***************************************************************************)
(* GuardrailPipeline (governance/pipeline.py): what one pass over a text   *)
(* finds, whether it lets the text through, and the text it hands on.      *)
(*                                                                         *)
(* A text is what the checks find in it.  Redaction removes what find_pii  *)
(* found, provided no two of its hits overlap.                             *)
(***************************************************************************)

(* long: over max_input_chars.  secret: find_secrets finds something. *)
Text == [long : BOOLEAN, injection : BOOLEAN, pii : BOOLEAN, secret : BOOLEAN]

(* The action of each check, or "off" where it is not enabled.  Any action *)
(* but "block" only records the hit; that of PII also redacts.             *)
GuardrailPolicy ==
    [injection : {"off", "flag", "block"},
     pii       : {"off", "redact", "block"},
     secret    : {"off", "flag", "block"}]

Rule == {"max_input_chars", "prompt_injection", "pii", "secret_leak"}

GuardrailResult == [allowed : BOOLEAN, text : Text, hits : SUBSET Rule]

Redact(text) == [text EXCEPT !.pii = FALSE]

(* A hit of one check: the rule it is recorded under, if it fires at all. *)
Fires(found, action, rule) == IF found /\ action # "off" THEN {rule} ELSE {}

Blocks(found, action) == found /\ action = "block"

(* Too long, injection, PII, in this order; a block ends the pass. *)
ScreenRequest(text, policy) ==
    LET injection == Fires(text.injection, policy.injection, "prompt_injection")
        pii       == Fires(text.pii, policy.pii, "pii")
        Blocked(hits) == [allowed |-> FALSE, text |-> text, hits |-> hits]
    IN  IF text.long THEN Blocked({"max_input_chars"})
        ELSE IF Blocks(text.injection, policy.injection) THEN Blocked(injection)
        ELSE IF Blocks(text.pii, policy.pii) THEN Blocked(injection \cup pii)
        ELSE [allowed |-> TRUE,
              text |-> IF pii # {} THEN Redact(text) ELSE text,
              hits |-> injection \cup pii]

ScreenResponse(text, policy) ==
    [allowed |-> ~Blocks(text.secret, policy.secret),
     text |-> text,
     hits |-> Fires(text.secret, policy.secret, "secret_leak")]

=============================================================================
