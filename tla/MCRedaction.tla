----------------------------- MODULE MCRedaction -----------------------------
(***************************************************************************)
(* Values for TLC: placeholders shorter than, as long as and longer than   *)
(* what they replace, an entity whose matches may be rejected, and a name  *)
(* no pattern has.                                                         *)
(***************************************************************************)
EXTENDS Redaction

MCEntities == <<"email", "iban", "credit_card", "phone">>

MCWidth == [email |-> 1, credit_card |-> 2, phone |-> 3]

=============================================================================
