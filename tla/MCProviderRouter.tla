--------------------------- MODULE MCProviderRouter ---------------------------
(***************************************************************************)
(* Values for TLC: the rules of policies/routing.yaml as they stand, and   *)
(* one routing context for each rule, plus one that no rule matches.       *)
(***************************************************************************)
EXTENDS ProviderRouter, TLC

MCProvider == {"local", "bedrock", "foundry"}

MCRules ==
    << [when  |-> [data_classification |-> {"confidential", "restricted"}],
        allow |-> <<"local">>],
       [when  |-> [data_classification |-> {"internal"}],
        allow |-> <<"local", "bedrock", "foundry">>],
       [when  |-> [data_classification |-> {"public"},
                   cost_tier |-> {"economy"}],
        allow |-> <<"local">>],
       [when  |-> [data_classification |-> {"public"},
                   cost_tier |-> {"standard", "premium"}],
        allow |-> <<"bedrock", "foundry", "local">>] >>

Ctx(classification, tier) ==
    [data_classification |-> classification, cost_tier |-> tier]

(* One context per rule, and a classification the policy does not know. *)
AllContexts ==
    { Ctx("restricted", "premium"), Ctx("internal", "standard"),
      Ctx("public", "economy"), Ctx("public", "premium"),
      Ctx("unlabelled", "standard") }

(* The contexts whose candidate lists differ. *)
DistinctContexts ==
    { Ctx("confidential", "standard"), Ctx("internal", "standard"),
      Ctx("public", "premium") }

Symmetry == Permutations(Request)

=============================================================================
