---------------------------- MODULE RoutingPolicy ----------------------------
(***************************************************************************)
(* The routing policy of src/aegis/providers/router.py: an ordered list of *)
(* rules, each with the values it accepts for some fields of the routing   *)
(* context and the ordered list of providers it allows.  The first rule    *)
(* that matches decides; a context no rule matches goes to the default     *)
(* provider alone.                                                         *)
(***************************************************************************)
EXTENDS Integers, Sequences

CONSTANTS
    Provider,          \* names of LLM providers
    Context,           \* routing contexts: records from field name to value
    Rules,             \* RoutingPolicy.rules, in file order
    DefaultProvider,   \* RoutingPolicy.default_provider
    MaxAttempts        \* FailoverConfig.max_attempts

(* What the pydantic models and the YAML loader guarantee. *)
ASSUME PolicyAssumption ==
    /\ DefaultProvider \in Provider
    /\ MaxAttempts \in Nat \ {0}
    /\ DOMAIN Rules = 1..Len(Rules)
    /\ \A i \in DOMAIN Rules : Rules[i].allow \in Seq(Provider)

(* RoutingRule.matches: every field under "when" is present in the context *)
(* and has one of the accepted values.                                     *)
Matches(rule, ctx) ==
    \A key \in DOMAIN rule.when :
        key \in DOMAIN ctx /\ ctx[key] \in rule.when[key]

MatchingRules(ctx) == {i \in DOMAIN Rules : Matches(Rules[i], ctx)}

(* Mutant: when the rule's own providers are used up, the default provider *)
(* and every other rule's first choice would do as well.                   *)
CandidatesForWithFallback(ctx) ==
    LET hits == MatchingRules(ctx)
        own  == IF hits = {}
                THEN <<DefaultProvider>>
                ELSE Rules[CHOOSE i \in hits : \A j \in hits : i <= j].allow
    IN  own \o Rules[Len(Rules)].allow

(* RoutingPolicy.candidates_for *)
CandidatesFor(ctx) ==
    LET hits == MatchingRules(ctx)
    IN  IF hits = {}
        THEN <<DefaultProvider>>
        ELSE Rules[CHOOSE i \in hits : \A j \in hits : i <= j].allow

(* The positions ProviderRouter.route walks: candidates[:max_attempts]. *)
Slots(ctx) == (1..MaxAttempts) \cap DOMAIN CandidatesFor(ctx)

=============================================================================
