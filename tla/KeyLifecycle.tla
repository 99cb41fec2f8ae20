---------------------------- MODULE KeyLifecycle ----------------------------
(***************************************************************************)
(* What the administration of API keys promises: a key id is issued at     *)
(* most once, is live from then on until it is retired, and never comes    *)
(* back.  A live key may be replaced by another in one step.               *)
(***************************************************************************)
CONSTANTS Key, Bootstrap

VARIABLES live, retired

lifecycleVars == <<live, retired>>

LifecycleInit == live = {Bootstrap} /\ retired = {}

New(k) == k \notin live \cup retired

Issue(k) ==
    /\ New(k)
    /\ live' = live \cup {k}
    /\ UNCHANGED retired

Retire(k) ==
    /\ k \in live
    /\ live' = live \ {k}
    /\ retired' = retired \cup {k}

Replace(k, j) ==
    /\ k \in live /\ New(j)
    /\ live' = (live \ {k}) \cup {j}
    /\ retired' = retired \cup {k}

LifecycleNext ==
    \E k \in Key : Issue(k) \/ Retire(k) \/ \E j \in Key : Replace(k, j)

LifecycleSpec == LifecycleInit /\ [][LifecycleNext]_lifecycleVars

=============================================================================
