------------------------------ MODULE MCApiKeys ------------------------------
(* Instances of ApiKeys for TLC: ids for three keys beside the first, to   *)
(* be issued by four requests or named by them without being any key's.    *)
EXTENDS ApiKeys, TLC

CONSTANTS r1, r2, r3, r4, k0, k1, k2, k3

MCSymmetry == Permutations(Request) \cup Permutations(Key \ {Bootstrap})

=============================================================================
