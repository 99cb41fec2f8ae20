------------------------------- MODULE Folding -------------------------------
(***************************************************************************)
(* The folds over data that the properties of this project are stated      *)
(* with.  They take functions where the operators of the community         *)
(* modules take operators, so that facts about them can be stated and      *)
(* cited for any data (FoldingProofs).                                     *)
(***************************************************************************)
EXTENDS Integers, Sequences, FiniteSetsExt

(* The sum of f[x] for x in S. *)
Sum(f, S) == MapThenSumSet(LAMBDA x : f[x], S)

(* The elements of s that are in P, in their order: SelectSeq, of a set.   *)
Where(s, P) ==
    LET kept[n \in 0 .. Len(s)] ==
            IF n = 0 THEN <<>>
            ELSE IF s[n] \in P THEN Append(kept[n - 1], s[n]) ELSE kept[n - 1]
    IN  kept[Len(s)]

=============================================================================
