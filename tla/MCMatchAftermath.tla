-------------------------- MODULE MCMatchAftermath --------------------------
(* Instances of MatchAftermath for TLC. *)
EXTENDS MatchAftermath, TLC

CONSTANTS m1, m2, a, b

\* The same two players meet twice.
TwoMatches == m1 :> {a, b} @@ m2 :> {a, b}

AftermathSymmetry == 
    Permutations(Finalizers) \union Permutations(Matches)
=============================================================================
