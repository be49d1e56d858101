------------------------ MODULE MCRoundOrchestrator ------------------------
(* Instances of RoundOrchestrator for TLC. *)
EXTENDS RoundOrchestrator, TLC

\* The handlers of one kind are interchangeable.
HandlerSymmetry == Permutations(WsHandlers)

\* So are the players, where Wins, Eager and Flaky do not tell them apart.
Symmetry == Permutations(WsHandlers) \union Permutations({P1, P2})
=============================================================================
