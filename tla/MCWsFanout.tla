----------------------------- MODULE MCWsFanout -----------------------------
(* Instances of WsFanout for TLC. *)
EXTENDS WsFanout, TLC

\* Sockets and replicas are interchangeable.
FanoutSymmetry == Permutations(Sockets) \union Permutations(Replicas)
=============================================================================
