---------------------------- MODULE MCMatchEntry ----------------------------
(* Instances of MatchEntry for TLC. *)
EXTENDS MatchEntry, TLC

\* The requests in progress are interchangeable.
RequestSymmetry == Permutations(Requests)

\* So are the users.
EntrySymmetry == Permutations(Requests) \union Permutations(Users)

Pairing == \/ joining \union ToSet(queue) # {}
           \/ \E t \in Polls : poll[t] # IdlePoll

(* The bound of the run "entry": two requests of the rooms at once, and    *)
(* stray users, meet an empty queue (and every match it has made); the     *)
(* queue and its poll move beside one request.                             *)
OneFront ==
    Pairing => /\ Cardinality({h \in Requests : ~At(h, "idle")}) <= 1
               /\ stray = {}
=============================================================================
