-------------------------- MODULE MCRosterActions --------------------------
(* Instances of RosterActions for TLC. *)
EXTENDS RosterActions, TLC

CONSTANTS a1, a2, a3

\* Two kinds, one of each price of the code.
SmallCost == [fighter |-> 1, tank |-> 2]

\* The same deal in every round, another one after a refresh.
SmallOffers == [r \in 1..MaxRound, n \in 0..2 |->
                    IF n = 0 THEN <<"fighter", "fighter">> ELSE <<"fighter", "tank">>]

Ask(op, x, y) == [op |-> op, x |-> x, y |-> y]

\* Slot 1 is the board, 2 and 3 are the bench.
SmallAsked ==
    (a1 :> {Ask("buy", 1, 0)}) @@
    (a2 :> {Ask("buy", 2, 0), Ask("refresh", 0, 0)}) @@
    (a3 :> {Ask("buy", 1, 0), Ask("sell", 2, 0), Ask("refresh", 0, 0), Ask("fuse", 3, 2),
            Ask("fuseKind", "fighter", 0), Ask("place", a1, 1)})

HandlerSymmetry == Permutations(Handlers)
=============================================================================
