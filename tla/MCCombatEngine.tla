--------------------------- MODULE MCCombatEngine ---------------------------
(* Boards for TLC: every team of at most two units, one of each ability, in a *)
(* column, or staggered over two lanes with the ids against the positions.    *)
EXTENDS CombatEngine, TLC

Abilities == {<<"fighter", 2>>, <<"ranger", 1>>, <<"ranger", 2>>, <<"healer", 2>>,
          <<"tank", 0>>, <<"tank", 2>>}

Piece(k, s) == [kind |-> k[1], star |-> k[2], slot |-> s]

\* All teams of the ids i < j on the slot pairs in Formations.
Teams(i, j, Formations) ==
    {<<>>} \union {i :> Piece(k, 0) : k \in Abilities}
           \union {i :> Piece(k, f[1]) @@ j :> Piece(l, f[2]) :
                      k \in Abilities, l \in Abilities, f \in Formations}

Column    == {<<0, 3>>}
Staggered == {<<0, 3>>, <<4, 0>>}

P1Teams == Teams(1, 2, Staggered)
P2Teams == Teams(3, 4, Column)
=============================================================================
