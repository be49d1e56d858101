---------------------------- MODULE CombatEngine ----------------------------
(***************************************************************************)
(* runBattle: at most 30 cycles of 100 ticks between two 3x3 boards.  In   *)
(* a tick the units whose cooldown divides it act one after the other; at  *)
(* the end of a cycle a side without units has lost.  One step here is one *)
(* unit acting; ticks in which nobody acts are passed over.                *)
(*                                                                         *)
(* A unit is a member of Ids, ordered as the instance ids are compared.    *)
(* Slot s is row s \div 3 (0 the front) and lane s % 3.                    *)
(***************************************************************************)
EXTENDS Integers, Sequences, FiniteSets

CONSTANTS
    P1Ids, P2Ids,       \* the instance ids of each side's units
    P1Boards, P2Boards, \* the boards a battle may start from
    MAX_CYCLES

Ids == P1Ids \union P2Ids

Kinds == {"fighter", "healer", "ranger", "tank"}

\* A board: finitely many units, each with its kind, its star and its slot.
Board(b) == /\ IsFiniteSet(DOMAIN b)
            /\ \A i \in DOMAIN b : /\ b[i].kind \in Kinds
                                   /\ b[i].star \in 0 .. 2 /\ b[i].slot \in 0 .. 8

ASSUME EngineAssumption ==
    /\ Ids \subseteq Nat \ {0} /\ P1Ids \intersect P2Ids = {} /\ MAX_CYCLES \in Nat \ {0}
    /\ \A b \in P1Boards : Board(b) /\ DOMAIN b \subseteq P1Ids
    /\ \A b \in P2Boards : Board(b) /\ DOMAIN b \subseteq P2Ids

TICKS_PER_CYCLE == 100
HEAL_AMOUNT == 10
BaseHp  == [fighter |-> 100, healer |-> 70, ranger |-> 60, tank |-> 150]
BaseAtk == [fighter |-> 15, healer |-> 6, ranger |-> 12, tank |-> 8]
BaseSpd == [fighter |-> 20, healer |-> 50, ranger |-> 67, tank |-> 0]

\* spdFor(..) * SLOW_MULTIPLIER, rounded.
Slowed(spd) == (7 * spd + 5) \div 10

\* atkFor: x1, x1.5, x2 by star, rounded down.
AtkFor(k, star) == (BaseAtk[k] * (2 + star)) \div 2

NoHealer == 0

VARIABLES
    units,   \* the living and dead of both boards, by instance id
    cycle, tick,
    order,   \* who has still to act in this tick
    first,   \* the init side of the round, drawn from the seed
    winner,  \* "undecided", a side, or "none"
    mirror   \* a replay that knows the first boards and the events only

vars == <<units, cycle, tick, order, first, winner, mirror>>

----------------------------------------------------------------------------
(* Order and targets *)

Side(i)  == IF i \in P1Ids THEN "p1" ELSE "p2"
Row(u)   == u.slot \div 3
Lane(u)  == u.slot % 3
Alive(us) == {i \in DOMAIN us : us[i].alive}
Foes(us, i)   == {j \in Alive(us) : Side(j) # Side(i)}
Allies(us, i) == {j \in Alive(us) : Side(j) = Side(i)}

Spd(u) == IF u.slowBy = NoHealer THEN BaseSpd[u.kind] ELSE Slowed(BaseSpd[u.kind])

ActsOnTick(u, t) == t % (TICKS_PER_CYCLE - Spd(u)) = 0

\* orderForTick: the init side first, then speed, row, lane, instance id.
Before(us, i, j) ==
    \/ Side(i) = first /\ Side(j) # first
    \/ Side(i) = Side(j) /\
       LET key(k) == <<-Spd(us[k]), Row(us[k]), Lane(us[k]), k>>
       IN  \E n \in 1 .. 4 : key(i)[n] < key(j)[n]
                             /\ \A m \in 1 .. n - 1 : key(i)[m] = key(j)[m]

OrderForTick(us, S) ==
    {o \in [1 .. Cardinality(S) -> S] :
        \A m, n \in DOMAIN o : m < n => Before(us, o[m], o[n])}

\* The least of a non-empty set of units by lane, then row, then id.
ByPosition(us, S) ==
    CHOOSE i \in S : \A j \in S :
        \/ Lane(us[i]) < Lane(us[j])
        \/ Lane(us[i]) = Lane(us[j]) /\ Row(us[i]) < Row(us[j])
        \/ Lane(us[i]) = Lane(us[j]) /\ Row(us[i]) = Row(us[j]) /\ i <= j

Weakest(us, S) == {i \in S : \A j \in S : us[i].hp <= us[j].hp}

LowestHp(us, S) == ByPosition(us, Weakest(us, S))

FrontRow(us, S) == {i \in S : \A j \in S : Row(us[i]) <= Row(us[j])}

InLane(us, S, c) == {i \in S : Lane(us[i]) = c}

\* The front of the attacker's own lane or, if that is empty, of the first lane
\* that is not.
Candidates(us, i) ==
    LET foes == Foes(us, i)
        own  == InLane(us, foes, Lane(us[i]))
        lane == CHOOSE c \in 0 .. 2 : InLane(us, foes, c) # {}
                    /\ \A d \in 0 .. c - 1 : InLane(us, foes, d) = {}
    IN  FrontRow(us, IF own # {} THEN own ELSE InLane(us, foes, lane))

\* pickTarget, for an attacker with a living enemy.
PickTarget(us, i) ==
    LET foes == Foes(us, i)
        guards == {j \in foes : us[j].kind = "tank" /\ us[j].star = 2}
    IN  IF us[i].kind = "ranger"
        THEN LowestHp(us, IF us[i].star = 2 THEN foes ELSE Candidates(us, i))
        ELSE IF guards # {}
        THEN CHOOSE j \in guards : \A k \in guards : us[j].slot <= us[k].slot
        ELSE ByPosition(us, Candidates(us, i))

----------------------------------------------------------------------------
(* Effects.  A scene is the units, and what a replay of the events alone makes
   of their hit points. *)

Event(t, i, n) == [type |-> t, unit |-> i, value |-> n]

Replay(m, e) ==
    CASE e.type = "death"  -> [m EXCEPT ![e.unit] = 0]
      [] e.type = "pierce" -> [m EXCEPT ![e.unit] = IF e.value >= @ THEN 0 ELSE @ - e.value]
      [] e.type = "slow"   -> m
      [] OTHER -> [m EXCEPT ![e.unit] = e.value]

Emit(sc, us, e) == [us |-> us, m |-> Replay(sc.m, e)]

\* A hit that kills a starred tank revives it, once a battle.
Revives(u, dmg) == dmg >= u.hp /\ u.kind = "tank" /\ u.star >= 1 /\ ~u.revived

Wounded(u, dmg) == [u EXCEPT !.hp = IF dmg >= @ THEN 0 ELSE @ - dmg,
                             !.alive = dmg < u.hp]

\* A death comes before the event of the hit that caused it.
WithDeath(sc, i, dmg) ==
    LET us == [sc.us EXCEPT ![i] = Wounded(@, dmg)]
    IN  IF us[i].alive THEN [sc EXCEPT !.us = us] ELSE Emit(sc, us, Event("death", i, 0))

\* applyDamage
ApplyDamage(sc, i, dmg) ==
    LET u == sc.us[i]
        half == u.maxHp \div 2
    IN  IF Revives(u, dmg)
        THEN Emit(sc, [sc.us EXCEPT ![i].hp = half, ![i].revived = TRUE],
                  Event("revive", i, half))
        ELSE LET hit == WithDeath(sc, i, dmg)
             IN  Emit(hit, hit.us, Event("attack", i, hit.us[i].hp))

\* A slip: the event carries the hit points before they are capped.
LifestealUncapped(sc, i, dmg) ==
    LET u == sc.us[i]
        hp == u.hp + (dmg * 5 * u.star) \div 100
    IN  Emit(sc, [sc.us EXCEPT ![i].hp = IF hp > u.maxHp THEN u.maxHp ELSE hp],
             Event("lifesteal", i, hp))

\* applyLifesteal: 5 or 10 per cent of the damage, up to the maximum.
ApplyLifesteal(sc, i, dmg) ==
    LET u == sc.us[i]
        raw == (dmg * 5 * u.star) \div 100
        hp == IF u.hp + raw > u.maxHp THEN u.maxHp ELSE u.hp + raw
    IN  Emit(sc, [sc.us EXCEPT ![i].hp = hp], Event("lifesteal", i, hp))

\* applyPierce: a tenth of the damage to the living enemy one row behind the
\* target; here the event comes before a death, and no tank revives.
ApplyPierce(sc, i, t, dmg) ==
    LET behind == {j \in Foes(sc.us, i) : Lane(sc.us[j]) = Lane(sc.us[t])
                                          /\ Row(sc.us[j]) = Row(sc.us[t]) + 1}
        spill == dmg \div 10
    IN  IF behind = {} THEN sc
        ELSE LET j == CHOOSE x \in behind : TRUE
             IN  WithDeath(Emit(sc, sc.us, Event("pierce", j, spill)), j, spill)

\* healOne: nothing is said of a unit that is whole.
HealOne(sc, i) ==
    LET u == sc.us[i]
        hp == IF u.hp + HEAL_AMOUNT > u.maxHp THEN u.maxHp ELSE u.hp + HEAL_AMOUNT
    IN  IF hp = u.hp THEN sc
        ELSE Emit(sc, [sc.us EXCEPT ![i].hp = hp], Event("heal", i, hp))

\* lowestHpAlly: ties by instance id.
LowestAlly(us, S) == CHOOSE i \in Weakest(us, S) : \A j \in Weakest(us, S) : i <= j

\* applyHealerSupport: the weakest ally and, with two stars, the next weakest
\* of the others as they are after the first heal.
HealerSupport(sc, i) ==
    LET one == LowestAlly(sc.us, Allies(sc.us, i))
        after == HealOne(sc, one)
        rest == Allies(after.us, i) \ {one}
    IN  IF sc.us[i].star < 2 \/ rest = {} THEN after
        ELSE HealOne(after, LowestAlly(after.us, rest))

\* A slip: the slows of a healer stay when she acts again.
ClearSlowsForgotten(us, h) == us

\* clearHealerSlows: once she attacks, her former slows end.
ClearSlows(us, h) == [i \in DOMAIN us |->
    IF us[i].slowBy = h THEN [us[i] EXCEPT !.slowBy = NoHealer] ELSE us[i]]

\* The slow of a starred healer, on the dead too.
ApplySlow(sc, h, i) ==
    IF sc.us[h].star = 0 THEN sc
    ELSE Emit(sc, [sc.us EXCEPT ![i].slowBy = h], Event("slow", i, 0))

\* unitAct, for a unit with a living enemy.
Attack(us, i) ==
    LET u   == us[i]
        t   == PickTarget(us, i)
        dmg == AtkFor(u.kind, u.star)
        hit == ApplyDamage([us |-> IF u.kind = "healer" THEN ClearSlows(us, i) ELSE us,
                            m |-> mirror], t, dmg)
    IN  CASE u.kind = "fighter" /\ u.star >= 1 -> ApplyLifesteal(hit, i, dmg)
          [] u.kind = "ranger" /\ u.star = 1   -> ApplyPierce(hit, i, t, dmg)
          [] u.kind = "healer"                 -> ApplySlow(HealerSupport(hit, i), i, t)
          [] OTHER -> hit

\* With no enemy left, only the healer has something to do.
UnitAct(us, i) ==
    IF Foes(us, i) # {} THEN Attack(us, i)
    ELSE IF us[i].kind = "healer" THEN HealerSupport([us |-> us, m |-> mirror], i)
    ELSE [us |-> us, m |-> mirror]

----------------------------------------------------------------------------
(* The battle *)

\* unitsFromBoard and cloneUnit: whole, not slowed, not yet revived.
Fresh(b) == [i \in DOMAIN b |->
    [kind |-> b[i].kind, star |-> b[i].star, slot |-> b[i].slot,
     hp |-> BaseHp[b[i].kind], maxHp |-> BaseHp[b[i].kind],
     alive |-> TRUE, revived |-> FALSE, slowBy |-> NoHealer]]

Both(f, g) == [i \in DOMAIN f \union DOMAIN g |-> IF i \in DOMAIN f THEN f[i] ELSE g[i]]

Init ==
    /\ \E b1 \in P1Boards, b2 \in P2Boards : units = Both(Fresh(b1), Fresh(b2))
    /\ first \in {"p1", "p2"}
    /\ cycle = 1 /\ tick = 0 /\ order = <<>> /\ winner = "undecided"
    /\ mirror = [i \in DOMAIN units |-> units[i].hp]

\* The living units that act on tick t, as the tick finds them.
Acting(t) == {i \in Alive(units) : ActsOnTick(units[i], t)}

Later == {t \in tick + 1 .. TICKS_PER_CYCLE : Acting(t) # {}}

\* The next tick in which somebody acts.
NextTick ==
    /\ winner = "undecided" /\ order = <<>> /\ Later # {}
    /\ tick' = CHOOSE t \in Later : \A s \in Later : t <= s
    /\ order' \in OrderForTick(units, Acting(tick'))
    /\ UNCHANGED <<units, cycle, first, winner, mirror>>

\* A slip: a unit collected for the tick acts whatever happened since.
MayActAnyway(i) == TRUE

\* A unit that was killed earlier in the tick does not act.
MayAct(i) == units[i].alive

Act ==
    /\ order # <<>>
    /\ order' = Tail(order)
    /\ IF MayAct(Head(order))
       THEN LET sc == UnitAct(units, Head(order))
            IN  units' = sc.us /\ mirror' = sc.m
       ELSE UNCHANGED <<units, mirror>>
    /\ UNCHANGED <<cycle, tick, first, winner>>

Standing(side) == {i \in Alive(units) : Side(i) = side} # {}

\* The winner at the end of a cycle, "undecided" while both sides stand.
Verdict ==
    CASE Standing("p1") /\ Standing("p2") ->
             IF cycle = MAX_CYCLES THEN "none" ELSE "undecided"
      [] Standing("p1") /\ ~Standing("p2") -> "p1"
      [] ~Standing("p1") /\ Standing("p2") -> "p2"
      [] OTHER -> "none"

EndCycle ==
    /\ winner = "undecided" /\ order = <<>> /\ Later = {}
    /\ winner' = Verdict
    /\ IF Verdict = "undecided" THEN cycle' = cycle + 1 /\ tick' = 0
       ELSE UNCHANGED <<cycle, tick>>
    /\ UNCHANGED <<units, order, first, mirror>>

Next == NextTick \/ Act \/ EndCycle

Spec == Init /\ [][Next]_vars

----------------------------------------------------------------------------
(* Properties *)

\* Hit points stay within the maximum and are zero exactly for the dead; a slow
\* is an enemy healer's with a star, and no healer slows two units.
EngineTypeOK ==
    /\ cycle \in 1 .. MAX_CYCLES /\ tick \in 0 .. TICKS_PER_CYCLE
    /\ winner \in {"undecided", "p1", "p2", "none"}
    /\ \A i \in DOMAIN units :
          /\ units[i].hp \in 0 .. units[i].maxHp
          /\ units[i].alive <=> units[i].hp > 0
          /\ units[i].slowBy # NoHealer =>
                LET h == units[i].slowBy
                IN  /\ h \in DOMAIN units /\ Side(h) # Side(i)
                    /\ units[h].kind = "healer" /\ units[h].star >= 1
                    /\ \A j \in DOMAIN units : units[j].slowBy = h => j = i

\* The events tell the whole battle: a client that was given the boards and then
\* the events of runBattle has every unit's hit points after every action.
ReplayAgrees == \A i \in DOMAIN units : mirror[i] = units[i].hp

\* The battle never wipes both boards, since whoever strikes last is standing:
\* without a winner it went through all its cycles, or both boards were empty.
SomebodyStands ==
    /\ DOMAIN units # {} => Alive(units) # {}
    /\ winner = "none" => cycle = MAX_CYCLES \/ DOMAIN units = {}
    /\ winner \in {"p1", "p2"} => {Side(i) : i \in Alive(units)} = {winner}
=============================================================================
