------------------------- MODULE CombatEngineProofs -------------------------
(***************************************************************************)
(* Every effect of the engine is shown to take a sound scene to a sound    *)
(* scene: units keep their hit points within the maximum, the dead are     *)
(* those at zero, and the mirror, which hears the events only, has the     *)
(* same hit points.  An effect names the units it may touch, and says      *)
(* nothing new of kind, star, slot or slow; so whoever acts is not touched *)
(* by her own attack and stands after it, and the slows of the other       *)
(* healers are as they were.                                               *)
(*                                                                         *)
(* The choices of a target are minima over finite positions or ids, which  *)
(* exist since < is well founded on the naturals.                          *)
(***************************************************************************)
EXTENDS CombatEngine, FiniteSetTheorems, WellFoundedInduction, TLAPS

----------------------------------------------------------------------------
(* Minima *)

Less == {p \in Nat \X Nat : p[1] < p[2]}

LEMMA LessIsWellFounded == IsWellFoundedOn(Less, Nat)
BY NatLessThanWellFounded DEF Less, OpToRel

\* Every non-empty set of naturals has a least member.
LEMMA LeastOf ==
    ASSUME NEW T \in SUBSET Nat, T # {}
    PROVE  \E m \in T : \A k \in T : m <= k
<1>1. PICK m \in T : \A k \in T : <<k, m>> \notin Less
  BY LessIsWellFounded, WFMin
<1>2. SUFFICES ASSUME NEW k \in T PROVE m <= k
  BY <1>1
<1>3. k \in Nat /\ m \in Nat
  OBVIOUS
<1>4. <<k, m>> \in Nat \X Nat /\ <<k, m>>[1] = k /\ <<k, m>>[2] = m
  BY <1>3
<1>5. ~(k < m)
  BY <1>1, <1>4 DEF Less
<1> QED
  BY <1>3, <1>5

\* A function into the naturals is least somewhere.
LEMMA LeastAt ==
    ASSUME NEW S, S # {}, NEW f \in [S -> Nat]
    PROVE  \E i \in S : \A j \in S : f[i] <= f[j]
<1> DEFINE T == {f[i] : i \in S}
<1>1. T \in SUBSET Nat /\ T # {}
  OBVIOUS
<1>2. PICK m \in T : \A k \in T : m <= k
  BY <1>1, LeastOf
<1>3. PICK i \in S : f[i] = m
  BY <1>2
<1>4. \A j \in S : f[i] <= f[j]
  BY <1>2, <1>3
<1> QED
  BY <1>4

----------------------------------------------------------------------------
(* Units and scenes *)

UnitRecord ==
    [kind : Kinds, star : 0 .. 2, slot : 0 .. 8, hp : Nat, maxHp : Nat,
     alive : BOOLEAN, revived : BOOLEAN, slowBy : Nat]

\* A unit as the battle may find it.
Sound(u) == /\ u \in UnitRecord
            /\ u.maxHp = BaseHp[u.kind] /\ u.hp <= u.maxHp
            /\ u.alive <=> u.hp > 0

\* The units of a battle among the ids of D.
Army(D, us) == /\ us = [i \in D |-> us[i]]
               /\ \A i \in D : Sound(us[i])

\* The mirror has the hit points of the units.
Mirrored(D, sc) == /\ sc = [us |-> sc.us, m |-> sc.m]
                   /\ Army(D, sc.us)
                   /\ sc.m = [i \in D |-> sc.us[i].hp]

\* What no effect changes in a unit.
Alike(u, v) == /\ v.kind = u.kind /\ v.star = u.star /\ v.slot = u.slot
               /\ v.slowBy = u.slowBy

\* Two stages of one army between which only the units of S were touched.
Kept(D, us, vs, S) == /\ \A j \in D : Alike(us[j], vs[j])
                      /\ \A j \in D \ S : vs[j] = us[j]

LEMMA Bases ==
    ASSUME NEW k \in Kinds
    PROVE  /\ BaseHp[k] \in Nat /\ BaseHp[k] > 1
           /\ BaseAtk[k] \in Nat
BY DEF Kinds, BaseHp, BaseAtk

LEMMA SoundFacts ==
    ASSUME NEW u, Sound(u)
    PROVE  /\ u.kind \in Kinds /\ u.star \in 0 .. 2 /\ u.slot \in 0 .. 8
           /\ u.hp \in Nat /\ u.maxHp \in Nat /\ u.alive \in BOOLEAN
           /\ u.revived \in BOOLEAN /\ u.slowBy \in Nat
           /\ u.maxHp > 1
           /\ u.hp <= u.maxHp
BY Bases DEF Sound, UnitRecord

LEMMA AtkType ==
    ASSUME NEW k \in Kinds, NEW s \in 0 .. 2
    PROVE  AtkFor(k, s) \in Nat
<1>1. BaseAtk[k] \in Nat
  BY Bases
<1>2. s = 0 \/ s = 1 \/ s = 2
  OBVIOUS
<1>3. CASE s = 0
  BY <1>1, <1>3 DEF AtkFor
<1>4. CASE s = 1
  BY <1>1, <1>4 DEF AtkFor
<1>5. CASE s = 2
  BY <1>1, <1>5 DEF AtkFor
<1> QED
  BY <1>2, <1>3, <1>4, <1>5

\* One unit replaced by a sound one that is alike.
LEMMA OneChanged ==
    ASSUME NEW D, NEW us, Army(D, us), NEW i \in D, NEW v, Sound(v), Alike(us[i], v)
    PROVE  /\ Army(D, [us EXCEPT ![i] = v])
           /\ Kept(D, us, [us EXCEPT ![i] = v], {i})
           /\ [us EXCEPT ![i] = v][i] = v
           /\ \A j \in D \ {i} : [us EXCEPT ![i] = v][j] = us[j]
<1> DEFINE vs == [us EXCEPT ![i] = v]
<1>1. DOMAIN us = D
  BY DEF Army
<1>2. vs[i] = v /\ \A j \in D \ {i} : vs[j] = us[j]
  BY <1>1
<1>3. vs = [j \in D |-> vs[j]]
  BY <1>1
<1>4. \A j \in D : Sound(vs[j])
  BY <1>2 DEF Army
<1>5. \A j \in D : Alike(us[j], vs[j])
  BY <1>2 DEF Alike
<1> QED
  BY <1>2, <1>3, <1>4, <1>5 DEF Army, Kept

LEMMA KeptTrans ==
    ASSUME NEW D, NEW us, NEW vs, NEW ws, NEW S, NEW T,
           Kept(D, us, vs, S), Kept(D, vs, ws, T)
    PROVE  Kept(D, us, ws, S \union T)
BY DEF Kept, Alike

\* A scene in which one unit changed, and the mirror heard of it.
LEMMA Heard ==
    ASSUME NEW D, NEW sc, Mirrored(D, sc), NEW i \in D, NEW v, Sound(v),
           Alike(sc.us[i], v)
    PROVE  LET to == [us |-> [sc.us EXCEPT ![i] = v], m |-> [sc.m EXCEPT ![i] = v.hp]]
           IN  Mirrored(D, to) /\ Kept(D, sc.us, to.us, {i}) /\ to.us[i] = v
<1> DEFINE vs == [sc.us EXCEPT ![i] = v]
           n == [sc.m EXCEPT ![i] = v.hp]
           to == [us |-> vs, m |-> n]
<1>1. /\ Army(D, vs) /\ Kept(D, sc.us, vs, {i})
      /\ vs[i] = v /\ \A j \in D \ {i} : vs[j] = sc.us[j]
  BY OneChanged DEF Mirrored
<1>2. sc.m = [j \in D |-> sc.us[j].hp]
  BY DEF Mirrored
<1>3. n = [j \in D |-> IF j = i THEN v.hp ELSE sc.us[j].hp]
  BY <1>2
<1>4. n = [j \in D |-> vs[j].hp]
  BY <1>1, <1>3
<1>5. to = [us |-> to.us, m |-> to.m] /\ to.us = vs /\ to.m = n
  OBVIOUS
<1>6. Mirrored(D, to)
  BY <1>1, <1>4, <1>5 DEF Mirrored
<1> QED
  BY <1>1, <1>5, <1>6

----------------------------------------------------------------------------
(* The effects *)

LEMMA WoundedSound ==
    ASSUME NEW u, Sound(u), NEW dmg \in Nat
    PROVE  /\ Sound(Wounded(u, dmg)) /\ Alike(u, Wounded(u, dmg))
           /\ Wounded(u, dmg).hp = (IF dmg >= u.hp THEN 0 ELSE u.hp - dmg)
           /\ ~Wounded(u, dmg).alive => Wounded(u, dmg).hp = 0
<1> DEFINE h == IF dmg >= u.hp THEN 0 ELSE u.hp - dmg
           v == Wounded(u, dmg)
<1>1. u \in UnitRecord /\ u.hp \in Nat /\ u.maxHp \in Nat
  BY SoundFacts DEF Sound
<1>2. h \in Nat /\ h <= u.hp /\ (dmg < u.hp <=> h > 0)
  BY <1>1
<1>3. v = [[u EXCEPT !.hp = h] EXCEPT !.alive = (dmg < u.hp)]
  BY DEF Wounded
<1>4. (dmg < u.hp) \in BOOLEAN
  OBVIOUS
<1>5. v \in UnitRecord
  BY <1>1, <1>2, <1>3, <1>4 DEF UnitRecord
<1>6. v.hp = h /\ v.maxHp = u.maxHp /\ v.kind = u.kind /\ (v.alive <=> dmg < u.hp)
      /\ v.star = u.star /\ v.slot = u.slot /\ v.slowBy = u.slowBy
  BY <1>1, <1>3 DEF UnitRecord
<1>7. Sound(v)
  BY <1>1, <1>2, <1>5, <1>6 DEF Sound
<1> HIDE DEF h, v
<1>8. Alike(u, v)
  BY <1>6 DEF Alike
<1>9. ~v.alive => v.hp = 0
  BY <1>2, <1>6
<1> QED
  BY <1>6, <1>7, <1>8, <1>9 DEF h, v

\* A unit with other hit points, none lost by the living.
LEMMA HealedSound ==
    ASSUME NEW u, Sound(u), u.alive, NEW hp \in Nat, hp > 0, hp <= u.maxHp
    PROVE  /\ Sound([u EXCEPT !.hp = hp]) /\ Alike(u, [u EXCEPT !.hp = hp])
           /\ [u EXCEPT !.hp = hp].hp = hp /\ [u EXCEPT !.hp = hp].alive
<1> DEFINE v == [u EXCEPT !.hp = hp]
<1>1. u \in UnitRecord
  BY DEF Sound
<1>2. v \in UnitRecord /\ v.hp = hp /\ v.maxHp = u.maxHp /\ v.alive = u.alive
      /\ v.kind = u.kind /\ v.star = u.star /\ v.slot = u.slot /\ v.slowBy = u.slowBy
  BY <1>1 DEF UnitRecord
<1> QED
  BY <1>2 DEF Sound, Alike

\* A scene in which one living unit got other hit points and the event of it.
LEMMA HeardHp ==
    ASSUME NEW D, NEW sc, Mirrored(D, sc), NEW i \in D, sc.us[i].alive,
           NEW hp \in Nat, hp > 0, hp <= sc.us[i].maxHp,
           NEW e, e.unit = i, e.value = hp, e.type \in {"lifesteal", "heal"}
    PROVE  /\ Mirrored(D, Emit(sc, [sc.us EXCEPT ![i].hp = hp], e))
           /\ Kept(D, sc.us, Emit(sc, [sc.us EXCEPT ![i].hp = hp], e).us, {i})
           /\ Emit(sc, [sc.us EXCEPT ![i].hp = hp], e).us[i].alive
<1> DEFINE v == [sc.us[i] EXCEPT !.hp = hp]
           out == Emit(sc, [sc.us EXCEPT ![i].hp = hp], e)
<1>1. Sound(sc.us[i])
  BY DEF Mirrored, Army
<1>2. Sound(v) /\ Alike(sc.us[i], v) /\ v.hp = hp /\ v.alive
  BY <1>1, HealedSound
<1>3. [sc.us EXCEPT ![i].hp = hp] = [sc.us EXCEPT ![i] = v]
  OBVIOUS
<1>4. Replay(sc.m, e) = [sc.m EXCEPT ![i] = hp]
  BY DEF Replay
<1>5. out = [us |-> [sc.us EXCEPT ![i] = v], m |-> [sc.m EXCEPT ![i] = v.hp]]
  BY <1>2, <1>3, <1>4 DEF Emit
<1> HIDE DEF v, out
<1>6. Mirrored(D, out) /\ Kept(D, sc.us, out.us, {i}) /\ out.us[i] = v
  BY <1>2, <1>5, Heard
<1> QED
  BY <1>2, <1>6 DEF out

\* The wound, and the death it may be, as the event of it will tell.
LEMMA WithDeathSound ==
    ASSUME NEW D, NEW sc, sc = [us |-> sc.us, m |-> sc.m], Army(D, sc.us),
           DOMAIN sc.m = D, sc.m = [j \in D |-> sc.m[j]],
           NEW i \in D, NEW dmg \in Nat
    PROVE  LET out == WithDeath(sc, i, dmg)
           IN  /\ out = [us |-> out.us, m |-> out.m]
               /\ out.us = [sc.us EXCEPT ![i] = Wounded(sc.us[i], dmg)]
               /\ out.m = (IF out.us[i].alive THEN sc.m ELSE [sc.m EXCEPT ![i] = 0])
               /\ out.us[i] = Wounded(sc.us[i], dmg)
<1> DEFINE v == Wounded(sc.us[i], dmg)
           vs == [sc.us EXCEPT ![i] = v]
           out == WithDeath(sc, i, dmg)
<1>1. vs[i] = v
  BY DEF Army
<1>2. CASE v.alive
  <2>1. out = [sc EXCEPT !.us = vs]
    BY <1>1, <1>2 DEF WithDeath
  <2>2. out = [us |-> vs, m |-> sc.m]
    BY <2>1
  <2> QED
    BY <1>1, <1>2, <2>2
<1>3. CASE ~v.alive
  <2>1. out = Emit(sc, vs, Event("death", i, 0))
    BY <1>1, <1>3 DEF WithDeath
  <2>2. Replay(sc.m, Event("death", i, 0)) = [sc.m EXCEPT ![i] = 0]
    BY DEF Replay, Event
  <2>3. out = [us |-> vs, m |-> [sc.m EXCEPT ![i] = 0]]
    BY <2>1, <2>2 DEF Emit
  <2> QED
    BY <1>1, <1>3, <2>3
<1> QED
  BY <1>2, <1>3

\* What an effect on the units of S does to a scene.
Effect(D, sc, out, S) == Mirrored(D, out) /\ Kept(D, sc.us, out.us, S)

LEMMA ApplyDamageSound ==
    ASSUME NEW D, NEW sc, Mirrored(D, sc), NEW i \in D, sc.us[i].alive, NEW dmg \in Nat
    PROVE  Effect(D, sc, ApplyDamage(sc, i, dmg), {i})
<1> DEFINE u == sc.us[i]
           half == u.maxHp \div 2
<1>1. Sound(u) /\ sc = [us |-> sc.us, m |-> sc.m] /\ Army(D, sc.us)
      /\ sc.m = [j \in D |-> sc.us[j].hp]
  BY DEF Mirrored, Army
<1>2. u.maxHp \in Nat /\ u.maxHp > 1 /\ u \in UnitRecord
  BY <1>1, SoundFacts DEF Sound
<1>3. half \in Nat /\ half > 0 /\ half <= u.maxHp
  BY <1>2
<1>4. CASE Revives(u, dmg)
  <2> DEFINE v == [[u EXCEPT !.hp = half] EXCEPT !.revived = TRUE]
             us1 == [sc.us EXCEPT ![i].hp = half, ![i].revived = TRUE]
             e == Event("revive", i, half)
  <2>1. v \in UnitRecord
    BY <1>2, <1>3 DEF UnitRecord
  <2>2. v.hp = half /\ v.maxHp = u.maxHp /\ v.alive = u.alive
        /\ v.kind = u.kind /\ v.star = u.star /\ v.slot = u.slot /\ v.slowBy = u.slowBy
    BY <1>2 DEF UnitRecord
  <2>3. Sound(v) /\ Alike(u, v)
    BY <1>1, <1>3, <2>1, <2>2 DEF Sound, Alike
  <2>4. us1 = [sc.us EXCEPT ![i] = v]
    BY <1>1 DEF Army
  <2>5. Replay(sc.m, e) = [sc.m EXCEPT ![i] = half]
    BY DEF Replay, Event
  <2>6. ApplyDamage(sc, i, dmg) = Emit(sc, us1, e)
    BY <1>4 DEF ApplyDamage
  <2>7. ApplyDamage(sc, i, dmg)
            = [us |-> [sc.us EXCEPT ![i] = v], m |-> [sc.m EXCEPT ![i] = v.hp]]
    BY <2>2, <2>4, <2>5, <2>6 DEF Emit
  <2> HIDE DEF v, u, us1, e
  <2>8. Sound(v) /\ Alike(sc.us[i], v)
    BY <2>3 DEF u
  <2> DEFINE out == ApplyDamage(sc, i, dmg)
  <2> HIDE DEF out
  <2>9. out = [us |-> [sc.us EXCEPT ![i] = v], m |-> [sc.m EXCEPT ![i] = v.hp]]
    BY <2>7 DEF out
  <2>10. Mirrored(D, out) /\ Kept(D, sc.us, out.us, {i})
    BY <2>8, <2>9, Heard
  <2> QED
    BY <2>10 DEF Effect, out
<1>5. CASE ~Revives(u, dmg)
  <2> DEFINE v == Wounded(u, dmg)
             hit == WithDeath(sc, i, dmg)
             e == Event("attack", i, hit.us[i].hp)
  <2>1. Sound(v) /\ Alike(u, v) /\ (~v.alive => v.hp = 0)
    BY <1>1, WoundedSound
  <2>2. DOMAIN sc.m = D /\ sc.m = [j \in D |-> sc.m[j]]
    BY <1>1
  <2>3. /\ hit.us = [sc.us EXCEPT ![i] = v] /\ hit.us[i] = v
        /\ hit.m = (IF v.alive THEN sc.m ELSE [sc.m EXCEPT ![i] = 0])
    BY <1>1, <2>2, WithDeathSound
  <2>4. ApplyDamage(sc, i, dmg) = Emit(hit, hit.us, e)
    BY <1>5 DEF ApplyDamage
  <2>5. Replay(hit.m, e) = [hit.m EXCEPT ![i] = v.hp]
    BY <2>3 DEF Replay, Event
  <2>6. [hit.m EXCEPT ![i] = v.hp] = [sc.m EXCEPT ![i] = v.hp]
    <3>1. [[sc.m EXCEPT ![i] = 0] EXCEPT ![i] = v.hp] = [sc.m EXCEPT ![i] = v.hp]
      BY <2>2
    <3> QED
      BY <2>3, <3>1
  <2>7. ApplyDamage(sc, i, dmg)
            = [us |-> [sc.us EXCEPT ![i] = v], m |-> [sc.m EXCEPT ![i] = v.hp]]
    BY <2>3, <2>4, <2>5, <2>6 DEF Emit
  <2> HIDE DEF v, u, hit, e
  <2>8. Sound(v) /\ Alike(sc.us[i], v)
    BY <2>1 DEF u
  <2> DEFINE out == ApplyDamage(sc, i, dmg)
  <2> HIDE DEF out
  <2>9. out = [us |-> [sc.us EXCEPT ![i] = v], m |-> [sc.m EXCEPT ![i] = v.hp]]
    BY <2>7 DEF out
  <2>10. Mirrored(D, out) /\ Kept(D, sc.us, out.us, {i})
    BY <2>8, <2>9, Heard
  <2> QED
    BY <2>10 DEF Effect, out
<1> QED
  BY <1>4, <1>5

LEMMA LifestealSound ==
    ASSUME NEW D, NEW sc, Mirrored(D, sc), NEW i \in D, sc.us[i].alive, NEW dmg \in Nat
    PROVE  /\ Effect(D, sc, ApplyLifesteal(sc, i, dmg), {i})
           /\ ApplyLifesteal(sc, i, dmg).us[i].alive
<1> DEFINE u == sc.us[i]
           raw == (dmg * 5 * u.star) \div 100
           hp == IF u.hp + raw > u.maxHp THEN u.maxHp ELSE u.hp + raw
           e == Event("lifesteal", i, hp)
<1>1. Sound(u)
  BY DEF Mirrored, Army
<1>2. u.star \in 0 .. 2 /\ u.hp \in Nat /\ u.maxHp \in Nat /\ u.maxHp > 1 /\ u.hp <= u.maxHp
  BY <1>1, SoundFacts
<1>3. u.hp > 0
  BY <1>1 DEF Sound
<1>4. raw \in Nat
  <2>1. u.star = 0 \/ u.star = 1 \/ u.star = 2
    BY <1>2
  <2>2. CASE u.star = 0
    BY <2>2
  <2>3. CASE u.star = 1
    BY <2>3
  <2>4. CASE u.star = 2
    BY <2>4
  <2> QED
    BY <2>1, <2>2, <2>3, <2>4
<1>5. hp \in Nat /\ hp > 0 /\ hp <= u.maxHp
  <2> HIDE DEF raw
  <2> QED
    BY <1>2, <1>3, <1>4
<1>6. e.unit = i /\ e.value = hp /\ e.type \in {"lifesteal", "heal"}
  BY DEF Event
<1>7. ApplyLifesteal(sc, i, dmg) = Emit(sc, [sc.us EXCEPT ![i].hp = hp], e)
  BY DEF ApplyLifesteal
<1> HIDE DEF e, hp, raw
<1>8. /\ Mirrored(D, Emit(sc, [sc.us EXCEPT ![i].hp = hp], e))
      /\ Kept(D, sc.us, Emit(sc, [sc.us EXCEPT ![i].hp = hp], e).us, {i})
      /\ Emit(sc, [sc.us EXCEPT ![i].hp = hp], e).us[i].alive
  BY <1>5, <1>6, HeardHp
<1> QED
  BY <1>7, <1>8 DEF Effect

LEMMA HealOneSound ==
    ASSUME NEW D, NEW sc, Mirrored(D, sc), NEW i \in D, sc.us[i].alive
    PROVE  /\ Effect(D, sc, HealOne(sc, i), {i})
           /\ HealOne(sc, i).us[i].alive
<1> DEFINE u == sc.us[i]
           hp == IF u.hp + HEAL_AMOUNT > u.maxHp THEN u.maxHp ELSE u.hp + HEAL_AMOUNT
           e == Event("heal", i, hp)
<1>1. Sound(u)
  BY DEF Mirrored, Army
<1>2. u.hp \in Nat /\ u.maxHp \in Nat /\ u.maxHp > 1 /\ u.hp <= u.maxHp
  BY <1>1, SoundFacts
<1>3. hp \in Nat /\ hp > 0 /\ hp <= u.maxHp
  BY <1>2 DEF HEAL_AMOUNT
<1>4. CASE hp = u.hp
  <2>1. HealOne(sc, i) = sc
    BY <1>4 DEF HealOne
  <2> QED
    BY <2>1 DEF Effect, Kept, Alike
<1>5. CASE hp # u.hp
  <2>1. HealOne(sc, i) = Emit(sc, [sc.us EXCEPT ![i].hp = hp], e)
    BY <1>5 DEF HealOne
  <2>2. e.unit = i /\ e.value = hp /\ e.type \in {"lifesteal", "heal"}
    BY DEF Event
  <2> HIDE DEF e, hp
  <2>3. /\ Mirrored(D, Emit(sc, [sc.us EXCEPT ![i].hp = hp], e))
        /\ Kept(D, sc.us, Emit(sc, [sc.us EXCEPT ![i].hp = hp], e).us, {i})
        /\ Emit(sc, [sc.us EXCEPT ![i].hp = hp], e).us[i].alive
    BY <1>3, <2>2, HeardHp
  <2> QED
    BY <2>1, <2>3 DEF Effect
<1> QED
  BY <1>4, <1>5
LEMMA ArmyDomain ==
    ASSUME NEW D, NEW us, Army(D, us)
    PROVE  /\ DOMAIN us = D
           /\ Alive(us) = {j \in D : us[j].alive}
BY DEF Army, Alive

LEMMA EffectTrans ==
    ASSUME NEW D, NEW sc, NEW to, NEW out, NEW S, NEW T,
           Effect(D, sc, to, S), Effect(D, to, out, T)
    PROVE  Effect(D, sc, out, S \union T)
BY KeptTrans DEF Effect

\* The spill falls on enemies of the attacker only.
LEMMA PierceSound ==
    ASSUME NEW D, NEW sc, Mirrored(D, sc), NEW i \in D, NEW t \in D, NEW dmg \in Nat
    PROVE  \E S \in SUBSET {j \in D : Side(j) # Side(i)} :
              Effect(D, sc, ApplyPierce(sc, i, t, dmg), S)
<1> DEFINE behind == {j \in Foes(sc.us, i) : Lane(sc.us[j]) = Lane(sc.us[t])
                                             /\ Row(sc.us[j]) = Row(sc.us[t]) + 1}
           spill == dmg \div 10
           j == CHOOSE x \in behind : TRUE
           e == Event("pierce", j, spill)
           mid == Emit(sc, sc.us, e)
           out == WithDeath(mid, j, spill)
<1>1. CASE behind = {}
  <2>1. ApplyPierce(sc, i, t, dmg) = sc
    BY <1>1 DEF ApplyPierce
  <2>2. Effect(D, sc, sc, {})
    BY DEF Effect, Kept, Alike
  <2> QED
    BY <2>1, <2>2
<1>2. CASE behind # {}
  <2>1. ApplyPierce(sc, i, t, dmg) = out
    BY <1>2 DEF ApplyPierce
  <2>2. j \in behind
    BY <1>2
  <2>3. Army(D, sc.us) /\ sc.m = [x \in D |-> sc.us[x].hp]
    BY DEF Mirrored
  <2>4. j \in D /\ Side(j) # Side(i)
    BY <2>2, <2>3, ArmyDomain DEF Foes
  <2>5. spill \in Nat
    OBVIOUS
  <2> DEFINE u == sc.us[j]
             v == Wounded(u, spill)
  <2>6. Sound(u)
    BY <2>3, <2>4 DEF Army
  <2>7. /\ Sound(v) /\ Alike(u, v)
        /\ v.hp = (IF spill >= u.hp THEN 0 ELSE u.hp - spill)
        /\ ~v.alive => v.hp = 0
    <3> HIDE DEF spill
    <3> QED
      BY <2>5, <2>6, WoundedSound
  <2>8. Replay(sc.m, e) = [sc.m EXCEPT ![j] = IF spill >= sc.m[j] THEN 0 ELSE sc.m[j] - spill]
    BY DEF Replay, Event
  <2>9. sc.m[j] = u.hp
    BY <2>3, <2>4
  <2>10. Replay(sc.m, e) = [sc.m EXCEPT ![j] = v.hp]
    BY <2>7, <2>8, <2>9
  <2>11. mid = [us |-> sc.us, m |-> [sc.m EXCEPT ![j] = v.hp]]
    BY <2>10 DEF Emit
  <2> HIDE DEF e, j, spill, behind, mid
  <2>12. /\ mid = [us |-> mid.us, m |-> mid.m] /\ mid.us = sc.us
         /\ mid.m = [sc.m EXCEPT ![j] = v.hp]
    BY <2>11
  <2>13. DOMAIN mid.m = D /\ mid.m = [x \in D |-> mid.m[x]]
    BY <2>3, <2>12
  <2>14. /\ out = [us |-> out.us, m |-> out.m]
         /\ out.us = [sc.us EXCEPT ![j] = v]
         /\ out.m = (IF out.us[j].alive THEN mid.m ELSE [mid.m EXCEPT ![j] = 0])
         /\ out.us[j] = v
    BY <2>3, <2>4, <2>5, <2>12, <2>13, WithDeathSound
  <2>15. out.m = [sc.m EXCEPT ![j] = v.hp]
    <3>1. [[sc.m EXCEPT ![j] = v.hp] EXCEPT ![j] = v.hp] = [sc.m EXCEPT ![j] = v.hp]
      BY <2>3
    <3> QED
      BY <2>7, <2>12, <2>14, <3>1
  <2> HIDE DEF out, v
  <2>16. out = [us |-> [sc.us EXCEPT ![j] = v], m |-> [sc.m EXCEPT ![j] = v.hp]]
    BY <2>14, <2>15
  <2>17. Mirrored(D, out) /\ Kept(D, sc.us, out.us, {j})
    BY <2>4, <2>7, <2>16, Heard
  <2>18. {j} \in SUBSET {x \in D : Side(x) # Side(i)}
    BY <2>4
  <2> QED
    BY <2>1, <2>17, <2>18 DEF Effect
<1> QED
  BY <1>1, <1>2

----------------------------------------------------------------------------
(* The choices of a unit *)

LEMMA Positions ==
    ASSUME NEW D, NEW us, Army(D, us), NEW i \in D
    PROVE  /\ Lane(us[i]) \in 0 .. 2 /\ Row(us[i]) \in 0 .. 2
           /\ us[i].slot \in Nat /\ us[i].hp \in Nat
<1>1. us[i].slot \in 0 .. 8 /\ us[i].hp \in Nat
  BY SoundFacts DEF Army
<1> QED
  BY <1>1 DEF Lane, Row

LEMMA WeakestExists ==
    ASSUME NEW D, NEW us, Army(D, us), NEW S \in SUBSET D, S # {}
    PROVE  Weakest(us, S) # {} /\ Weakest(us, S) \subseteq S
<1> DEFINE f == [i \in S |-> us[i].hp]
<1>1. f \in [S -> Nat]
  BY Positions
<1> HIDE DEF f
<1>2. \E i \in S : \A j \in S : f[i] <= f[j]
  BY <1>1, LeastAt
<1> USE DEF f
<1>3. \E i \in S : \A j \in S : us[i].hp <= us[j].hp
  BY <1>2
<1> QED
  BY <1>3 DEF Weakest

LEMMA FrontExists ==
    ASSUME NEW D, NEW us, Army(D, us), NEW S \in SUBSET D, S # {}
    PROVE  FrontRow(us, S) # {} /\ FrontRow(us, S) \subseteq S
<1> DEFINE f == [i \in S |-> Row(us[i])]
<1>1. f \in [S -> Nat]
  BY Positions
<1> HIDE DEF f
<1>2. \E i \in S : \A j \in S : f[i] <= f[j]
  BY <1>1, LeastAt
<1> USE DEF f
<1>3. \E i \in S : \A j \in S : Row(us[i]) <= Row(us[j])
  BY <1>2
<1> QED
  BY <1>3 DEF FrontRow

\* The first in lane, row and id.
LEMMA ByPositionChosen ==
    ASSUME NEW D, D \subseteq Nat, NEW us, Army(D, us), NEW S \in SUBSET D, S # {}
    PROVE  ByPosition(us, S) \in S
<1> DEFINE f == [i \in S |-> Lane(us[i])]
           S1 == {i \in S : \A j \in S : Lane(us[i]) <= Lane(us[j])}
           S2 == FrontRow(us, S1)
           P(i, j) == \/ Lane(us[i]) < Lane(us[j])
                      \/ Lane(us[i]) = Lane(us[j]) /\ Row(us[i]) < Row(us[j])
                      \/ Lane(us[i]) = Lane(us[j]) /\ Row(us[i]) = Row(us[j]) /\ i <= j
<1>1. S1 # {}
  <2>1. f \in [S -> Nat]
    BY Positions
  <2> HIDE DEF f
  <2>2. \E i \in S : \A j \in S : f[i] <= f[j]
    BY <2>1, LeastAt
  <2> QED
    BY <2>2 DEF f
<1>2. S2 # {} /\ S2 \subseteq S1
  <2>1. S1 \in SUBSET D
    OBVIOUS
  <2> HIDE DEF S1
  <2> QED
    BY <1>1, <2>1, FrontExists
<1>3. S2 \in SUBSET Nat
  BY <1>2
<1>4. PICK i \in S2 : \A j \in S2 : i <= j
  <2> HIDE DEF S2, S1
  <2> QED
    BY <1>2, <1>3, LeastOf
<1>5. i \in S1 /\ i \in S
  BY <1>2, <1>4
<1>6. ASSUME NEW j \in S PROVE P(i, j)
  <2>1. /\ Lane(us[i]) \in 0 .. 2 /\ Row(us[i]) \in 0 .. 2
        /\ Lane(us[j]) \in 0 .. 2 /\ Row(us[j]) \in 0 .. 2 /\ i \in Nat /\ j \in Nat
    BY <1>5, Positions
  <2>2. Lane(us[i]) <= Lane(us[j])
    BY <1>5
  <2>3. CASE j \notin S1
    <3>1. PICK k \in S : ~(Lane(us[j]) <= Lane(us[k]))
      BY <2>3
    <3>2. Lane(us[i]) <= Lane(us[k]) /\ Lane(us[k]) \in 0 .. 2
      BY <1>5, <3>1, Positions
    <3> QED
      BY <2>1, <3>1, <3>2
  <2>4. CASE j \in S1 /\ j \notin S2
    <3>1. Lane(us[j]) = Lane(us[i])
      BY <1>5, <2>1, <2>2, <2>4
    <3>2. PICK k \in S1 : ~(Row(us[j]) <= Row(us[k]))
      BY <2>4 DEF FrontRow
    <3>3. Row(us[i]) <= Row(us[k]) /\ Row(us[k]) \in 0 .. 2
      BY <1>4, <3>2, Positions DEF FrontRow
    <3> QED
      BY <2>1, <3>1, <3>2, <3>3
  <2>5. CASE j \in S1 /\ j \in S2
    <3>1. Lane(us[j]) = Lane(us[i])
      BY <1>5, <2>1, <2>2, <2>5
    <3>2. Row(us[i]) <= Row(us[j]) /\ Row(us[j]) <= Row(us[i])
      BY <1>4, <1>5, <2>5 DEF FrontRow
    <3>3. i <= j
      BY <1>4, <2>5
    <3> QED
      BY <2>1, <3>1, <3>2, <3>3
  <2> QED
    BY <2>3, <2>4, <2>5
<1>7. \E x \in S : \A j \in S : P(x, j)
  BY <1>5, <1>6
<1> QED
  BY <1>7, Zenon DEF ByPosition

LEMMA LowestHpChosen ==
    ASSUME NEW D, D \subseteq Nat, NEW us, Army(D, us), NEW S \in SUBSET D, S # {}
    PROVE  LowestHp(us, S) \in S
<1>1. Weakest(us, S) # {} /\ Weakest(us, S) \subseteq S
  BY WeakestExists
<1>2. Weakest(us, S) \in SUBSET D
  BY <1>1
<1>3. ByPosition(us, Weakest(us, S)) \in Weakest(us, S)
  BY <1>1, <1>2, ByPositionChosen
<1> QED
  BY <1>1, <1>3 DEF LowestHp

LEMMA LowestAllyChosen ==
    ASSUME NEW D, D \subseteq Nat, NEW us, Army(D, us), NEW S \in SUBSET D, S # {}
    PROVE  LowestAlly(us, S) \in S
<1> DEFINE W == Weakest(us, S)
<1>1. W # {} /\ W \subseteq S
  BY WeakestExists
<1>2. W \in SUBSET Nat
  BY <1>1
<1> HIDE DEF W
<1>3. \E i \in W : \A j \in W : i <= j
  BY <1>1, <1>2, LeastOf
<1>4. (CHOOSE i \in W : \A j \in W : i <= j) \in W
  BY <1>3
<1> QED
  BY <1>1, <1>4 DEF LowestAlly, W

\* There is a candidate when there is an enemy, and it is one.
LEMMA CandidatesExist ==
    ASSUME NEW D, NEW us, Army(D, us), NEW i \in D, Foes(us, i) # {}
    PROVE  Candidates(us, i) # {} /\ Candidates(us, i) \subseteq Foes(us, i)
<1> DEFINE foes == Foes(us, i)
           own == InLane(us, foes, Lane(us[i]))
           Q(c) == InLane(us, foes, c) # {} /\ \A d \in 0 .. c - 1 : InLane(us, foes, d) = {}
           lane == CHOOSE c \in 0 .. 2 : Q(c)
           S == IF own # {} THEN own ELSE InLane(us, foes, lane)
<1>1. foes \in SUBSET D
  BY ArmyDomain DEF Foes
<1>2. \A c : InLane(us, foes, c) \subseteq foes
  BY DEF InLane
<1>3. \E c \in 0 .. 2 : Q(c)
  <2> DEFINE T == {c \in 0 .. 2 : InLane(us, foes, c) # {}}
  <2>1. PICK j \in foes : TRUE
    OBVIOUS
  <2>2. Lane(us[j]) \in 0 .. 2 /\ j \in InLane(us, foes, Lane(us[j]))
    BY <1>1, <2>1, Positions DEF InLane
  <2>3. T \in SUBSET Nat /\ T # {}
    BY <2>2
  <2>4. PICK c \in T : \A k \in T : c <= k
    <3> HIDE DEF T
    <3> QED
      BY <2>3, LeastOf
  <2>5. c \in 0 .. 2 /\ InLane(us, foes, c) # {}
    BY <2>4
  <2>6. ASSUME NEW d \in 0 .. c - 1 PROVE InLane(us, foes, d) = {}
    <3>1. d \in 0 .. 2 /\ ~(c <= d)
      BY <2>5
    <3> QED
      BY <2>4, <3>1
  <2> QED
    BY <2>5, <2>6
<1>4. Q(lane)
  <2> HIDE DEF Q
  <2> QED
    BY <1>3
<1>5. S # {} /\ S \subseteq foes
  BY <1>2, <1>4
<1>6. Candidates(us, i) = FrontRow(us, S)
  BY DEF Candidates
<1>7. S \in SUBSET D
  BY <1>1, <1>5
<1> HIDE DEF S, foes
<1>8. FrontRow(us, S) # {} /\ FrontRow(us, S) \subseteq S
  BY <1>5, <1>7, FrontExists
<1> QED
  BY <1>5, <1>6, <1>8 DEF foes

\* The target is a living enemy.
LEMMA TargetIsAFoe ==
    ASSUME NEW D, D \subseteq Nat, NEW us, Army(D, us), NEW i \in D, Foes(us, i) # {}
    PROVE  PickTarget(us, i) \in Foes(us, i)
<1> DEFINE foes == Foes(us, i)
           guards == {j \in foes : us[j].kind = "tank" /\ us[j].star = 2}
           g == CHOOSE j \in guards : \A k \in guards : us[j].slot <= us[k].slot
           C == Candidates(us, i)
<1>1. foes \in SUBSET D
  BY ArmyDomain DEF Foes
<1>2. C # {} /\ C \subseteq foes /\ C \in SUBSET D
  BY <1>1, CandidatesExist
<1>3. LowestHp(us, foes) \in foes /\ LowestHp(us, C) \in foes
  <2> HIDE DEF foes, C
  <2>1. foes # {}
    BY DEF foes
  <2>2. LowestHp(us, foes) \in foes
    BY <1>1, <2>1, LowestHpChosen
  <2>3. LowestHp(us, C) \in C
    BY <1>2, LowestHpChosen
  <2> QED
    BY <1>2, <2>2, <2>3
<1>4. ByPosition(us, C) \in foes
  <2> HIDE DEF foes, C
  <2>1. ByPosition(us, C) \in C
    BY <1>2, ByPositionChosen
  <2> QED
    BY <1>2, <2>1
<1>5. ASSUME guards # {} PROVE g \in foes
  <2> DEFINE f == [j \in guards |-> us[j].slot]
  <2>1. f \in [guards -> Nat]
    BY <1>1, Positions
  <2> HIDE DEF f, guards
  <2>2. \E x \in guards : \A j \in guards : f[x] <= f[j]
    BY <1>5, <2>1, LeastAt
  <2>3. \E x \in guards : \A j \in guards : us[x].slot <= us[j].slot
    BY <2>2 DEF f
  <2>4. g \in guards
    BY <2>3
  <2> QED
    BY <2>4 DEF guards
<1>6. PickTarget(us, i) =
        IF us[i].kind = "ranger"
        THEN LowestHp(us, IF us[i].star = 2 THEN foes ELSE C)
        ELSE IF guards # {} THEN g ELSE ByPosition(us, C)
  BY DEF PickTarget
<1> HIDE DEF foes, guards, g, C
<1>7. PickTarget(us, i) \in foes
  BY <1>3, <1>4, <1>5, <1>6
<1> QED
  BY <1>7 DEF foes
LEMMA KeptMore ==
    ASSUME NEW D, NEW us, NEW vs, NEW S, NEW T, Kept(D, us, vs, S), S \subseteq T
    PROVE  Kept(D, us, vs, T)
BY DEF Kept

\* The healer's support: allies only, and nobody falls of it.
LEMMA SupportSound ==
    ASSUME NEW D, D \subseteq Nat, NEW sc, Mirrored(D, sc), NEW i \in D, sc.us[i].alive
    PROVE  /\ Effect(D, sc, HealerSupport(sc, i), {j \in D : Side(j) = Side(i)})
           /\ HealerSupport(sc, i).us[i].alive
<1> DEFINE A == {j \in D : Side(j) = Side(i)}
           one == LowestAlly(sc.us, Allies(sc.us, i))
           after == HealOne(sc, one)
           rest == Allies(after.us, i) \ {one}
           two == LowestAlly(after.us, rest)
           out == HealOne(after, two)
<1>1. Army(D, sc.us)
  BY DEF Mirrored
<1>2. Allies(sc.us, i) \in SUBSET D /\ Allies(sc.us, i) # {}
  BY <1>1, ArmyDomain DEF Allies
<1>3. one \in Allies(sc.us, i)
  <2> DEFINE S == Allies(sc.us, i)
             us == sc.us
  <2> HIDE DEF S, us
  <2>1. Army(D, us) /\ S \in SUBSET D /\ S # {}
    BY <1>1, <1>2 DEF S, us
  <2>2. LowestAlly(us, S) \in S
    BY <2>1, LowestAllyChosen
  <2> QED
    BY <2>2 DEF S, us
<1> HIDE DEF one
<1>4. one \in D /\ one \in A /\ sc.us[one].alive
  BY <1>1, <1>3, ArmyDomain DEF Allies
<1> USE DEF one
<1>5. Effect(D, sc, after, {one}) /\ after.us[one].alive
  <2> HIDE DEF one
  <2> QED
    BY <1>4, HealOneSound
<1>6. Effect(D, sc, after, A) /\ after.us[i].alive
  <2> HIDE DEF after, one
  <2>1. {one} \subseteq A
    BY <1>4
  <2>2. after.us[i].alive
    BY <1>5 DEF Effect, Kept
  <2> QED
    BY <1>5, <2>1, <2>2, KeptMore DEF Effect
<1>7. CASE sc.us[i].star < 2 \/ rest = {}
  <2>1. HealerSupport(sc, i) = after
    BY <1>7 DEF HealerSupport
  <2> QED
    BY <1>6, <2>1
<1>8. CASE ~(sc.us[i].star < 2 \/ rest = {})
  <2>1. HealerSupport(sc, i) = out
    BY <1>8 DEF HealerSupport
  <2> HIDE DEF after, one
  <2>2. Mirrored(D, after) /\ Army(D, after.us)
    BY <1>6 DEF Effect, Mirrored
  <2>3. rest \in SUBSET D /\ rest # {}
    BY <1>8, <2>2, ArmyDomain DEF Allies
  <2>4. two \in rest
    <3> HIDE DEF rest
    <3> QED
      BY <2>2, <2>3, LowestAllyChosen
  <2> HIDE DEF two
  <2>5. two \in A /\ after.us[two].alive
    BY <2>2, <2>4, ArmyDomain DEF Allies
  <2> HIDE DEF rest
  <2>6. Effect(D, after, out, {two}) /\ out.us[two].alive
    <3> HIDE DEF A
    <3>1. two \in D
      BY <2>5 DEF A
    <3> QED
      BY <2>2, <2>5, <3>1, HealOneSound
  <2>7. out.us[i].alive
    BY <1>6, <2>6 DEF Effect, Kept
  <2> HIDE DEF out
  <2>8. Effect(D, sc, out, A \union {two})
    BY <1>6, <2>6, EffectTrans
  <2>9. A \union {two} = A
    BY <2>5
  <2> QED
    BY <2>1, <2>7, <2>8, <2>9
<1> QED
  BY <1>7, <1>8

----------------------------------------------------------------------------
(* Slows *)

\* A slow is an enemy healer's with a star, and no healer slows two units.
Slows(D, us) ==
    \A i \in D : us[i].slowBy # NoHealer =>
        LET h == us[i].slowBy
        IN  /\ h \in D /\ Side(h) # Side(i)
            /\ us[h].kind = "healer" /\ us[h].star >= 1
            /\ \A j \in D : us[j].slowBy = h => j = i

Unslowed(D, us, h) == \A j \in D : us[j].slowBy # h

LEMMA SlowsKept ==
    ASSUME NEW D, NEW us, NEW vs, NEW S, Kept(D, us, vs, S), Slows(D, us)
    PROVE  Slows(D, vs)
<1>1. \A j \in D : Alike(us[j], vs[j])
  BY DEF Kept
<1>2. \A j \in D : vs[j].kind = us[j].kind /\ vs[j].star = us[j].star
                   /\ vs[j].slowBy = us[j].slowBy
  BY <1>1 DEF Alike
<1> QED
  BY <1>2 DEF Slows

Cleared(D, us, vs, h) ==
    /\ Army(D, vs) /\ Slows(D, vs) /\ Unslowed(D, vs, h)
    /\ \A j \in D : /\ vs[j].hp = us[j].hp /\ (vs[j].alive <=> us[j].alive)
                    /\ vs[j].kind = us[j].kind /\ vs[j].star = us[j].star

\* What she slowed before she slows no more, and nothing else is changed.
LEMMA SlowsCleared ==
    ASSUME NEW D, D \subseteq Nat, NEW us, Army(D, us), Slows(D, us), NEW h \in D,
           h # NoHealer, NEW vs, vs = ClearSlows(us, h)
    PROVE  Cleared(D, us, vs, h)
<1> DEFINE w(j) == [us[j] EXCEPT !.slowBy = NoHealer]
<1>1. DOMAIN us = D
  BY ArmyDomain
<1>2. vs = [j \in D |-> IF us[j].slowBy = h THEN w(j) ELSE us[j]]
  BY <1>1 DEF ClearSlows
<1>3. ASSUME NEW j \in D
      PROVE  /\ Sound(w(j)) /\ w(j).hp = us[j].hp /\ w(j).alive = us[j].alive
             /\ w(j).kind = us[j].kind /\ w(j).star = us[j].star
             /\ w(j).slowBy = NoHealer
  <2>1. Sound(us[j])
    BY DEF Army
  <2>2. us[j] \in UnitRecord /\ NoHealer \in Nat
    BY <2>1 DEF Sound, NoHealer
  <2>3. w(j) \in UnitRecord
    BY <2>2 DEF UnitRecord
  <2>4. /\ w(j).hp = us[j].hp /\ w(j).alive = us[j].alive /\ w(j).maxHp = us[j].maxHp
        /\ w(j).kind = us[j].kind /\ w(j).star = us[j].star
        /\ w(j).slowBy = NoHealer
    BY <2>2 DEF UnitRecord
  <2> HIDE DEF w
  <2>5. Sound(w(j))
    BY <2>1, <2>3, <2>4 DEF Sound
  <2> QED
    BY <2>4, <2>5
<1> HIDE DEF w
<1>4. \A j \in D : vs[j] = IF us[j].slowBy = h THEN w(j) ELSE us[j]
  BY <1>2
<1>5. Army(D, vs)
  <2>1. vs = [j \in D |-> vs[j]]
    BY <1>2
  <2>2. \A j \in D : Sound(vs[j])
    BY <1>3, <1>4 DEF Army
  <2> QED
    BY <2>1, <2>2 DEF Army
<1>6. \A j \in D : /\ vs[j].hp = us[j].hp /\ (vs[j].alive <=> us[j].alive)
                   /\ vs[j].kind = us[j].kind /\ vs[j].star = us[j].star
                   /\ vs[j].slowBy = (IF us[j].slowBy = h THEN NoHealer ELSE us[j].slowBy)
  BY <1>3, <1>4
<1>7. Unslowed(D, vs, h)
  BY <1>6 DEF Unslowed
<1>8. Slows(D, vs)
  <2>1. SUFFICES ASSUME NEW i \in D, NEW g, g = vs[i].slowBy, g # NoHealer
                 PROVE  /\ g \in D /\ Side(g) # Side(i)
                        /\ vs[g].kind = "healer" /\ vs[g].star >= 1
                        /\ \A j \in D : vs[j].slowBy = g => j = i
    BY DEF Slows
  <2>2. g = us[i].slowBy
    BY <1>6, <2>1
  <2>3. /\ g \in D /\ Side(g) # Side(i)
        /\ us[g].kind = "healer" /\ us[g].star >= 1
        /\ \A j \in D : us[j].slowBy = g => j = i
    BY <2>1, <2>2 DEF Slows
  <2>4. \A j \in D : vs[j].slowBy = g => us[j].slowBy = g
    <3>1. \A j \in D : us[j].slowBy = h => vs[j].slowBy = NoHealer
      BY <1>6
    <3>2. \A j \in D : us[j].slowBy # h => vs[j].slowBy = us[j].slowBy
      BY <1>6
    <3> QED
      BY <2>1, <3>1, <3>2
  <2>5. \A j \in D : vs[j].slowBy = g => j = i
    BY <2>3, <2>4, Zenon
  <2>6. vs[g].kind = us[g].kind /\ vs[g].star = us[g].star
    BY <1>6, <2>3
  <2> QED
    BY <2>3, <2>5, <2>6
<1> QED
  BY <1>5, <1>6, <1>7, <1>8 DEF Cleared

\* A healer that slows nobody slows one enemy.
LEMMA SlowSound ==
    ASSUME NEW D, D \subseteq Nat, NEW sc, Mirrored(D, sc), Slows(D, sc.us),
           NEW h \in D, Unslowed(D, sc.us, h), sc.us[h].kind = "healer",
           h # NoHealer,
           NEW t \in D, Side(t) # Side(h), NEW out, out = ApplySlow(sc, h, t)
    PROVE  /\ Mirrored(D, out) /\ Slows(D, out.us)
           /\ \A j \in D : out.us[j].alive = sc.us[j].alive
<1> DEFINE v == [sc.us[t] EXCEPT !.slowBy = h]
           vs == [sc.us EXCEPT ![t] = v]
<1>1. CASE sc.us[h].star = 0
  BY <1>1 DEF ApplySlow
<1>2. CASE sc.us[h].star # 0
  <2>1. out = Emit(sc, vs, Event("slow", t, 0))
    BY <1>2 DEF ApplySlow
  <2>2. Replay(sc.m, Event("slow", t, 0)) = sc.m
    BY DEF Replay, Event
  <2>3. out = [us |-> vs, m |-> sc.m]
    BY <2>1, <2>2 DEF Emit
  <2>4. Sound(sc.us[t]) /\ Army(D, sc.us) /\ sc.m = [j \in D |-> sc.us[j].hp]
        /\ Sound(sc.us[h])
    BY DEF Mirrored, Army
  <2>5. sc.us[t] \in UnitRecord /\ h \in Nat /\ DOMAIN sc.us = D
    BY <2>4, ArmyDomain DEF Sound
  <2>6. v \in UnitRecord
    BY <2>5 DEF UnitRecord
  <2>7. /\ v.hp = sc.us[t].hp /\ v.alive = sc.us[t].alive /\ v.maxHp = sc.us[t].maxHp
        /\ v.kind = sc.us[t].kind /\ v.star = sc.us[t].star /\ v.slowBy = h
    BY <2>5 DEF UnitRecord
  <2> HIDE DEF v
  <2>8. Sound(v)
    BY <2>4, <2>6, <2>7 DEF Sound
  <2>9. vs[t] = v /\ \A j \in D \ {t} : vs[j] = sc.us[j]
    BY <2>5
  <2>10. vs = [j \in D |-> vs[j]]
    BY <2>5
  <2>11. \A j \in D : /\ vs[j].hp = sc.us[j].hp /\ vs[j].alive = sc.us[j].alive
                      /\ vs[j].kind = sc.us[j].kind /\ vs[j].star = sc.us[j].star
                      /\ vs[j].slowBy = (IF j = t THEN h ELSE sc.us[j].slowBy)
    BY <2>7, <2>9
  <2>12. Army(D, vs)
    BY <2>4, <2>8, <2>9, <2>10 DEF Army
  <2> HIDE DEF vs
  <2>13. sc.m = [j \in D |-> vs[j].hp]
    BY <2>4, <2>11
  <2>14. out.us = vs /\ out.m = sc.m /\ out = [us |-> out.us, m |-> out.m]
    BY <2>3
  <2>15. Mirrored(D, out)
    BY <2>12, <2>13, <2>14 DEF Mirrored
  <2>16. sc.us[h].star >= 1
    BY <1>2, <2>4, SoundFacts
  <2>17. Slows(D, vs)
    <3>1. /\ \A j \in D : j # t => sc.us[j].slowBy # h /\ vs[j].slowBy = sc.us[j].slowBy
          /\ vs[t].slowBy = h
      BY <2>11 DEF Unslowed
    <3>2. SUFFICES ASSUME NEW i \in D, NEW g, g = vs[i].slowBy, g # NoHealer
                   PROVE  /\ g \in D /\ Side(g) # Side(i)
                          /\ vs[g].kind = "healer" /\ vs[g].star >= 1
                          /\ \A j \in D : vs[j].slowBy = g => j = i
      BY DEF Slows
    <3>3. CASE i = t
      <4>1. g = h /\ \A j \in D : vs[j].slowBy = g => j = i
        BY <3>1, <3>2, <3>3
      <4> QED
        BY <2>11, <2>16, <3>3, <4>1
    <3>4. CASE i # t
      <4>1. g = sc.us[i].slowBy /\ g # h
        BY <3>1, <3>2, <3>4
      <4>2. /\ g \in D /\ Side(g) # Side(i)
            /\ sc.us[g].kind = "healer" /\ sc.us[g].star >= 1
            /\ \A j \in D : sc.us[j].slowBy = g => j = i
        BY <3>2, <4>1 DEF Slows
      <4>3. \A j \in D : vs[j].slowBy = g => j = i
        BY <3>1, <4>1, <4>2
      <4> QED
        BY <2>11, <4>2, <4>3
    <3> QED
      BY <3>3, <3>4
  <2> QED
    BY <2>11, <2>14, <2>15, <2>17
<1> QED
  BY <1>1, <1>2

----------------------------------------------------------------------------
(* One unit acting *)

\* What is true of the scene when a unit has acted.
Acted(D, sc, i) == Mirrored(D, sc) /\ Slows(D, sc.us) /\ sc.us[i].alive

\* The blow itself, from units that are as the attacker left them.
LEMMA BlowSound ==
    ASSUME NEW D, D \subseteq Nat, NEW sc, Mirrored(D, sc), Slows(D, sc.us),
           NEW i \in D, sc.us[i].alive,
           NEW t \in D, sc.us[t].alive, Side(t) # Side(i), NEW dmg \in Nat
    PROVE  /\ Acted(D, ApplyDamage(sc, t, dmg), i)
           /\ Kept(D, sc.us, ApplyDamage(sc, t, dmg).us, {t})
<1> DEFINE hit == ApplyDamage(sc, t, dmg)
<1>1. Effect(D, sc, hit, {t})
  BY ApplyDamageSound
<1> HIDE DEF hit
<1>2. Mirrored(D, hit) /\ Kept(D, sc.us, hit.us, {t})
  BY <1>1 DEF Effect
<1>3. Slows(D, hit.us)
  BY <1>2, SlowsKept
<1>4. i # t
  OBVIOUS
<1>5. hit.us[i].alive
  BY <1>2, <1>4 DEF Kept
<1> QED
  BY <1>2, <1>3, <1>5 DEF Acted, hit

LEMMA EffectActed ==
    ASSUME NEW D, NEW sc, NEW out, NEW S, NEW i \in D,
           Acted(D, sc, i), Effect(D, sc, out, S), out.us[i].alive
    PROVE  Acted(D, out, i)
BY SlowsKept DEF Acted, Effect

LEMMA AttackSound ==
    ASSUME NEW D, D \subseteq Nat, NoHealer \notin D, NEW us,
           Mirrored(D, [us |-> us, m |-> mirror]), Slows(D, us),
           NEW i \in D, us[i].alive, Foes(us, i) # {}
    PROVE  Acted(D, Attack(us, i), i)
<1> DEFINE u == us[i]
           t == PickTarget(us, i)
           dmg == AtkFor(u.kind, u.star)
           us1 == IF u.kind = "healer" THEN ClearSlows(us, i) ELSE us
           sc == [us |-> us1, m |-> mirror]
           hit == ApplyDamage(sc, t, dmg)
<1>1. Army(D, us) /\ mirror = [j \in D |-> us[j].hp]
  BY DEF Mirrored
<1>2. t \in D /\ us[t].alive /\ Side(t) # Side(i)
  <2>1. t \in Foes(us, i)
    BY <1>1, TargetIsAFoe
  <2> QED
    BY <1>1, <2>1, ArmyDomain DEF Foes
<1>3. Sound(u) /\ u.kind \in Kinds /\ u.star \in 0 .. 2
  BY <1>1, SoundFacts DEF Army
<1>4. dmg \in Nat
  BY <1>3, AtkType
<1>5. /\ Army(D, us1) /\ Slows(D, us1)
      /\ u.kind = "healer" => Unslowed(D, us1, i)
      /\ \A j \in D : /\ us1[j].hp = us[j].hp /\ (us1[j].alive <=> us[j].alive)
                      /\ us1[j].kind = us[j].kind /\ us1[j].star = us[j].star
  <2>1. CASE u.kind = "healer"
    <3>1. us1 = ClearSlows(us, i)
      BY <2>1
    <3>2. i # NoHealer
      OBVIOUS
    <3> HIDE DEF us1, u
    <3>3. Army(D, us)
      BY <1>1
    <3>4. Cleared(D, us, us1, i)
      BY <3>1, <3>2, <3>3, SlowsCleared
    <3> QED
      BY <3>4 DEF Cleared
  <2>2. CASE u.kind # "healer"
    BY <1>1, <2>2
  <2> QED
    BY <2>1, <2>2
<1> HIDE DEF us1, t, dmg
<1>6. mirror = [j \in D |-> us1[j].hp]
  BY <1>1, <1>5
<1>7. sc.us = us1 /\ sc.m = mirror /\ sc = [us |-> sc.us, m |-> sc.m]
  OBVIOUS
<1>8. Mirrored(D, sc)
  BY <1>5, <1>6, <1>7 DEF Mirrored
<1> HIDE DEF sc
<1>9. /\ Acted(D, hit, i) /\ Kept(D, sc.us, hit.us, {t})
  BY <1>2, <1>4, <1>5, <1>7, <1>8, BlowSound
<1>10. Attack(us, i) =
         CASE u.kind = "fighter" /\ u.star >= 1 -> ApplyLifesteal(hit, i, dmg)
           [] u.kind = "ranger" /\ u.star = 1   -> ApplyPierce(hit, i, t, dmg)
           [] u.kind = "healer"                 -> ApplySlow(HealerSupport(hit, i), i, t)
           [] OTHER -> hit
  BY DEF Attack, t, dmg, sc, us1
<1> HIDE DEF hit, u
<1>11. Mirrored(D, hit) /\ hit.us[i].alive
  BY <1>9 DEF Acted
<1>12. CASE u.kind = "fighter" /\ u.star >= 1
  <2> DEFINE out == ApplyLifesteal(hit, i, dmg)
  <2>1. Attack(us, i) = out
    BY <1>10, <1>12
  <2>2. Effect(D, hit, out, {i}) /\ out.us[i].alive
    BY <1>4, <1>11, LifestealSound
  <2> HIDE DEF out
  <2> QED
    BY <1>9, <2>1, <2>2, EffectActed
<1>13. CASE u.kind = "ranger" /\ u.star = 1
  <2> DEFINE out == ApplyPierce(hit, i, t, dmg)
  <2>1. Attack(us, i) = out
    BY <1>10, <1>13
  <2>2. PICK S \in SUBSET {j \in D : Side(j) # Side(i)} : Effect(D, hit, out, S)
    BY <1>2, <1>4, <1>11, PierceSound
  <2> HIDE DEF out
  <2>3. i \notin S
    BY <2>2
  <2>4. out.us[i].alive
    BY <1>11, <2>2, <2>3 DEF Effect, Kept
  <2> QED
    BY <1>9, <2>1, <2>2, <2>4, EffectActed
<1>14. CASE u.kind = "healer"
  <2> DEFINE mid == HealerSupport(hit, i)
             out == ApplySlow(mid, i, t)
  <2>1. Attack(us, i) = out
    BY <1>10, <1>14
  <2>2. Effect(D, hit, mid, {j \in D : Side(j) = Side(i)}) /\ mid.us[i].alive
    BY <1>11, SupportSound
  <2> HIDE DEF mid
  <2>3. Acted(D, mid, i)
    BY <1>9, <2>2, EffectActed
  <2>4. \A j \in D : Alike(sc.us[j], hit.us[j]) /\ Alike(hit.us[j], mid.us[j])
    BY <1>9, <2>2 DEF Effect, Kept
  <2>5. Unslowed(D, mid.us, i) /\ mid.us[i].kind = "healer"
    BY <1>5, <1>7, <1>14, <2>4 DEF Unslowed, Alike, u
  <2>6. Mirrored(D, mid) /\ Slows(D, mid.us) /\ i # NoHealer
    BY <2>3 DEF Acted
  <2>7. out = ApplySlow(mid, i, t)
    OBVIOUS
  <2> HIDE DEF out
  <2>8. /\ Mirrored(D, out) /\ Slows(D, out.us)
        /\ \A j \in D : out.us[j].alive = mid.us[j].alive
    BY <1>2, <2>5, <2>6, <2>7, SlowSound
  <2> QED
    BY <2>1, <2>2, <2>7, <2>8 DEF Acted
<1>15. CASE /\ ~(u.kind = "fighter" /\ u.star >= 1)
            /\ ~(u.kind = "ranger" /\ u.star = 1)
            /\ u.kind # "healer"
  <2>1. Attack(us, i) = hit
    BY <1>10, <1>15
  <2> QED
    BY <1>9, <2>1
<1> QED
  BY <1>12, <1>13, <1>14, <1>15

LEMMA UnitActSound ==
    ASSUME NEW D, D \subseteq Nat, NoHealer \notin D, NEW us,
           Mirrored(D, [us |-> us, m |-> mirror]), Slows(D, us),
           NEW i \in D, us[i].alive
    PROVE  Acted(D, UnitAct(us, i), i)
<1> DEFINE sc == [us |-> us, m |-> mirror]
           out == HealerSupport(sc, i)
<1>1. sc.us = us
  OBVIOUS
<1>2. Acted(D, sc, i)
  BY <1>1 DEF Acted
<1>3. CASE Foes(us, i) # {}
  <2>1. UnitAct(us, i) = Attack(us, i)
    BY <1>3 DEF UnitAct
  <2> QED
    BY <1>3, <2>1, AttackSound
<1>4. CASE Foes(us, i) = {} /\ us[i].kind = "healer"
  <2>1. UnitAct(us, i) = out
    BY <1>4 DEF UnitAct
  <2>2. Mirrored(D, sc) /\ sc.us[i].alive
    BY <1>1
  <2> HIDE DEF sc
  <2>3. Effect(D, sc, out, {j \in D : Side(j) = Side(i)}) /\ out.us[i].alive
    BY <2>2, SupportSound
  <2> HIDE DEF out
  <2> QED
    BY <1>2, <2>1, <2>3, EffectActed
<1>5. CASE Foes(us, i) = {} /\ us[i].kind # "healer"
  <2>1. UnitAct(us, i) = sc
    BY <1>5 DEF UnitAct
  <2> QED
    BY <1>2, <2>1
<1> QED
  BY <1>3, <1>4, <1>5
----------------------------------------------------------------------------
(* The battle *)

\* Everything a state of the battle keeps: the scene, the slows, the units still
\* to act, which none are once the battle is decided, and what a verdict says.
BattleInv ==
    /\ DOMAIN units \subseteq Ids /\ IsFiniteSet(DOMAIN units)
    /\ Mirrored(DOMAIN units, [us |-> units, m |-> mirror])
    /\ Slows(DOMAIN units, units)
    /\ cycle \in 1 .. MAX_CYCLES /\ tick \in 0 .. TICKS_PER_CYCLE
    /\ order \in Seq(DOMAIN units)
    /\ winner \in {"undecided", "p1", "p2", "none"}
    /\ winner # "undecided" => order = <<>>
    /\ DOMAIN units # {} => Alive(units) # {}
    /\ winner = "none" => cycle = MAX_CYCLES \/ DOMAIN units = {}
    /\ winner \in {"p1", "p2"} => {Side(i) : i \in Alive(units)} = {winner}

LEMMA FreshSound ==
    ASSUME NEW b, Board(b)
    PROVE  /\ DOMAIN Fresh(b) = DOMAIN b
           /\ \A i \in DOMAIN b : /\ Sound(Fresh(b)[i]) /\ Fresh(b)[i].alive
                                  /\ Fresh(b)[i].slowBy = NoHealer
<1>1. DOMAIN Fresh(b) = DOMAIN b
  BY DEF Fresh
<1>2. ASSUME NEW i \in DOMAIN b
      PROVE  /\ Sound(Fresh(b)[i]) /\ Fresh(b)[i].alive
             /\ Fresh(b)[i].slowBy = NoHealer
  <2>1. b[i].kind \in Kinds /\ b[i].star \in 0 .. 2 /\ b[i].slot \in 0 .. 8
    BY DEF Board
  <2>2. BaseHp[b[i].kind] \in Nat /\ BaseHp[b[i].kind] > 1
    BY <2>1, Bases
  <2>3. Fresh(b)[i] =
          [kind |-> b[i].kind, star |-> b[i].star, slot |-> b[i].slot,
           hp |-> BaseHp[b[i].kind], maxHp |-> BaseHp[b[i].kind],
           alive |-> TRUE, revived |-> FALSE, slowBy |-> NoHealer]
    BY DEF Fresh
  <2> QED
    BY <2>1, <2>2, <2>3 DEF Sound, UnitRecord, NoHealer
<1> QED
  BY <1>1, <1>2

LEMMA BattleInit == Init => BattleInv
<1> SUFFICES ASSUME Init PROVE BattleInv
  OBVIOUS
<1>1. PICK b1 \in P1Boards : \E b2 \in P2Boards : units = Both(Fresh(b1), Fresh(b2))
  BY DEF Init
<1>2. PICK b2 \in P2Boards : units = Both(Fresh(b1), Fresh(b2))
  BY <1>1
<1>3. Board(b1) /\ Board(b2) /\ DOMAIN b1 \subseteq P1Ids /\ DOMAIN b2 \subseteq P2Ids
  BY EngineAssumption
<1> DEFINE D == DOMAIN units
           sc == [us |-> units, m |-> mirror]
<1>4. D = DOMAIN b1 \union DOMAIN b2
  BY <1>2, <1>3, FreshSound DEF Both
<1>5. D \subseteq Ids /\ IsFiniteSet(D)
  <2>1. IsFiniteSet(DOMAIN b1) /\ IsFiniteSet(DOMAIN b2)
    BY <1>3 DEF Board
  <2> QED
    BY <1>3, <1>4, <2>1, FS_Union DEF Ids
<1>6. ASSUME NEW i \in D
      PROVE  Sound(units[i]) /\ units[i].alive /\ units[i].slowBy = NoHealer
  <2>1. DOMAIN Fresh(b1) = DOMAIN b1 /\ DOMAIN Fresh(b2) = DOMAIN b2
    BY <1>3, FreshSound
  <2>2. units[i] = IF i \in DOMAIN b1 THEN Fresh(b1)[i] ELSE Fresh(b2)[i]
    BY <1>2, <1>4, <2>1 DEF Both
  <2>3. CASE i \in DOMAIN b1
    BY <1>3, <2>2, <2>3, FreshSound
  <2>4. CASE i \notin DOMAIN b1
    <3>1. i \in DOMAIN b2
      BY <1>4, <2>4
    <3> QED
      BY <1>3, <2>2, <2>4, <3>1, FreshSound
  <2> QED
    BY <2>3, <2>4
<1>7. units = [i \in D |-> units[i]]
  BY <1>2 DEF Both
<1>8. Army(D, units)
  BY <1>6, <1>7 DEF Army
<1>9. Mirrored(D, sc)
  <2>1. sc.us = units /\ sc.m = mirror /\ sc = [us |-> sc.us, m |-> sc.m]
    OBVIOUS
  <2>2. mirror = [i \in D |-> units[i].hp]
    BY DEF Init
  <2> HIDE DEF D, sc
  <2> QED
    BY <1>8, <2>1, <2>2 DEF Mirrored
<1>10. Slows(D, units)
  BY <1>6 DEF Slows
<1>11. D # {} => Alive(units) # {}
  BY <1>6 DEF Alive
<1>12. /\ cycle \in 1 .. MAX_CYCLES /\ tick \in 0 .. TICKS_PER_CYCLE
       /\ order = <<>> /\ winner = "undecided"
  BY EngineAssumption DEF Init, TICKS_PER_CYCLE
<1>13. order \in Seq(D)
  BY <1>12
<1> QED
  BY <1>5, <1>9, <1>10, <1>11, <1>12, <1>13 DEF BattleInv

LEMMA IdsAreNat == Ids \subseteq Nat /\ NoHealer \notin Ids
BY EngineAssumption DEF NoHealer

\* A step that leaves the units and what the events told of them.
LEMMA SceneStays ==
    ASSUME BattleInv, UNCHANGED <<units, mirror>>
    PROVE  /\ DOMAIN units' \subseteq Ids /\ IsFiniteSet(DOMAIN units')
           /\ Mirrored(DOMAIN units', [us |-> units', m |-> mirror'])
           /\ Slows(DOMAIN units', units')
           /\ DOMAIN units' # {} => Alive(units') # {}
           /\ DOMAIN units' = DOMAIN units /\ Alive(units') = Alive(units)
BY DEF BattleInv

LEMMA NextTickSafe == BattleInv /\ NextTick => BattleInv'
<1> SUFFICES ASSUME BattleInv, NextTick PROVE BattleInv'
  OBVIOUS
<1>1. UNCHANGED <<units, mirror>> /\ cycle' = cycle /\ winner' = winner
      /\ winner = "undecided"
  BY DEF NextTick
<1>2. tick' \in Later
  <2>1. Later \in SUBSET Nat /\ Later # {}
    BY DEF NextTick, Later, BattleInv
  <2>2. \E t \in Later : \A s \in Later : t <= s
    BY <2>1, LeastOf
  <2>3. tick' = CHOOSE t \in Later : \A s \in Later : t <= s
    BY DEF NextTick
  <2> HIDE DEF Later
  <2> QED
    BY <2>2, <2>3
<1>3. tick' \in 0 .. TICKS_PER_CYCLE
  BY <1>2 DEF Later, BattleInv, TICKS_PER_CYCLE
<1>4. order' \in Seq(DOMAIN units)
  <2> DEFINE S == Acting(tick')
  <2>1. S \subseteq DOMAIN units
    BY DEF Acting, Alive
  <2>2. IsFiniteSet(S)
    BY <2>1, FS_Subset DEF BattleInv
  <2>3. Cardinality(S) \in Nat
    BY <2>2, FS_CardinalityType
  <2>4. order' \in [1 .. Cardinality(S) -> S]
    BY DEF NextTick, OrderForTick
  <2> HIDE DEF S
  <2>5. order' \in Seq(S)
    BY <2>3, <2>4
  <2> QED
    BY <2>1, <2>5
<1>5. DOMAIN units' = DOMAIN units
  BY <1>1
<1> QED
  BY <1>1, <1>3, <1>4, <1>5, SceneStays DEF BattleInv

LEMMA ActSafe == BattleInv /\ Act => BattleInv'
<1> SUFFICES ASSUME BattleInv, Act PROVE BattleInv'
  OBVIOUS
<1> DEFINE D == DOMAIN units
           i == Head(order)
           sc == UnitAct(units, i)
<1>1. order # <<>> /\ order \in Seq(D) /\ winner = "undecided"
  BY DEF Act, BattleInv
<1>2. i \in D /\ order' \in Seq(D)
  BY <1>1 DEF Act
<1>3. winner' = "undecided" /\ cycle' = cycle /\ tick' = tick
  BY <1>1 DEF Act
<1>4. D \subseteq Nat /\ NoHealer \notin D
  BY IdsAreNat DEF BattleInv
<1>5. CASE units[i].alive
  <2>1. units' = sc.us /\ mirror' = sc.m
    BY <1>5 DEF Act, MayAct
  <2>2. Acted(D, sc, i)
    <3> HIDE DEF i, D
    <3>1. Mirrored(D, [us |-> units, m |-> mirror]) /\ Slows(D, units)
      BY DEF BattleInv, D
    <3> QED
      BY <1>2, <1>4, <1>5, <3>1, UnitActSound
  <2> HIDE DEF sc, i
  <2>3. Mirrored(D, sc) /\ Slows(D, sc.us) /\ sc.us[i].alive
    BY <2>2 DEF Acted
  <2>4. DOMAIN units' = D
    BY <2>1, <2>3, ArmyDomain DEF Mirrored
  <2>5. sc = [us |-> units', m |-> mirror']
    BY <2>1, <2>3 DEF Mirrored
  <2>6. /\ Mirrored(DOMAIN units', [us |-> units', m |-> mirror'])
        /\ Slows(DOMAIN units', units')
    BY <2>1, <2>3, <2>4, <2>5
  <2>7. Alive(units') # {}
    BY <1>2, <2>1, <2>3, <2>4 DEF Alive
  <2>8. DOMAIN units' \subseteq Ids /\ IsFiniteSet(DOMAIN units')
    BY <2>4 DEF BattleInv
  <2>9. cycle' \in 1 .. MAX_CYCLES /\ tick' \in 0 .. TICKS_PER_CYCLE
    BY <1>3 DEF BattleInv
  <2> QED
    BY <1>2, <1>3, <2>4, <2>6, <2>7, <2>8, <2>9 DEF BattleInv
<1>6. CASE ~units[i].alive
  <2>1. UNCHANGED <<units, mirror>>
    BY <1>6 DEF Act, MayAct
  <2>2. cycle' \in 1 .. MAX_CYCLES /\ tick' \in 0 .. TICKS_PER_CYCLE
    BY <1>3 DEF BattleInv
  <2>3. order' \in Seq(DOMAIN units')
    BY <1>2, <2>1
  <2> QED
    BY <1>3, <2>1, <2>2, <2>3, SceneStays DEF BattleInv
<1> QED
  BY <1>5, <1>6

LEMMA SidesAreTwo == \A i : Side(i) \in {"p1", "p2"}
BY DEF Side

LEMMA EndCycleSafe == BattleInv /\ EndCycle => BattleInv'
<1> SUFFICES ASSUME BattleInv, EndCycle PROVE BattleInv'
  OBVIOUS
<1>1. UNCHANGED <<units, mirror>> /\ order' = order /\ order = <<>> /\ winner' = Verdict
  BY DEF EndCycle
<1>2. Verdict \in {"undecided", "p1", "p2", "none"}
  BY DEF Verdict
<1>3. cycle \in 1 .. MAX_CYCLES /\ MAX_CYCLES \in Nat /\ tick \in 0 .. TICKS_PER_CYCLE
  BY EngineAssumption DEF BattleInv
<1>4. Verdict = "undecided" => cycle # MAX_CYCLES
  BY DEF Verdict
<1>5. cycle' \in 1 .. MAX_CYCLES /\ tick' \in 0 .. TICKS_PER_CYCLE
  <2>1. CASE Verdict = "undecided"
    <3>1. cycle' = cycle + 1 /\ tick' = 0 /\ cycle # MAX_CYCLES
      BY <1>4, <2>1 DEF EndCycle
    <3> QED
      BY <1>3, <3>1 DEF TICKS_PER_CYCLE
  <2>2. CASE Verdict # "undecided"
    <3>1. cycle' = cycle /\ tick' = tick
      BY <2>2 DEF EndCycle
    <3> QED
      BY <1>3, <3>1
  <2> QED
    BY <2>1, <2>2
<1>6. Verdict = "none" => cycle' = MAX_CYCLES \/ DOMAIN units' = {}
  <2>1. SUFFICES ASSUME Verdict = "none" PROVE cycle = MAX_CYCLES \/ DOMAIN units = {}
    BY <1>1 DEF EndCycle
  <2>2. CASE Standing("p1") /\ Standing("p2")
    BY <2>1, <2>2 DEF Verdict
  <2>3. CASE ~Standing("p1") /\ ~Standing("p2")
    <3>1. Alive(units) = {}
      BY <2>3, SidesAreTwo DEF Standing
    <3> QED
      BY <3>1 DEF BattleInv
  <2>4. CASE Standing("p1") /\ ~Standing("p2")
    BY <2>1, <2>4 DEF Verdict
  <2>5. CASE ~Standing("p1") /\ Standing("p2")
    BY <2>1, <2>5 DEF Verdict
  <2> QED
    BY <2>2, <2>3, <2>4, <2>5
<1>7. Verdict \in {"p1", "p2"} => {Side(i) : i \in Alive(units)} = {Verdict}
  <2>1. CASE Standing("p1") /\ ~Standing("p2")
    <3>1. Verdict = "p1"
      BY <2>1 DEF Verdict
    <3>2. {Side(i) : i \in Alive(units)} = {"p1"}
      BY <2>1, SidesAreTwo DEF Standing
    <3> QED
      BY <3>1, <3>2
  <2>2. CASE ~Standing("p1") /\ Standing("p2")
    <3>1. Verdict = "p2"
      BY <2>2 DEF Verdict
    <3>2. {Side(i) : i \in Alive(units)} = {"p2"}
      BY <2>2, SidesAreTwo DEF Standing
    <3> QED
      BY <3>1, <3>2
  <2>3. CASE Standing("p1") <=> Standing("p2")
    BY <2>3 DEF Verdict
  <2> QED
    BY <2>1, <2>2, <2>3
<1>8. order' \in Seq(DOMAIN units') /\ order' = <<>>
  BY <1>1 DEF BattleInv
<1>9. winner' \in {"p1", "p2"} => {Side(i) : i \in Alive(units')} = {winner'}
  BY <1>1, <1>7
<1> QED
  BY <1>1, <1>2, <1>5, <1>6, <1>8, <1>9, SceneStays DEF BattleInv

LEMMA BattleStays == BattleInv /\ UNCHANGED vars => BattleInv'
BY DEF BattleInv, vars

LEMMA BattleStep == BattleInv /\ [Next]_vars => BattleInv'
BY NextTickSafe, ActSafe, EndCycleSafe, BattleStays DEF Next

LEMMA BattleAlways == Spec => []BattleInv
<1>1. Init => BattleInv
  BY BattleInit
<1>2. BattleInv /\ [Next]_vars => BattleInv'
  BY BattleStep
<1> QED
  BY <1>1, <1>2, PTL DEF Spec

\* In every battle of any two boards runBattle keeps hit points within the
\* maximum, zero for the dead only, and at most one enemy slowed by a healer.
THEOREM EngineTypes == Spec => []EngineTypeOK
<1>1. BattleInv => EngineTypeOK
  <2> SUFFICES ASSUME BattleInv PROVE EngineTypeOK
    OBVIOUS
  <2>1. Army(DOMAIN units, units) /\ Slows(DOMAIN units, units)
    BY DEF BattleInv, Mirrored
  <2>2. ASSUME NEW i \in DOMAIN units
        PROVE  units[i].hp \in 0 .. units[i].maxHp /\ (units[i].alive <=> units[i].hp > 0)
    <3>1. Sound(units[i])
      BY <2>1 DEF Army
    <3>2. /\ units[i].hp \in Nat /\ units[i].maxHp \in Nat
          /\ units[i].hp <= units[i].maxHp
      BY <3>1, SoundFacts
    <3>3. units[i].alive <=> units[i].hp > 0
      BY <3>1 DEF Sound
    <3> QED
      BY <3>2, <3>3
  <2>3. /\ cycle \in 1 .. MAX_CYCLES /\ tick \in 0 .. TICKS_PER_CYCLE
        /\ winner \in {"undecided", "p1", "p2", "none"}
    BY DEF BattleInv
  <2>4. \A i \in DOMAIN units : units[i].slowBy # NoHealer =>
          LET h == units[i].slowBy
          IN  /\ h \in DOMAIN units /\ Side(h) # Side(i)
              /\ units[h].kind = "healer" /\ units[h].star >= 1
              /\ \A j \in DOMAIN units : units[j].slowBy = h => j = i
    BY <2>1 DEF Slows
  <2> QED
    BY <2>2, <2>3, <2>4 DEF EngineTypeOK
<1> QED
  BY BattleAlways, <1>1, PTL

\* A client that applies the events of any battle to the boards it was given has
\* the hit points the engine has, whatever revives, pierces, heals or drains.
THEOREM EventsTellTheBattle == Spec => []ReplayAgrees
<1>1. BattleInv => ReplayAgrees
  <2> SUFFICES ASSUME BattleInv, NEW i \in DOMAIN units PROVE mirror[i] = units[i].hp
    BY DEF ReplayAgrees
  <2>1. mirror = [j \in DOMAIN units |-> units[j].hp]
    BY DEF BattleInv, Mirrored
  <2> QED
    BY <2>1
<1> QED
  BY BattleAlways, <1>1, PTL

\* No battle wipes both boards, and one without a winner went through all its
\* cycles: finishing draws of two wiped boards cannot come from runBattle.
THEOREM LastStrikerStands == Spec => []SomebodyStands
<1>1. BattleInv => SomebodyStands
  BY DEF BattleInv, SomebodyStands
<1> QED
  BY BattleAlways, <1>1, PTL
=============================================================================
