------------------------ MODULE RosterActionsProofs ------------------------
(***************************************************************************)
(* Theorems about RosterActions: what the action log, the player lock and  *)
(* the phase check promise for any number of handlers, of action ids, of   *)
(* slots, of rounds and of mishaps.                                        *)
(***************************************************************************)
EXTENDS RosterActions, FiniteSetTheorems, WellFoundedInduction, TLAPS

-----------------------------------------------------------------------------
(* The shape of a player, of a shop and of a request. *)

Units   == [id : Ids, kind : Kinds, star : 0..MaxStar, invested : Nat]
Players == [gold : Nat, charges : Nat, slots : [Slots -> Units \union {Nil}]]

Shops == {sh \in [round : 1..MaxRound, refreshes : {0, 1},
                  offers : [1..ShopSize -> Kinds \union {Nil}]] :
             \A i \in 1..ShopSize :
                 sh.offers[i] \in {Nil, Offers[<<sh.round, sh.refreshes>>][i]}}

Ops == {"buy", "sell", "refresh", "fuse", "fuseKind", "place"}
Args == 1..ShopSize \union Slots \union Kinds \union Ids \union {0}
SentOnes == [op : Ops \union {"none"}, x : Args, y : Slots \union {0}, round : 0..MaxRound]

IdsIn(p) == {p.slots[s].id : s \in UnitsIn(p)}

Distinct(p) == \A s, t \in UnitsIn(p) : p.slots[s].id = p.slots[t].id => s = t

LEMMA ShopShape ==
  ASSUME NEW r \in 1..MaxRound, NEW n \in {0, 1}
  PROVE  ShopOf(r, n) \in Shops /\ ShopOf(r, n).round = r
<1>1. <<r, n>> \in (1..MaxRound) \X (0..2)
  OBVIOUS
<1>2. Offers[<<r, n>>] \in [1..ShopSize -> Kinds]
  BY <1>1, RosterAssumption
<1>3. QED
  BY <1>2 DEF ShopOf, Shops

-----------------------------------------------------------------------------
(* What an action makes of a player: nobody else's charges, no id but its  *)
(* own, and no unit in two slots if its own id is new.                     *)

Kept(id, p, q) ==
    /\ q \in Players /\ q.charges = p.charges
    /\ IdsIn(q) \subseteq IdsIn(p) \union {id}
    /\ Distinct(p) /\ id \notin IdsIn(p) => Distinct(q)

Good(id, p, sh, e) ==
    /\ Kept(id, p, e.player)
    /\ e.shop \in Shops /\ e.shop.round = sh.round

LEMMA BuyIsGood ==
  ASSUME NEW id \in Ids, NEW i \in 1..ShopSize, NEW p \in Players, NEW sh \in Shops,
         NEW e \in Buy(id, i, p, sh)
  PROVE  Good(id, p, sh, e)
<1> DEFINE k == sh.offers[i]
<1>1. k \in Kinds /\ Cost[k] \in Nat /\ p.gold >= Cost[k]
  <2>1. k # Nil /\ ~(p.gold < Cost[k])
    BY DEF Buy
  <2>2. k \in Kinds
    BY <2>1 DEF Shops
  <2>3. p.gold \in Nat /\ Cost[k] \in Nat
    BY <2>2, RosterAssumption DEF Players
  <2>4. QED
    BY <2>1, <2>2, <2>3
<1>2. PICK s \in FreeBench(p) :
         e = [player |-> [p EXCEPT !.gold = @ - Cost[k], !.slots[s] = Unit(id, k, 0, Cost[k])],
              shop   |-> Sold(sh, i)]
  BY DEF Buy
<1>3. s \in Slots /\ p.slots[s] = Nil
  BY DEF FreeBench, Slots
<1> DEFINE q == e.player
           u == Unit(id, k, 0, Cost[k])
<1>4. u \in Units /\ u.id = id
  BY <1>1 DEF Unit, Units, MaxStar
<1>5. q = [p EXCEPT !.gold = @ - Cost[k], !.slots[s] = u] /\ e.shop = Sold(sh, i)
  BY <1>2
<1>6. q \in Players /\ q.charges = p.charges /\ q.slots = [p.slots EXCEPT ![s] = u]
  <2>1. p.gold - Cost[k] \in Nat
    BY <1>1 DEF Players
  <2>2. q = [gold |-> p.gold - Cost[k], charges |-> p.charges,
             slots |-> [p.slots EXCEPT ![s] = u]]
    BY <1>5 DEF Players
  <2>3. [p.slots EXCEPT ![s] = u] \in [Slots -> Units \union {Nil}]
    BY <1>4 DEF Players
  <2>4. QED
    BY <2>1, <2>2, <2>3 DEF Players
<1>7. \A t \in Slots : q.slots[t] = IF t = s THEN u ELSE p.slots[t]
  BY <1>6, <1>3 DEF Players
<1>8. \A t \in UnitsIn(q) :
         \/ t = s /\ q.slots[t].id = id
         \/ t \in UnitsIn(p) /\ q.slots[t] = p.slots[t] /\ t # s
  BY <1>7, <1>4, <1>3 DEF UnitsIn
<1>9. IdsIn(q) \subseteq IdsIn(p) \union {id}
  BY <1>8 DEF IdsIn
<1>10. Distinct(p) /\ id \notin IdsIn(p) => Distinct(q)
  BY <1>8 DEF IdsIn, Distinct
<1>11. e.shop \in Shops /\ e.shop.round = sh.round
  <2>1. e.shop = [round |-> sh.round, refreshes |-> sh.refreshes,
                  offers |-> [sh.offers EXCEPT ![i] = Nil]]
    BY <1>5 DEF Shops, Sold
  <2>2. \A j \in 1..ShopSize :
          [sh.offers EXCEPT ![i] = Nil][j] = IF j = i THEN Nil ELSE sh.offers[j]
    BY DEF Shops
  <2>3. [sh.offers EXCEPT ![i] = Nil] \in [1..ShopSize -> Kinds \union {Nil}]
    BY DEF Shops
  <2>4. /\ sh.round \in 1..MaxRound /\ sh.refreshes \in {0, 1}
        /\ \A j \in 1..ShopSize :
               sh.offers[j] \in {Nil, Offers[<<sh.round, sh.refreshes>>][j]}
    BY DEF Shops
  <2>5. \A j \in 1..ShopSize : [sh.offers EXCEPT ![i] = Nil][j]
                                 \in {Nil, Offers[<<sh.round, sh.refreshes>>][j]}
    BY <2>2, <2>4
  <2> DEFINE f == [sh.offers EXCEPT ![i] = Nil]
  <2> HIDE DEF f
  <2>6. e.shop = [round |-> sh.round, refreshes |-> sh.refreshes, offers |-> f]
    BY <2>1 DEF f
  <2>7. f \in [1..ShopSize -> Kinds \union {Nil}]
        /\ \A j \in 1..ShopSize : f[j] \in {Nil, Offers[<<sh.round, sh.refreshes>>][j]}
    BY <2>3, <2>5 DEF f
  <2>8. e.shop.round = sh.round /\ e.shop.refreshes = sh.refreshes /\ e.shop.offers = f
    BY <2>6
  <2>9. QED
    BY <2>4, <2>6, <2>7, <2>8 DEF Shops
<1>12. QED
  BY <1>6, <1>9, <1>10, <1>11 DEF Good, Kept

LEMMA SellIsGood ==
  ASSUME NEW id \in Ids, NEW s \in Slots, NEW p \in Players, NEW sh \in Shops,
         NEW e \in Sell(s, p, sh)
  PROVE  Good(id, p, sh, e)
<1> DEFINE q == e.player
<1>1. p.slots[s] # Nil
  BY DEF Sell
<1>2. p.slots[s] \in Units
  BY <1>1 DEF Players
<1>3. e = [player |-> [p EXCEPT !.gold = @ + p.slots[s].invested, !.slots[s] = Nil],
           shop   |-> sh]
  BY <1>1 DEF Sell
<1>4. q = [gold |-> p.gold + p.slots[s].invested, charges |-> p.charges,
           slots |-> [p.slots EXCEPT ![s] = Nil]]
  BY <1>3 DEF Players
<1>5. p.gold + p.slots[s].invested \in Nat
  BY <1>2 DEF Players, Units
<1>6. q \in Players /\ q.charges = p.charges
  BY <1>4, <1>5 DEF Players
<1>7. \A t \in Slots : q.slots[t] = IF t = s THEN Nil ELSE p.slots[t]
  BY <1>4 DEF Players
<1>8. \A t \in UnitsIn(q) : t \in UnitsIn(p) /\ q.slots[t] = p.slots[t]
  BY <1>7 DEF UnitsIn
<1>9. IdsIn(q) \subseteq IdsIn(p) \union {id} /\ (Distinct(p) => Distinct(q))
  BY <1>8 DEF IdsIn, Distinct
<1>10. QED
  BY <1>3, <1>6, <1>9 DEF Good, Kept

LEMMA RefreshIsGood ==
  ASSUME NEW id \in Ids, NEW p \in Players, NEW sh \in Shops,
         NEW e \in Refresh(p, sh)
  PROVE  Good(id, p, sh, e)
<1>1. MayRefresh(sh) /\ e = [player |-> p, shop |-> ShopOf(sh.round, sh.refreshes + 1)]
  BY DEF Refresh
<1>2. sh.round \in 1..MaxRound /\ sh.refreshes + 1 = 1
  BY <1>1 DEF MayRefresh, Shops
<1>3. e.shop \in Shops /\ e.shop.round = sh.round
  BY <1>1, <1>2, ShopShape
<1>4. QED
  BY <1>1, <1>3 DEF Good, Kept

LEMMA MergedUnit ==
  ASSUME NEW v \in Units, NEW w \in Units, v.star < MaxStar
  PROVE  Merged(v, w) \in Units /\ Merged(v, w).id = v.id
<1> DEFINE a == v.star + 1
           b == v.invested + w.invested
<1>1. a \in 0..MaxStar /\ b \in Nat
  BY DEF Units, MaxStar
<1>2. Merged(v, w) = [v EXCEPT !.star = a, !.invested = b]
  BY DEF Merged
<1> HIDE DEF a, b
<1>3. [v EXCEPT !.star = a, !.invested = b] \in Units
      /\ [v EXCEPT !.star = a, !.invested = b].id = v.id
  BY <1>1 DEF Units
<1>4. QED
  BY <1>2, <1>3

LEMMA FuseIsGood ==
  ASSUME NEW id \in Ids, NEW s \in Slots, NEW t \in Slots,
         NEW p \in Players, NEW sh \in Shops,
         Fusable(p, s, t), NEW e \in FuseInto(t, s, p, sh)
  PROVE  Good(id, p, sh, e)
<1> DEFINE q == e.player
           u == Merged(p.slots[t], p.slots[s])
<1>1. /\ s # t /\ p.slots[s] \in Units /\ p.slots[t] \in Units
      /\ p.slots[t].star < MaxStar /\ t \in UnitsIn(p)
  BY DEF Fusable, UnitsIn, Players
<1>3. u \in Units /\ u.id = p.slots[t].id
  BY <1>1, MergedUnit
<1>4. e = [player |-> [p EXCEPT !.slots[t] = u, !.slots[s] = Nil], shop |-> sh]
  BY DEF FuseInto
<1>5. q = [gold |-> p.gold, charges |-> p.charges,
           slots |-> [[p.slots EXCEPT ![t] = u] EXCEPT ![s] = Nil]]
  BY <1>4 DEF Players
<1>6. q \in Players /\ q.charges = p.charges
  BY <1>3, <1>5 DEF Players
<1>7. \A r \in Slots : q.slots[r] = IF r = s THEN Nil ELSE IF r = t THEN u ELSE p.slots[r]
  BY <1>5 DEF Players
<1>8. \A r \in UnitsIn(q) : r \in UnitsIn(p) /\ q.slots[r].id = p.slots[r].id
  BY <1>1, <1>3, <1>7 DEF UnitsIn
<1>9. IdsIn(q) \subseteq IdsIn(p) \union {id} /\ (Distinct(p) => Distinct(q))
  BY <1>8 DEF IdsIn, Distinct
<1>10. QED
  BY <1>4, <1>6, <1>9 DEF Good, Kept

LEMMA FuseKindIsGood ==
  ASSUME NEW id \in Ids, NEW k \in Kinds, NEW p \in Players, NEW sh \in Shops,
         NEW e \in FuseKind(k, p, sh)
  PROVE  Good(id, p, sh, e)
<1>1. PICK x \in Slots \X Slots :
         Fusable(p, x[1], x[2]) /\ e \in FuseInto(x[1], x[2], p, sh)
  BY DEF FuseKind
<1>2. x[1] \in Slots /\ x[2] \in Slots /\ Fusable(p, x[2], x[1])
  BY <1>1 DEF Fusable
<1>3. QED
  BY <1>1, <1>2, FuseIsGood

LEMMA PlaceIsGood ==
  ASSUME NEW id \in Ids, NEW own \in Ids, NEW t \in Slots,
         NEW p \in Players, NEW sh \in Shops, NEW e \in Place(own, t, p, sh)
  PROVE  Kept(id, p, e.player) /\ e.shop = sh
<1> DEFINE q == e.player
<1>1. PICK s \in UnitAt(p, own) :
         p.slots[t] \in {Nil, p.slots[s]} /\ e = [player |-> Moved(p, s, t), shop |-> sh]
  BY DEF Place
<1>2. s \in Slots /\ p.slots[s] \in Units /\ p.slots[s] # Nil
  BY DEF UnitAt, UnitsIn, Players
<1>3. CASE s = t
  BY <1>1, <1>3 DEF Moved, Kept
<1>4. CASE s # t
  <2>1. q = [gold |-> p.gold, charges |-> p.charges,
             slots |-> [[p.slots EXCEPT ![t] = p.slots[s]] EXCEPT ![s] = Nil]]
    BY <1>1, <1>4 DEF Moved, Players
  <2>2. q \in Players /\ q.charges = p.charges
    BY <1>2, <2>1 DEF Players
  <2>3. \A r \in Slots : q.slots[r] = IF r = s THEN Nil
                                     ELSE IF r = t THEN p.slots[s] ELSE p.slots[r]
    BY <2>1 DEF Players
  <2>4. \A r \in UnitsIn(q) : \/ r = t /\ q.slots[r] = p.slots[s]
                              \/ r # s /\ r # t /\ r \in UnitsIn(p) /\ q.slots[r] = p.slots[r]
    BY <2>3 DEF UnitsIn
  <2>5. IdsIn(q) \subseteq IdsIn(p) \union {id} /\ (Distinct(p) => Distinct(q))
    BY <1>2, <2>4 DEF IdsIn, Distinct, UnitsIn
  <2>6. QED
    BY <1>1, <2>2, <2>5 DEF Kept
<1>5. QED
  BY <1>3, <1>4

\* Whatever a player asks for.
LEMMA EffectIsGood ==
  ASSUME NEW id \in Ids, NEW req \in SentOnes, WellFormed(req),
         NEW p \in Players, NEW sh \in Shops, NEW e \in Effects(id, req, p, sh)
  PROVE  Good(id, p, sh, e)
<1>1. CASE req.op = "buy"
  BY <1>1, BuyIsGood DEF Effects, WellFormed
<1>2. CASE req.op = "sell"
  BY <1>2, SellIsGood DEF Effects, WellFormed
<1>3. CASE req.op = "refresh"
  BY <1>3, RefreshIsGood DEF Effects, WellFormed
<1>4. CASE req.op = "fuse"
  <2>1. req.x \in Slots /\ req.y \in Slots /\ e \in Fuse(req.x, req.y, p, sh)
    BY <1>4 DEF Effects, WellFormed
  <2>2. Fusable(p, req.x, req.y) /\ e \in FuseInto(req.y, req.x, p, sh)
    BY <2>1 DEF Fuse
  <2>3. QED
    BY <2>1, <2>2, FuseIsGood
<1>5. CASE req.op = "fuseKind"
  BY <1>5, FuseKindIsGood DEF Effects, WellFormed
<1>6. CASE req.op = "place"
  BY <1>6, PlaceIsGood DEF Effects, WellFormed, Good
<1>7. QED
  BY <1>1, <1>2, <1>3, <1>4, <1>5, <1>6 DEF WellFormed

\* What a placement makes of the player has nothing to do with the shop.
LEMMA PlaceIgnoresShop ==
  ASSUME NEW id, NEW req, req.op = "place", NEW p, NEW sh, NEW sh2,
         NEW e \in Effects(id, req, p, sh)
  PROVE  \E f \in Effects(id, req, p, sh2) : f.player = e.player
<1>1. Effects(id, req, p, sh) = Place(req.x, req.y, p, sh)
      /\ Effects(id, req, p, sh2) = Place(req.x, req.y, p, sh2)
  BY DEF Effects
<1>2. PICK s \in UnitAt(p, req.x) :
         p.slots[req.y] \in {Nil, p.slots[s]} /\ e = [player |-> Moved(p, s, req.y), shop |-> sh]
  BY <1>1 DEF Place
<1>3. [player |-> Moved(p, s, req.y), shop |-> sh2] \in Place(req.x, req.y, p, sh2)
  BY <1>2 DEF Place
<1>4. QED
  BY <1>1, <1>2, <1>3

-----------------------------------------------------------------------------
(* The type invariant, with what each part of the state knows of the round *)
(* and of its charge.                                                      *)

Labels == {"idle", "lock", "check", "read", "readShop", "persist", "updateRow", "unlock"}
Works  == [pc : Labels, id : Ids \union {Nil}, player : Players, shop : Shops]

TypeInv ==
    /\ phase \in {"shop_place", "battle", "resolved"} /\ round \in 1..MaxRound
    /\ player \in Players /\ row \in Players /\ shop \in Shops
    /\ log \subseteq Ids /\ lock \in Handlers \union {Nil}
    /\ h \in [Handlers -> Works]
    /\ sent \in [Ids -> SentOnes]
    /\ charge \in [pc : {"idle", "flip", "persist", "commit", "advance", "roll"},
                   player : Players]
    /\ mishaps \in Nat

RequestInv ==
    /\ \A a \in Ids : sent[a] = NotSent \/ (WellFormed(sent[a]) /\ sent[a].round \in 1..round)
    /\ \A x \in Handlers : ~At(x, "idle") => h[x].id \in Ids /\ WellFormed(sent[h[x].id])

ClockInv ==
    /\ phase = "shop_place" => charge.pc \in {"idle", "roll"}
    /\ phase = "battle" => charge.pc \in {"idle", "flip"}
    /\ phase = "resolved" => charge.pc \in {"persist", "commit", "advance"}
    /\ player.charges = (IF charge.pc = "advance" THEN round ELSE round - 1)
    /\ row.charges <= round
    /\ charge.pc = "flip" => charge.player = player
    /\ charge.pc \in {"persist", "commit"} => charge.player = Charged(player)
    /\ shop.round = (IF charge.pc = "roll" THEN round - 1 ELSE round)

\* A copy is of the round the action was sent for.
CopyInv ==
    \A x \in Handlers :
        /\ h[x].pc \in {"readShop", "persist", "updateRow"} =>
               h[x].player.charges = sent[h[x].id].round - 1
        /\ At(x, "persist") /\ NeedsShop(h[x].id) =>
               /\ h[x].shop.round = sent[h[x].id].round
               /\ charge.pc = "roll" => sent[h[x].id].round # round

BaseInv == TypeInv /\ RequestInv /\ ClockInv /\ CopyInv

(* The handler x goes on with the label l, the id a and the copies p, sh.  *)
Becomes(x, l, a, p, sh) ==
    /\ h' \in [Handlers -> Works]
    /\ h'[x].pc = l /\ h'[x].id = a /\ h'[x].player = p /\ h'[x].shop = sh
    /\ \A y \in Handlers \ {x} : h'[y] = h[y]

LEMMA GoShape ==
  ASSUME h \in [Handlers -> Works], NEW x \in Handlers, NEW l \in Labels, Go(x, l)
  PROVE  Becomes(x, l, h[x].id, h[x].player, h[x].shop)
BY DEF Go, Becomes, Works

LEMMA NewPlayerShape == NewPlayer \in Players /\ IdsIn(NewPlayer) = {} /\ NewPlayer.charges = 0
<1>1. NewPlayer \in Players
  BY RosterAssumption DEF NewPlayer, Players
<1>2. UnitsIn(NewPlayer) = {}
  BY DEF NewPlayer, UnitsIn
<1>3. QED
  BY <1>1, <1>2 DEF IdsIn, NewPlayer

LEMMA WorkingShape ==
  ASSUME h \in [Handlers -> Works], NEW x \in Handlers, NEW l \in Labels,
         NEW a \in Ids \union {Nil}, NEW p \in Players, NEW sh \in Shops,
         h' = [h EXCEPT ![x] = Working(l, a, p, sh)]
  PROVE  Becomes(x, l, a, p, sh)
<1>1. Working(l, a, p, sh) \in Works
  BY DEF Working, Works
<1>2. h' \in [Handlers -> Works] /\ h'[x] = Working(l, a, p, sh)
      /\ \A y \in Handlers \ {x} : h'[y] = h[y]
  BY <1>1
<1>3. QED
  BY <1>2 DEF Becomes, Working

LEMMA IdleShape == NewPlayer \in Players /\ ShopOf(1, 0) \in Shops
BY RosterAssumption, NewPlayerShape, ShopShape

LEMMA DoneShape ==
  ASSUME h \in [Handlers -> Works], NEW x \in Handlers, Done(x)
  PROVE  Becomes(x, "idle", Nil, NewPlayer, ShopOf(1, 0))
BY WorkingShape, IdleShape DEF Done, Idle, Labels

LEMMA MutatedShape ==
  ASSUME TypeInv, NEW x \in Handlers, h[x].id \in Ids, WellFormed(sent[h[x].id]),
         NEW p \in Players, NEW sh \in Shops, Mutated(x, p, sh)
  PROVE  \/ Becomes(x, "unlock", h[x].id, h[x].player, h[x].shop)
         \/ \E e \in Effects(h[x].id, sent[h[x].id], p, sh) :
                /\ Becomes(x, "persist", h[x].id, e.player, e.shop)
                /\ Good(h[x].id, p, sh, e)
<1> DEFINE a == h[x].id
<1>1. CASE Effects(a, sent[a], p, sh) = {}
  <2>1. Go(x, "unlock")
    BY <1>1 DEF Mutated
  <2>2. QED
    BY <2>1, GoShape DEF TypeInv, Labels
<1>2. CASE Effects(a, sent[a], p, sh) # {}
  <2>1. PICK e \in Effects(a, sent[a], p, sh) :
          h' = [h EXCEPT ![x] = Working("persist", a, e.player, e.shop)]
    BY <1>2 DEF Mutated
  <2>2. sent[a] \in SentOnes
    BY DEF TypeInv
  <2>3. Good(a, p, sh, e)
    BY <2>2, EffectIsGood
  <2>4. e.player \in Players /\ e.shop \in Shops
    BY <2>3 DEF Good, Kept
  <2>5. h[x] \in Works /\ "persist" \in Labels
    BY DEF TypeInv, Labels
  <2>8. Becomes(x, "persist", a, e.player, e.shop)
    BY <2>1, <2>4, WorkingShape DEF TypeInv, Labels
  <2>9. QED
    BY <2>3, <2>8
<1>3. QED
  BY <1>1, <1>2

\* A step of one handler.
LEMMA HandlerKeepsBase ==
  ASSUME BaseInv, NEW x \in Handlers, NEW l \in Labels, NEW a, NEW p, NEW sh,
         Becomes(x, l, a, p, sh),
         l # "idle" => a \in Ids /\ WellFormed(sent[a]),
         l \in {"readShop", "persist", "updateRow"} => p.charges = sent[a].round - 1,
         l = "persist" /\ NeedsShop(a) =>
             sh.round = sent[a].round /\ (charge.pc = "roll" => sent[a].round # round),
         player' \in Players, player'.charges = player.charges,
         charge.pc \in {"flip", "persist", "commit"} => player' = player,
         shop' \in Shops, shop'.round = shop.round,
         row' \in Players, row'.charges <= round,
         log' \subseteq Ids, lock' \in Handlers \union {Nil}, mishaps' \in Nat,
         UNCHANGED <<phase, round, charge, sent>>
  PROVE  BaseInv'
<1>1. TypeInv'
  BY DEF BaseInv, TypeInv, Becomes
<1>2. RequestInv'
  BY DEF BaseInv, RequestInv, Becomes, At
<1>3. ClockInv'
  BY DEF BaseInv, ClockInv
<1>4. CopyInv'
  BY DEF BaseInv, CopyInv, Becomes, At, NeedsShop
<1>5. QED
  BY <1>1, <1>2, <1>3, <1>4 DEF BaseInv

\* What a handler that is at work knows of its request.
LEMMA AtWork ==
  ASSUME BaseInv, NEW x \in Handlers, ~At(x, "idle")
  PROVE  /\ h[x].id \in Ids /\ WellFormed(sent[h[x].id])
         /\ sent[h[x].id] \in SentOnes /\ sent[h[x].id].round \in 1..round
         /\ h[x] \in Works /\ h \in [Handlers -> Works] /\ row.charges <= round
<1>1. h[x].id \in Ids /\ WellFormed(sent[h[x].id])
  BY DEF BaseInv, RequestInv
<1>2. sent[h[x].id] # NotSent
  BY <1>1 DEF WellFormed, NotSent
<1>3. QED
  BY <1>1, <1>2 DEF BaseInv, RequestInv, TypeInv, ClockInv

LEMMA ReceiveKeepsBase ==
  ASSUME BaseInv, NEW x \in Handlers, NEW a \in Ids, NEW req \in Asked[a], Receive(x, a, req)
  PROVE  BaseInv'
<1> USE DEF BaseInv
<1>1. WellFormed(req)
  BY AskedAssumption
<1>2. h[x] \in Works /\ Becomes(x, "lock", a, h[x].player, h[x].shop)
  BY WorkingShape DEF Receive, TypeInv, Labels, Works
<1> DEFINE new == [op |-> req.op, x |-> req.x, y |-> req.y, round |-> round]
<1>3. new \in SentOnes /\ WellFormed(new)
  BY <1>1 DEF TypeInv, SentOnes, WellFormed, Ops, Args
<1>4. \/ sent[a] = NotSent /\ sent' = [sent EXCEPT ![a] = new]
      \/ sent[a] # NotSent /\ sent' = sent
  BY DEF Receive
<1> HIDE DEF new
<1>5. new.round = round
  BY DEF new
<1>6. sent' \in [Ids -> SentOnes] /\ WellFormed(sent'[a]) /\ sent'[a].round \in 1..round
      /\ \A b \in Ids : sent[b] # NotSent => sent'[b] = sent[b]
  BY <1>3, <1>4, <1>5 DEF TypeInv, RequestInv
<1>7. UNCHANGED <<phase, round, player, shop, log, lock, row, charge, mishaps>>
  BY DEF Receive, roundVars, tailVars
<1>8. TypeInv'
  BY <1>2, <1>6, <1>7 DEF TypeInv, Becomes
<1>9. \A b \in Ids : WellFormed(sent[b]) => sent'[b] = sent[b]
  BY <1>6 DEF WellFormed, NotSent
<1>10. RequestInv'
  <2>1. \A b \in Ids : sent'[b] = NotSent \/ (WellFormed(sent'[b]) /\ sent'[b].round \in 1..round')
    BY <1>4, <1>6, <1>7 DEF RequestInv, TypeInv
  <2>2. \A y \in Handlers : h'[y].pc # "idle" => h'[y].id \in Ids /\ WellFormed(sent'[h'[y].id])
    BY <1>2, <1>6, <1>9 DEF RequestInv, Becomes, At
  <2>3. QED
    BY <2>1, <2>2 DEF RequestInv, At
<1>11. ClockInv'
  BY <1>7 DEF ClockInv
<1>12. CopyInv'
  <2>1. \A y \in Handlers : ~At(y, "idle") => sent'[h[y].id] = sent[h[y].id]
    BY <1>9 DEF RequestInv
  <2>2. \A y \in Handlers \ {x} : h'[y] = h[y]
    BY <1>2 DEF Becomes
  <2>3. h'[x].pc = "lock"
    BY <1>2 DEF Becomes
  <2>4. QED
    BY <2>1, <2>2, <2>3, <1>7 DEF CopyInv, At, NeedsShop
<1>13. QED
  BY <1>8, <1>10, <1>11, <1>12

LEMMA MutatedKeepsBase ==
  ASSUME BaseInv, NEW x \in Handlers, ~At(x, "idle"), NEW p \in Players, Mutated(x, p, shop),
         p.charges = sent[h[x].id].round - 1,
         NeedsShop(h[x].id) => shop.round = sent[h[x].id].round,
         UNCHANGED <<phase, round, player, shop, log, lock, row, sent, charge, mishaps>>
  PROVE  BaseInv'
<1> DEFINE a == h[x].id
<1>1. a \in Ids /\ WellFormed(sent[a]) /\ sent[a].round \in 1..round /\ h[x] \in Works
      /\ row.charges <= round
  BY AtWork
<1>2. TypeInv /\ shop \in Shops
  BY DEF BaseInv, TypeInv
<1>3. CASE Becomes(x, "unlock", a, h[x].player, h[x].shop)
  BY <1>1, <1>2, <1>3, HandlerKeepsBase DEF TypeInv, Labels
<1>4. ASSUME NEW e \in Effects(a, sent[a], p, shop),
             Becomes(x, "persist", a, e.player, e.shop), Good(a, p, shop, e)
      PROVE  BaseInv'
  <2>1. e.player.charges = sent[a].round - 1 /\ e.shop.round = shop.round
    BY <1>4 DEF Good, Kept
  <2>2. NeedsShop(a) => e.shop.round = sent[a].round /\ (charge.pc = "roll" => sent[a].round # round)
    BY <2>1, <1>1, <1>2 DEF BaseInv, ClockInv, TypeInv
  <2>3. QED
    BY <1>1, <1>2, <1>4, <2>1, <2>2, HandlerKeepsBase DEF TypeInv, Labels
<1>5. QED
  BY <1>1, <1>2, <1>3, <1>4, MutatedShape

LEMMA ChargedShape ==
  ASSUME NEW p \in Players
  PROVE  /\ Charged(p) \in Players /\ Charged(p).charges = p.charges + 1
         /\ Charged(p).slots = p.slots
<1> DEFINE g == p.gold + RoundGold
           c == p.charges + 1
<1>1. g \in Nat /\ c \in Nat
  BY RosterAssumption DEF Players
<1>2. Charged(p) = [p EXCEPT !.gold = g, !.charges = c]
  BY DEF Charged
<1>3. c = p.charges + 1
  OBVIOUS
<1> HIDE DEF g, c
<1>4. Charged(p) = [gold |-> g, charges |-> c, slots |-> p.slots]
  BY <1>2 DEF Players
<1>5. QED
  BY <1>1, <1>3, <1>4 DEF Players

\* A step of the orchestrator.
LEMMA RoundKeepsBase ==
  ASSUME BaseInv, RoundNext
  PROVE  BaseInv'
<1> USE DEF roundVars, tailVars
<1>0. TypeInv /\ RequestInv /\ ClockInv /\ CopyInv
  BY DEF BaseInv
<1>1. UNCHANGED <<h, sent, log, lock, mishaps>>
  BY DEF RoundNext, EndPlanning, ChargeRead, ChargeFlip, ChargePersist, ChargeCommit,
         Advance, RollOffers
<1>2. Charged(charge.player) \in Players /\ Charged(player).charges = player.charges + 1
      /\ NewPlayer \in Players
  BY <1>0, ChargedShape, NewPlayerShape DEF TypeInv
<1>3. ASSUME charge' \in [pc : {"idle", "flip", "persist", "commit", "advance", "roll"},
                          player : Players],
             round' \in round..MaxRound, phase' \in {"shop_place", "battle", "resolved"},
             player' \in Players, row' \in Players, shop' \in Shops,
             charge'.pc = "roll" => round' > round \/ (charge.pc = "roll" /\ round' = round),
             ClockInv'
      PROVE  BaseInv'
  <2>1. TypeInv'
    BY <1>0, <1>1, <1>3 DEF TypeInv
  <2>2. RequestInv'
    BY <1>0, <1>1, <1>3 DEF RequestInv, At, TypeInv
  <2>3. CopyInv'
    <3> SUFFICES ASSUME NEW x \in Handlers, h'[x].pc = "persist", NeedsShop(h[x].id),
                        charge'.pc = "roll", sent[h[x].id].round = round'
                 PROVE  FALSE
      BY <1>0, <1>1 DEF CopyInv, At, NeedsShop
    <3>1. sent[h[x].id].round \in 1..round /\ round' >= round
      BY <1>1, <1>3, AtWork DEF At
    <3>2. QED
      BY <1>0, <1>1, <1>3, <3>1 DEF CopyInv, At, TypeInv
  <2>4. QED
    BY <1>3, <2>1, <2>2, <2>3 DEF BaseInv
<1>4. CASE EndPlanning
  <2>1. ClockInv'
    BY <1>0, <1>4 DEF EndPlanning, ClockInv, TypeInv
  <2>2. QED
    BY <1>0, <1>3, <1>4, <2>1 DEF EndPlanning, ClockInv, TypeInv
<1>5. CASE ChargeRead
  <2>1. ClockInv'
    BY <1>0, <1>5 DEF ChargeRead, ClockInv, TypeInv
  <2>2. QED
    BY <1>0, <1>3, <1>5, <2>1 DEF ChargeRead, ClockInv, TypeInv
<1>6. CASE ChargeFlip
  <2>1. ClockInv'
    BY <1>0, <1>6 DEF ChargeFlip, ClockInv, TypeInv
  <2>2. QED
    BY <1>0, <1>2, <1>3, <1>6, <2>1 DEF ChargeFlip, ClockInv, TypeInv
<1>7. CASE ChargePersist
  <2>0. charge' = [pc |-> "commit", player |-> charge.player] /\ row' = charge.player
    BY <1>0, <1>7 DEF ChargePersist, TypeInv, Snapshot
  <2>1. charge.player = Charged(player) /\ player.charges = round - 1 /\ phase = "resolved"
    BY <1>0, <1>7 DEF ChargePersist, ClockInv, TypeInv
  <2>2. row'.charges = round
    BY <1>0, <1>2, <2>0, <2>1 DEF TypeInv, Players
  <2>3. ClockInv'
    BY <1>0, <1>7, <2>0, <2>1, <2>2 DEF ChargePersist, ClockInv, TypeInv
  <2>4. QED
    BY <1>0, <1>3, <1>7, <2>0, <2>3 DEF ChargePersist, TypeInv
<1>8. CASE ChargeCommit
  <2>0. charge' = [pc |-> "advance", player |-> NewPlayer] /\ player' = charge.player
    BY <1>0, <1>8 DEF ChargeCommit, TypeInv
  <2>1. charge.player = Charged(player) /\ player.charges = round - 1 /\ phase = "resolved"
    BY <1>0, <1>8 DEF ChargeCommit, ClockInv, TypeInv
  <2>2. player'.charges = round
    BY <1>0, <1>2, <2>0, <2>1 DEF TypeInv, Players
  <2>3. ClockInv'
    BY <1>0, <1>8, <2>0, <2>1, <2>2 DEF ChargeCommit, ClockInv, TypeInv
  <2>4. QED
    BY <1>0, <1>2, <1>3, <1>8, <2>0, <2>3 DEF ChargeCommit, TypeInv
<1>9. CASE Advance
  <2>0. charge' = [pc |-> "roll", player |-> charge.player]
    BY <1>0, <1>9 DEF Advance, TypeInv
  <2>1. /\ round \in Nat /\ MaxRound \in Nat /\ round < MaxRound
        /\ row.charges \in Nat /\ row.charges <= round
        /\ player.charges = round /\ shop.round = round
    BY <1>0, <1>9, RosterAssumption DEF Advance, TypeInv, ClockInv, Players
  <2>2. /\ phase' = "shop_place" /\ round' = round + 1 /\ charge'.pc = "roll"
        /\ UNCHANGED <<player, shop, row>>
    BY <1>9, <2>0 DEF Advance
  <2>3. round' \in round..MaxRound /\ round' > round /\ round' - 1 = round
    BY <2>1, <2>2
  <2>4. player'.charges = round' - 1 /\ shop'.round = round' - 1 /\ row'.charges <= round'
    BY <2>1, <2>2, <2>3
  <2>5. ClockInv'
    BY <2>2, <2>4 DEF ClockInv
  <2>6. charge' \in [pc : {"idle", "flip", "persist", "commit", "advance", "roll"},
                     player : Players]
    BY <1>0, <2>0 DEF TypeInv
  <2>7. player' \in Players /\ row' \in Players /\ shop' \in Shops
    BY <1>0, <2>2 DEF TypeInv
  <2>8. phase' \in {"shop_place", "battle", "resolved"}
        /\ (charge'.pc = "roll" => round' > round \/ (charge.pc = "roll" /\ round' = round))
    BY <2>2, <2>3
  <2>9. QED
    BY <1>3, <2>3, <2>5, <2>6, <2>7, <2>8, Zenon
<1>10. CASE RollOffers
  <2>0. charge' = [pc |-> "idle", player |-> charge.player] /\ shop' = ShopOf(round, 0)
        /\ UNCHANGED <<phase, round, player, row>>
    BY <1>0, <1>10 DEF RollOffers, TypeInv
  <2>1. shop' \in Shops /\ shop'.round = round
    BY <1>0, <2>0, ShopShape DEF TypeInv
  <2>2. ClockInv'
    BY <1>0, <1>10, <2>0, <2>1 DEF RollOffers, ClockInv
  <2>3. QED
    BY <1>0, <1>3, <2>0, <2>1, <2>2 DEF TypeInv
<1>11. QED
  BY <1>4, <1>5, <1>6, <1>7, <1>8, <1>9, <1>10 DEF RoundNext

LEMMA StepKeepsBase ==
  ASSUME BaseInv, [Next]_vars
  PROVE  BaseInv'
<1> USE DEF roundVars, tailVars
<1>0. TypeInv /\ ClockInv /\ CopyInv
  BY DEF BaseInv
<1>1. ASSUME NEW x \in Handlers, NEW a \in Ids, NEW req \in Asked[a], Receive(x, a, req)
      PROVE  BaseInv'
  BY <1>1, ReceiveKeepsBase
<1>2. ASSUME NEW x \in Handlers, AcquireLock(x) PROVE BaseInv'
  <2>1. Becomes(x, "check", h[x].id, h[x].player, h[x].shop) /\ ~At(x, "idle")
    BY <1>0, <1>2, GoShape DEF AcquireLock, TypeInv, Labels, At
  <2>2. h[x].id \in Ids /\ WellFormed(sent[h[x].id]) /\ row.charges <= round
    BY <2>1, AtWork
  <2>3. QED
    BY <1>0, <1>2, <2>1, <2>2, HandlerKeepsBase DEF AcquireLock, TypeInv, Labels
<1>3. ASSUME NEW x \in Handlers, Busy(x) PROVE BaseInv'
  <2>1. Becomes(x, "idle", Nil, NewPlayer, ShopOf(1, 0)) /\ row.charges <= round
    BY <1>0, <1>3, DoneShape DEF Busy, TypeInv, ClockInv
  <2>2. QED
    BY <1>0, <1>3, <2>1, HandlerKeepsBase DEF Busy, TypeInv, Labels
<1>4. ASSUME NEW x \in Handlers, CheckLog(x) PROVE BaseInv'
  <2>1. ~At(x, "idle")
    BY <1>4 DEF CheckLog, At
  <2>2. h[x].id \in Ids /\ WellFormed(sent[h[x].id]) /\ row.charges <= round
    BY <2>1, AtWork
  <2>3. \E l \in {"unlock", "read"} : Becomes(x, l, h[x].id, h[x].player, h[x].shop)
    BY <1>0, <1>4, GoShape DEF CheckLog, TypeInv, Labels
  <2>4. QED
    BY <1>0, <1>4, <2>2, <2>3, HandlerKeepsBase DEF CheckLog, TypeInv, Labels
<1>5. ASSUME NEW x \in Handlers, ReadRuntime(x) PROVE BaseInv'
  <2> DEFINE a == h[x].id
  <2>1. ~At(x, "idle") /\ UNCHANGED <<phase, round, player, shop, log, lock, row, sent, charge, mishaps>>
    BY <1>5 DEF ReadRuntime, At
  <2>2. /\ a \in Ids /\ WellFormed(sent[a]) /\ row.charges <= round /\ sent[a] \in SentOnes
        /\ h[x] \in Works /\ h \in [Handlers -> Works]
    BY <2>1, AtWork
  <2>3. CASE sent[a].round # round \/ phase # "shop_place"
    <3>1. Becomes(x, "unlock", a, h[x].player, h[x].shop)
      BY <1>5, <2>2, <2>3, GoShape DEF ReadRuntime, Labels
    <3>2. QED
      BY <1>0, <2>1, <2>2, <3>1, HandlerKeepsBase DEF TypeInv, Labels
  <2>4. CASE sent[a].round = round /\ phase = "shop_place" /\ NeedsShop(a)
    <3>1. h' = [h EXCEPT ![x] = Working("readShop", a, player, h[x].shop)]
      BY <1>5, <2>2, <2>4 DEF ReadRuntime
    <3>2. Becomes(x, "readShop", a, player, h[x].shop)
      BY <1>0, <2>2, <3>1, WorkingShape DEF TypeInv, Labels, Works
    <3>3. player.charges = round - 1
      BY <1>0, <2>4 DEF ClockInv
    <3>4. QED
      BY <1>0, <2>1, <2>2, <2>4, <3>2, <3>3, HandlerKeepsBase DEF TypeInv, Labels
  <2>5. CASE sent[a].round = round /\ phase = "shop_place" /\ ~NeedsShop(a)
    <3>1. Mutated(x, player, shop)
      BY <1>5, <2>5 DEF ReadRuntime
    <3>2. player.charges = round - 1 /\ player \in Players
      BY <1>0, <2>5 DEF ClockInv, TypeInv
    <3>3. QED
      BY <2>1, <2>5, <3>1, <3>2, MutatedKeepsBase
  <2>6. QED
    BY <2>3, <2>4, <2>5
<1>6. ASSUME NEW x \in Handlers, ReadShop(x) PROVE BaseInv'
  <2> DEFINE a == h[x].id
  <2>1. ~At(x, "idle") /\ UNCHANGED <<phase, round, player, shop, log, lock, row, sent, charge, mishaps>>
    BY <1>6 DEF ReadShop, At
  <2>2. /\ a \in Ids /\ WellFormed(sent[a]) /\ row.charges <= round
        /\ h[x] \in Works /\ h \in [Handlers -> Works]
    BY <2>1, AtWork
  <2>3. CASE shop.round = sent[a].round
    <3>1. Mutated(x, h[x].player, shop)
      BY <1>6, <2>3 DEF ReadShop
    <3>2. h[x].player.charges = sent[a].round - 1 /\ h[x].player \in Players
      BY <1>0, <1>6, <2>2 DEF ReadShop, CopyInv, At, Works
    <3>3. QED
      BY <2>1, <2>3, <3>1, <3>2, MutatedKeepsBase
  <2>4. CASE shop.round # sent[a].round
    <3>1. Becomes(x, "unlock", a, h[x].player, h[x].shop)
      BY <1>6, <2>2, <2>4, GoShape DEF ReadShop, Labels
    <3>2. QED
      BY <1>0, <2>1, <2>2, <3>1, HandlerKeepsBase DEF TypeInv, Labels
  <2>5. QED
    BY <2>3, <2>4
<1>7. ASSUME NEW x \in Handlers, Persist(x) PROVE BaseInv'
  <2> DEFINE a == h[x].id
  <2>1. At(x, "persist") /\ ~At(x, "idle")
    BY <1>7 DEF Persist, At
  <2>2. /\ a \in Ids /\ WellFormed(sent[a]) /\ row.charges <= round
        /\ h[x] \in Works /\ h \in [Handlers -> Works]
    BY <2>1, AtWork
  <2>3. CASE NewInLog(a) /\ StillPlanning(sent[a].round)
    <3>1. /\ log' = log \union {a} /\ player' = h[x].player
          /\ shop' = (IF NeedsShop(a) THEN h[x].shop ELSE shop)
          /\ UNCHANGED <<phase, round, charge, lock, row, sent, mishaps>>
      BY <1>7, <2>3 DEF Persist
    <3>2. Becomes(x, "updateRow", a, h[x].player, h[x].shop)
      BY <1>7, <2>2, <2>3, GoShape DEF Persist, Labels
    <3>3. sent[a].round = round /\ phase = "shop_place"
      BY <2>3 DEF StillPlanning
    <3>4. h[x].player.charges = round - 1 /\ (NeedsShop(a) => h[x].shop.round = round /\ charge.pc # "roll")
      BY <1>0, <2>1, <3>3 DEF CopyInv, At
    <3>5. charge.pc \in {"idle", "roll"} /\ player.charges = round - 1
      BY <1>0, <3>3 DEF ClockInv
    <3>6. shop'.round = shop.round /\ shop' \in Shops
      BY <1>0, <2>2, <3>1, <3>4 DEF ClockInv, TypeInv, Works
    <3>7. h[x].player \in Players /\ h[x].player.charges = sent[a].round - 1
          /\ player'.charges = player.charges
      BY <2>2, <3>1, <3>3, <3>4, <3>5 DEF Works
    <3> HIDE DEF a
    <3>8. /\ log' \subseteq Ids /\ lock' \in Handlers \union {Nil} /\ mishaps' \in Nat
          /\ row' \in Players /\ row'.charges <= round /\ player' \in Players
      BY <1>0, <2>2, <3>1, <3>7 DEF TypeInv
    <3>9. QED
      BY <2>2, <3>1, <3>2, <3>5, <3>6, <3>7, <3>8, HandlerKeepsBase DEF Labels
  <2>4. CASE ~(NewInLog(a) /\ StillPlanning(sent[a].round))
    <3>1. Becomes(x, "unlock", a, h[x].player, h[x].shop)
      BY <1>7, <2>2, <2>4, GoShape DEF Persist, Labels
    <3>2. UNCHANGED <<phase, round, player, shop, log, lock, row, sent, charge, mishaps>>
      BY <1>7, <2>4 DEF Persist
    <3>3. QED
      BY <1>0, <2>2, <3>1, <3>2, HandlerKeepsBase DEF TypeInv, Labels
  <2>5. QED
    BY <2>3, <2>4
<1>8. ASSUME NEW x \in Handlers, UpdateRow(x) \/ UpdateRowFails(x) PROVE BaseInv'
  <2>1. At(x, "updateRow") /\ ~At(x, "idle")
    BY <1>8 DEF UpdateRow, UpdateRowFails, At
  <2>2. /\ h[x].id \in Ids /\ WellFormed(sent[h[x].id]) /\ row.charges <= round
        /\ sent[h[x].id].round \in 1..round
        /\ h[x] \in Works /\ h \in [Handlers -> Works]
    BY <2>1, AtWork
  <2>3. Becomes(x, "unlock", h[x].id, h[x].player, h[x].shop)
    BY <1>8, <2>2, GoShape DEF UpdateRow, UpdateRowFails, Labels
  <2>4. row' \in {row, h[x].player} /\ mishaps' \in Nat
    BY <1>0, <1>8 DEF UpdateRow, UpdateRowFails, TypeInv
  <2>5. h[x].player \in Players /\ h[x].player.charges = sent[h[x].id].round - 1
    BY <1>0, <2>1, <2>2 DEF CopyInv, At, Works
  <2>6. row' \in Players /\ row'.charges <= round
    BY <1>0, <2>2, <2>4, <2>5 DEF TypeInv
  <2>7. QED
    BY <1>0, <1>8, <2>2, <2>3, <2>4, <2>6, HandlerKeepsBase
       DEF UpdateRow, UpdateRowFails, TypeInv, Labels
<1>9. ASSUME NEW x \in Handlers, Unlock(x) \/ Crash(x) PROVE BaseInv'
  <2>1. Becomes(x, "idle", Nil, NewPlayer, ShopOf(1, 0)) /\ row.charges <= round
    BY <1>0, <1>9, DoneShape DEF Unlock, Crash, TypeInv, ClockInv
  <2>2. lock' \in Handlers \union {Nil} /\ mishaps' \in Nat
    BY <1>0, <1>9 DEF Unlock, Crash, TypeInv, Released
  <2>3. QED
    BY <1>0, <1>9, <2>1, <2>2, HandlerKeepsBase DEF Unlock, Crash, TypeInv, Labels
<1>10. CASE LockLapse
  <2>1. UNCHANGED <<phase, round, player, shop, log, row, h, sent, charge>>
        /\ lock' = Nil /\ mishaps' \in Nat
    BY <1>0, <1>10 DEF LockLapse, TypeInv
  <2>2. QED
    BY <2>1 DEF BaseInv, TypeInv, RequestInv, ClockInv, CopyInv, At, NeedsShop
<1>11. CASE RoundNext
  BY <1>11, RoundKeepsBase
<1>12. CASE UNCHANGED vars
  BY <1>12 DEF vars, BaseInv, TypeInv, RequestInv, ClockInv, CopyInv, At, NeedsShop
<1>13. QED
  BY <1>1, <1>2, <1>3, <1>4, <1>5, <1>6, <1>7, <1>8, <1>9, <1>10, <1>11, <1>12
     DEF Next, HandlerStep

LEMMA InitBase == Init => BaseInv
<1> SUFFICES ASSUME Init PROVE BaseInv
  OBVIOUS
<1>1. NewPlayer \in Players /\ NewPlayer.charges = 0 /\ ShopOf(1, 0) \in Shops
      /\ ShopOf(1, 0).round = 1 /\ 1 \in 1..MaxRound
  BY NewPlayerShape, ShopShape, RosterAssumption
<1>2. Idle \in Works /\ Idle.pc = "idle"
  BY <1>1 DEF Idle, Working, Works, Labels
<1>3. NotSent \in SentOnes
  BY RosterAssumption DEF NotSent, SentOnes, Args
<1>4. \A x \in Handlers : h[x].pc = "idle"
  BY <1>2 DEF Init
<1>5. TypeInv
  BY <1>1, <1>2, <1>3 DEF Init, TypeInv
<1>6. RequestInv /\ CopyInv
  <2>1. \A a \in Ids : sent[a] = NotSent
    BY DEF Init
  <2>2. RequestInv
    BY <1>4, <2>1 DEF RequestInv, At
  <2>3. CopyInv
    BY <1>4 DEF CopyInv, At
  <2>4. QED
    BY <2>2, <2>3
<1>7. ClockInv
  BY <1>1 DEF Init, ClockInv
<1>8. QED
  BY <1>5, <1>6, <1>7 DEF BaseInv

(* The shape of the state, what is asked for, the clock of the rounds and  *)
(* the round every copy belongs to.                                        *)
THEOREM BaseHolds == Spec => []BaseInv
<1>1. BaseInv /\ [Next]_vars => BaseInv'
  BY StepKeepsBase
<1>2. QED
  BY InitBase, <1>1, PTL DEF Spec

(* Types; the offers of a shop are those generated for its round and       *)
(* refresh, or sold, and there is one free refresh in a phase.             *)
THEOREM TypeCorrect == Spec => []RosterTypeOK
<1>1. BaseInv => RosterTypeOK
  <2> SUFFICES ASSUME BaseInv PROVE RosterTypeOK
    OBVIOUS
  <2>0. TypeInv /\ ClockInv
    BY DEF BaseInv
  <2>1. round \in 1..MaxRound /\ MaxRound \in Nat
        /\ player.charges \in Nat /\ player.charges <= round
        /\ row.charges \in Nat /\ row.charges <= round
    BY <2>0, RosterAssumption DEF TypeInv, ClockInv, Players
  <2>2. ASSUME NEW p \in {player, row}
        PROVE  /\ p.gold \in Nat /\ p.charges \in 0..MaxRound
               /\ \A s \in UnitsIn(p) :
                    p.slots[s] \in [id : Ids, kind : Kinds, star : 0..MaxStar, invested : Nat]
    <3>1. p \in Players /\ p.charges \in 0..MaxRound
      BY <2>0, <2>1 DEF TypeInv
    <3>2. \A s \in UnitsIn(p) : p.slots[s] \in Units
      BY <3>1 DEF UnitsIn, Players
    <3>3. QED
      BY <3>1, <3>2 DEF Players, Units
  <2>3. shop.round \in {round, round - 1} /\ shop.refreshes \in {0, 1}
    BY <2>0 DEF TypeInv, ClockInv, Shops
  <2>4. \A i \in DOMAIN shop.offers :
            shop.offers[i] \in {Nil, Offers[<<shop.round, shop.refreshes>>][i]}
    BY <2>0 DEF TypeInv, Shops
  <2>5. QED
    BY <2>0, <2>2, <2>3, <2>4 DEF RosterTypeOK, TypeInv
<1>2. QED
  BY BaseHolds, <1>1, PTL

-----------------------------------------------------------------------------
(* The steps of a handler, as what becomes of it.                          *)

Kin == <<phase, round, charge, player, shop, log, row, applied>>

SentStays == \A y \in Handlers : ~At(y, "idle") => sent'[h[y].id] = sent[h[y].id]

Quiet(x) ==
    \/ \E a \in Ids : \E req \in Asked[a] : Receive(x, a, req)
    \/ AcquireLock(x) \/ Busy(x) \/ CheckLog(x) \/ UpdateRowFails(x) \/ Unlock(x) \/ Crash(x)

QuietLabels == {"idle", "lock", "check", "read", "unlock"}

LEMMA QuietShape ==
  ASSUME BaseInv, NEW x \in Handlers, Quiet(x)
  PROVE  /\ h'[x].pc \in QuietLabels
         /\ \A y \in Handlers \ {x} : h'[y] = h[y]
         /\ SentStays /\ UNCHANGED Kin
<1> USE DEF Kin, roundVars, tailVars
<1>0. TypeInv /\ RequestInv /\ h \in [Handlers -> Works]
  BY DEF BaseInv, TypeInv
<1>1. ASSUME NEW a \in Ids, NEW req \in Asked[a], Receive(x, a, req)
      PROVE  /\ h'[x].pc \in QuietLabels
             /\ \A y \in Handlers \ {x} : h'[y] = h[y]
             /\ SentStays /\ UNCHANGED Kin
  <2>1. Becomes(x, "lock", a, h[x].player, h[x].shop)
    BY <1>0, <1>1, WorkingShape DEF Receive, TypeInv, Labels, Works
  <2>2. \A b \in Ids : sent[b] # NotSent => sent'[b] = sent[b]
    BY <1>0, <1>1 DEF Receive, TypeInv
  <2>3. \A y \in Handlers : ~At(y, "idle") => h[y].id \in Ids /\ sent[h[y].id] # NotSent
    BY <1>0 DEF RequestInv, WellFormed, NotSent
  <2>4. UNCHANGED Kin
    BY <1>1 DEF Receive
  <2>5. QED
    BY <2>1, <2>2, <2>3, <2>4 DEF SentStays, Becomes, QuietLabels
<1>2. CASE Busy(x) \/ Unlock(x) \/ Crash(x)
  <2>1. Becomes(x, "idle", Nil, NewPlayer, ShopOf(1, 0))
    BY <1>0, <1>2, DoneShape DEF Busy, Unlock, Crash
  <2>2. UNCHANGED Kin /\ sent' = sent
    BY <1>2 DEF Busy, Unlock, Crash
  <2>3. QED
    BY <2>1, <2>2 DEF Becomes, SentStays, QuietLabels
<1>3. CASE AcquireLock(x) \/ CheckLog(x) \/ UpdateRowFails(x)
  <2>1. \E l \in {"check", "unlock", "read"} : Becomes(x, l, h[x].id, h[x].player, h[x].shop)
    BY <1>0, <1>3, GoShape DEF AcquireLock, CheckLog, UpdateRowFails, Labels
  <2>2. UNCHANGED Kin /\ sent' = sent
    BY <1>3 DEF AcquireLock, CheckLog, UpdateRowFails
  <2>3. QED
    BY <2>1, <2>2 DEF Becomes, SentStays, QuietLabels
<1>4. QED
  BY <1>1, <1>2, <1>3 DEF Quiet

\* The handler has a new state to write, made of the copy p.
Prepares(x, p) ==
    \E e \in Effects(h[x].id, sent[h[x].id], p, shop) :
        /\ Becomes(x, "persist", h[x].id, e.player, e.shop)
        /\ Good(h[x].id, p, shop, e)

Planned(x) == StillPlanning(sent[h[x].id].round)

LEMMA ReadRuntimeShape ==
  ASSUME BaseInv, NEW x \in Handlers, ReadRuntime(x)
  PROVE  /\ \/ Becomes(x, "unlock", h[x].id, h[x].player, h[x].shop)
            \/ Planned(x) /\ NeedsShop(h[x].id)
               /\ Becomes(x, "readShop", h[x].id, player, h[x].shop)
            \/ Planned(x) /\ ~NeedsShop(h[x].id) /\ Prepares(x, player)
         /\ UNCHANGED <<Kin, sent, lock, mishaps, slow, late>>
<1> DEFINE a == h[x].id
<1>1. At(x, "read") /\ ~At(x, "idle")
  BY DEF ReadRuntime, At
<1>2. a \in Ids /\ WellFormed(sent[a]) /\ h[x] \in Works /\ h \in [Handlers -> Works]
  BY <1>1, AtWork
<1>3. TypeInv /\ player \in Players /\ shop \in Shops
  BY DEF BaseInv, TypeInv
<1>4. UNCHANGED <<Kin, sent, lock, mishaps, slow, late>>
  BY DEF ReadRuntime, Kin, roundVars, tailVars
<1>5. CASE sent[a].round # round \/ phase # "shop_place"
  <2>1. Go(x, "unlock")
    BY <1>5 DEF ReadRuntime
  <2>2. QED
    BY <1>2, <1>4, <2>1, GoShape DEF Labels
<1>6. CASE sent[a].round = round /\ phase = "shop_place" /\ NeedsShop(a)
  <2>1. h' = [h EXCEPT ![x] = Working("readShop", a, player, h[x].shop)]
    BY <1>2, <1>6 DEF ReadRuntime
  <2>2. Becomes(x, "readShop", a, player, h[x].shop)
    BY <1>2, <1>3, <2>1, WorkingShape DEF Labels, Works
  <2>3. QED
    BY <1>4, <1>6, <2>2 DEF Planned, StillPlanning
<1>7. CASE sent[a].round = round /\ phase = "shop_place" /\ ~NeedsShop(a)
  <2>1. Mutated(x, player, shop)
    BY <1>7 DEF ReadRuntime
  <2>2. QED
    BY <1>2, <1>3, <1>4, <1>7, <2>1, MutatedShape DEF Planned, StillPlanning, Prepares
<1>8. QED
  BY <1>5, <1>6, <1>7

LEMMA ReadShopShape ==
  ASSUME BaseInv, NEW x \in Handlers, ReadShop(x)
  PROVE  /\ \/ Becomes(x, "unlock", h[x].id, h[x].player, h[x].shop)
            \/ shop.round = sent[h[x].id].round /\ Prepares(x, h[x].player)
         /\ At(x, "readShop")
         /\ UNCHANGED <<Kin, sent, lock, mishaps, slow, late>>
<1>1. At(x, "readShop") /\ ~At(x, "idle")
  BY DEF ReadShop, At
<1>2. /\ h[x].id \in Ids /\ WellFormed(sent[h[x].id]) /\ h[x] \in Works
      /\ h \in [Handlers -> Works]
  BY <1>1, AtWork
<1>3. TypeInv /\ h[x].player \in Players /\ shop \in Shops
  BY <1>2 DEF BaseInv, TypeInv, Works
<1>4. UNCHANGED <<Kin, sent, lock, mishaps, slow, late>>
  BY DEF ReadShop, Kin, roundVars, tailVars
<1>5. CASE shop.round = sent[h[x].id].round
  <2>1. Mutated(x, h[x].player, shop)
    BY <1>5 DEF ReadShop
  <2>2. QED
    BY <1>1, <1>2, <1>3, <1>4, <1>5, <2>1, MutatedShape DEF Prepares
<1>6. CASE shop.round # sent[h[x].id].round
  <2>1. Go(x, "unlock")
    BY <1>6 DEF ReadShop
  <2>2. QED
    BY <1>1, <1>2, <1>4, <2>1, GoShape DEF Labels
<1>7. QED
  BY <1>5, <1>6

\* The script of action_log.lua has let the state in.
Commits(x) ==
    LET a == h[x].id IN
    /\ At(x, "persist") /\ a \in Ids /\ a \notin log /\ Planned(x)
    /\ log' = log \union {a} /\ player' = h[x].player
    /\ shop' = (IF NeedsShop(a) THEN h[x].shop ELSE shop)
    /\ applied' = Append(applied, a)
    /\ Becomes(x, "updateRow", a, h[x].player, h[x].shop)
    /\ UNCHANGED <<phase, round, charge, row>>

LEMMA PersistShape ==
  ASSUME BaseInv, NEW x \in Handlers, Persist(x)
  PROVE  /\ \/ Commits(x)
            \/ Becomes(x, "unlock", h[x].id, h[x].player, h[x].shop) /\ UNCHANGED Kin
         /\ UNCHANGED <<sent, lock, mishaps, slow, late>>
<1>1. At(x, "persist") /\ ~At(x, "idle")
  BY DEF Persist, At
<1>2. h[x].id \in Ids /\ h \in [Handlers -> Works]
  BY <1>1, AtWork
<1>3. UNCHANGED <<phase, round, charge, row, sent, lock, mishaps, slow, late>>
  BY DEF Persist, roundVars, tailVars
<1>4. CASE NewInLog(h[x].id) /\ Planned(x)
  <2>1. /\ log' = log \union {h[x].id} /\ player' = h[x].player
        /\ shop' = (IF NeedsShop(h[x].id) THEN h[x].shop ELSE shop)
        /\ applied' = Append(applied, h[x].id) /\ Go(x, "updateRow")
    BY <1>4 DEF Persist, Planned
  <2>2. Becomes(x, "updateRow", h[x].id, h[x].player, h[x].shop)
    BY <1>2, <2>1, GoShape DEF Labels
  <2>3. QED
    BY <1>1, <1>2, <1>3, <1>4, <2>1, <2>2 DEF Commits, NewInLog
<1>5. CASE ~(NewInLog(h[x].id) /\ Planned(x))
  <2>1. Go(x, "unlock") /\ UNCHANGED <<log, player, shop, applied>>
    BY <1>5 DEF Persist, Planned
  <2>2. QED
    BY <1>2, <1>3, <2>1, GoShape DEF Labels, Kin
<1>6. QED
  BY <1>4, <1>5

LEMMA UpdateRowShape ==
  ASSUME BaseInv, NEW x \in Handlers, UpdateRow(x)
  PROVE  /\ At(x, "updateRow") /\ row' = h[x].player
         /\ Becomes(x, "unlock", h[x].id, h[x].player, h[x].shop)
         /\ late' = (late \/ row.charges > h[x].player.charges \/ charge.pc = "commit")
         /\ UNCHANGED <<phase, round, charge, player, shop, log, applied, sent, lock, mishaps, slow>>
<1>1. h \in [Handlers -> Works]
  BY DEF BaseInv, TypeInv
<1>2. QED
  BY <1>1, GoShape DEF UpdateRow, roundVars, Labels

\* A step is one of a handler, a lapse of the lock, or one of the orchestrator.
LEMMA StepCases ==
  ASSUME Next
  PROVE  \/ \E x \in Handlers : \/ Quiet(x) \/ ReadRuntime(x) \/ ReadShop(x)
                                \/ Persist(x) \/ UpdateRow(x)
         \/ LockLapse \/ RoundNext
BY DEF Next, HandlerStep, Quiet

-----------------------------------------------------------------------------
(* No unit in two slots.  A unit is named for the purchase that made it,   *)
(* so a copy may hold a second unit of that name only when the purchase is *)
(* in the log by now, and then the script does not let it in.              *)

CopyUnits(x) ==
    /\ At(x, "readShop") => Distinct(h[x].player) /\ IdsIn(h[x].player) \subseteq log
    /\ At(x, "persist") => /\ IdsIn(h[x].player) \subseteq log \union {h[x].id}
                           /\ h[x].id \notin log => Distinct(h[x].player)
    /\ At(x, "updateRow") => Distinct(h[x].player)

UnitInv ==
    /\ Distinct(player) /\ Distinct(row) /\ IdsIn(player) \subseteq log
    /\ \A x \in Handlers : CopyUnits(x)

LEMMA SameSlots ==
  ASSUME NEW p, NEW q, p.slots = q.slots
  PROVE  IdsIn(p) = IdsIn(q) /\ (Distinct(p) <=> Distinct(q))
BY DEF IdsIn, Distinct, UnitsIn

LEMMA UnitInit == Init => UnitInv
<1> SUFFICES ASSUME Init PROVE UnitInv
  OBVIOUS
<1>1. player = NewPlayer /\ row = NewPlayer /\ \A x \in Handlers : h[x].pc = "idle"
  BY DEF Init, Idle, Working
<1>2. UnitsIn(NewPlayer) = {}
  BY DEF UnitsIn, NewPlayer
<1>3. Distinct(NewPlayer) /\ IdsIn(NewPlayer) = {}
  BY <1>2 DEF Distinct, IdsIn
<1>4. QED
  BY <1>1, <1>3 DEF UnitInv, CopyUnits, At

\* The copies that were not touched.
LEMMA OtherCopies ==
  ASSUME UnitInv, NEW y \in Handlers, h'[y] = h[y], log \subseteq log'
  PROVE  CopyUnits(y)'
BY DEF UnitInv, CopyUnits, At

LEMMA PreparedUnits ==
  ASSUME NEW x \in Handlers, NEW p, Distinct(p), IdsIn(p) \subseteq log,
         Prepares(x, p), log' = log
  PROVE  CopyUnits(x)' /\ \A y \in Handlers \ {x} : h'[y] = h[y]
<1>1. PICK e : /\ Becomes(x, "persist", h[x].id, e.player, e.shop)
               /\ Good(h[x].id, p, shop, e)
  BY DEF Prepares
<1>2. /\ IdsIn(e.player) \subseteq log \union {h[x].id}
      /\ h[x].id \notin log => Distinct(e.player)
  BY <1>1 DEF Good, Kept
<1>3. /\ h'[x].pc = "persist" /\ h'[x].id = h[x].id /\ h'[x].player = e.player
      /\ \A y \in Handlers \ {x} : h'[y] = h[y]
  BY <1>1 DEF Becomes
<1>4. QED
  BY <1>2, <1>3 DEF CopyUnits, At

LEMMA UnitStep ==
  ASSUME BaseInv, UnitInv, [Next]_vars
  PROVE  UnitInv'
<1>1. ASSUME NEW x \in Handlers, Quiet(x) PROVE UnitInv'
  <2>1. /\ h'[x].pc \in QuietLabels /\ UNCHANGED <<player, log, row>>
        /\ \A y \in Handlers \ {x} : h'[y] = h[y]
    BY <1>1, QuietShape DEF Kin
  <2>2. CopyUnits(x)'
    BY <2>1 DEF CopyUnits, At, QuietLabels
  <2>3. \A y \in Handlers : CopyUnits(y)'
    BY <2>1, <2>2, OtherCopies
  <2>4. QED
    BY <2>1, <2>3 DEF UnitInv
<1>2. ASSUME NEW x \in Handlers, ReadRuntime(x) PROVE UnitInv'
  <2>1. UNCHANGED <<player, log, row>> /\ Distinct(player) /\ IdsIn(player) \subseteq log
    BY <1>2, ReadRuntimeShape DEF Kin, UnitInv
  <2>2. CASE Becomes(x, "unlock", h[x].id, h[x].player, h[x].shop)
    BY <2>1, <2>2, OtherCopies DEF Becomes, UnitInv, CopyUnits, At
  <2>3. CASE Becomes(x, "readShop", h[x].id, player, h[x].shop)
    BY <2>1, <2>3, OtherCopies DEF Becomes, UnitInv, CopyUnits, At
  <2>4. CASE Prepares(x, player)
    <3>1. CopyUnits(x)' /\ \A y \in Handlers \ {x} : h'[y] = h[y]
      BY <2>1, <2>4, PreparedUnits
    <3>2. \A y \in Handlers : CopyUnits(y)'
      BY <2>1, <3>1, OtherCopies
    <3>3. QED
      BY <2>1, <3>2 DEF UnitInv
  <2>5. QED
    BY <1>2, <2>2, <2>3, <2>4, ReadRuntimeShape
<1>3. ASSUME NEW x \in Handlers, ReadShop(x) PROVE UnitInv'
  <2>1. UNCHANGED <<player, log, row>> /\ At(x, "readShop")
    BY <1>3, ReadShopShape DEF Kin
  <2>2. CASE Becomes(x, "unlock", h[x].id, h[x].player, h[x].shop)
    BY <2>1, <2>2, OtherCopies DEF Becomes, UnitInv, CopyUnits, At
  <2>3. CASE Prepares(x, h[x].player)
    <3>1. Distinct(h[x].player) /\ IdsIn(h[x].player) \subseteq log
      BY <2>1 DEF UnitInv, CopyUnits
    <3>2. CopyUnits(x)' /\ \A y \in Handlers \ {x} : h'[y] = h[y]
      BY <2>1, <2>3, <3>1, PreparedUnits
    <3>3. \A y \in Handlers : CopyUnits(y)'
      BY <2>1, <3>2, OtherCopies
    <3>4. QED
      BY <2>1, <3>3 DEF UnitInv
  <2>4. QED
    BY <1>3, <2>2, <2>3, ReadShopShape
<1>4. ASSUME NEW x \in Handlers, Persist(x) PROVE UnitInv'
  <2>1. CASE Commits(x)
    <3>1. Distinct(h[x].player) /\ IdsIn(h[x].player) \subseteq log \union {h[x].id}
      BY <2>1 DEF Commits, UnitInv, CopyUnits
    <3>2. player' = h[x].player /\ log' = log \union {h[x].id} /\ row' = row
      BY <2>1 DEF Commits
    <3>3. /\ h'[x].pc = "updateRow" /\ h'[x].player = h[x].player
          /\ \A y \in Handlers \ {x} : h'[y] = h[y]
      BY <2>1 DEF Commits, Becomes
    <3>4. CopyUnits(x)'
      BY <3>1, <3>3 DEF CopyUnits, At
    <3>5. \A y \in Handlers : CopyUnits(y)'
      BY <3>2, <3>3, <3>4, OtherCopies
    <3>6. QED
      BY <3>1, <3>2, <3>5 DEF UnitInv
  <2>2. CASE Becomes(x, "unlock", h[x].id, h[x].player, h[x].shop) /\ UNCHANGED Kin
    BY <2>2, OtherCopies DEF Becomes, UnitInv, CopyUnits, At, Kin
  <2>3. QED
    BY <1>4, <2>1, <2>2, PersistShape
<1>5. ASSUME NEW x \in Handlers, UpdateRow(x) PROVE UnitInv'
  <2>1. /\ At(x, "updateRow") /\ row' = h[x].player /\ UNCHANGED <<player, log>>
        /\ Becomes(x, "unlock", h[x].id, h[x].player, h[x].shop)
    BY <1>5, UpdateRowShape
  <2>2. Distinct(row')
    BY <2>1 DEF UnitInv, CopyUnits
  <2>3. \A y \in Handlers : CopyUnits(y)'
    BY <2>1, OtherCopies DEF Becomes, CopyUnits, At
  <2>4. QED
    BY <2>1, <2>2, <2>3 DEF UnitInv
<1>6. CASE LockLapse
  BY <1>6, OtherCopies DEF LockLapse, UnitInv
<1>7. CASE RoundNext
  <2>1. UNCHANGED <<h, log>>
    BY <1>7 DEF RoundNext, EndPlanning, ChargeRead, ChargeFlip, ChargePersist, ChargeCommit,
                Advance, RollOffers
  <2>2. player \in Players /\ Charged(player).slots = player.slots
    BY ChargedShape DEF BaseInv, TypeInv
  <2>3. Distinct(Charged(player)) /\ IdsIn(Charged(player)) \subseteq log
    BY <2>2, SameSlots DEF UnitInv
  <2>4. row' \in {row, Charged(player)} /\ player' \in {player, Charged(player)}
    BY <1>7 DEF RoundNext, EndPlanning, ChargeRead, ChargeFlip, ChargePersist, ChargeCommit,
                Advance, RollOffers, BaseInv, ClockInv, Snapshot
  <2>5. Distinct(player') /\ Distinct(row') /\ IdsIn(player') \subseteq log'
    BY <2>1, <2>3, <2>4 DEF UnitInv
  <2>6. QED
    BY <2>1, <2>5, OtherCopies DEF UnitInv
<1>8. CASE UNCHANGED vars
  BY <1>8 DEF vars, UnitInv, CopyUnits, At
<1>9. QED
  BY <1>1, <1>2, <1>3, <1>4, <1>5, <1>6, <1>7, <1>8, StepCases

(* No unit is ever in two slots of the board and the bench, neither in the *)
(* hash nor in the row, however often the client repeats a purchase and    *)
(* even when the lock lapses under a handler (shop.service.ts, place).     *)
THEOREM UnitsAreDistinct == Spec => []NoUnitTwice
<1>1. BaseInv /\ UnitInv /\ [Next]_vars => UnitInv'
  BY UnitStep
<1>2. UnitInv => NoUnitTwice
  BY DEF UnitInv, NoUnitTwice, Distinct
<1>3. QED
  BY UnitInit, BaseHolds, <1>1, <1>2, PTL DEF Spec

-----------------------------------------------------------------------------
(* Every action once.                                                      *)

LogInv ==
    /\ applied \in Seq(Ids \union {"charge"})
    /\ \A i \in DOMAIN applied : applied[i] = "charge" \/ applied[i] \in log
    /\ AppliedOnce

LEMMA LogGrows ==
  ASSUME LogInv, NEW a \in Ids \union {"charge"}, a = "charge" \/ a \notin log,
         applied' = Append(applied, a), log \subseteq log', a = "charge" \/ a \in log'
  PROVE  LogInv'
<1>1. /\ applied' \in Seq(Ids \union {"charge"}) /\ Len(applied') = Len(applied) + 1
      /\ DOMAIN applied = 1..Len(applied) /\ DOMAIN applied' = 1..Len(applied) + 1
      /\ applied'[Len(applied) + 1] = a /\ Len(applied) \in Nat
      /\ \A i \in 1..Len(applied) : applied'[i] = applied[i]
  BY DEF LogInv
<1>2. \A i \in DOMAIN applied' : \/ i = Len(applied) + 1 /\ applied'[i] = a
                                 \/ i \in DOMAIN applied /\ applied'[i] = applied[i]
  BY <1>1
<1>3. \A i \in DOMAIN applied' : applied'[i] = "charge" \/ applied'[i] \in log'
  BY <1>2 DEF LogInv
<1>4. AppliedOnce'
  BY <1>2 DEF LogInv, AppliedOnce
<1>5. QED
  BY <1>1, <1>3, <1>4 DEF LogInv

LEMMA LogStep ==
  ASSUME BaseInv, LogInv, [Next]_vars
  PROVE  LogInv'
<1>1. CASE UNCHANGED <<applied, log>>
  BY <1>1 DEF LogInv, AppliedOnce
<1>2. ASSUME NEW x \in Handlers, Commits(x) PROVE LogInv'
  BY <1>2, LogGrows DEF Commits
<1>3. CASE ChargeCommit
  BY <1>3, LogGrows DEF ChargeCommit
<1>4. ASSUME NEW x \in Handlers,
             Quiet(x) \/ ReadRuntime(x) \/ ReadShop(x) \/ UpdateRow(x)
      PROVE  UNCHANGED <<applied, log>>
  BY <1>4, QuietShape, ReadRuntimeShape, ReadShopShape, UpdateRowShape DEF Kin
<1>5. ASSUME NEW x \in Handlers, Persist(x) PROVE LogInv'
  <2>1. Commits(x) \/ UNCHANGED Kin
    BY <1>5, PersistShape
  <2>2. QED
    BY <1>1, <1>2, <2>1 DEF Kin
<1>6. CASE LockLapse \/ UNCHANGED vars
  BY <1>1, <1>6 DEF LockLapse, vars
<1>7. CASE RoundNext
  BY <1>1, <1>3, <1>7 DEF RoundNext, EndPlanning, ChargeRead, ChargeFlip, ChargePersist,
                          Advance, RollOffers
<1>8. QED
  BY <1>1, <1>4, <1>5, <1>6, <1>7, StepCases

(* However often the client repeats an action, and even when two handlers  *)
(* believe to hold the lock, it takes effect at most once (action_log.lua).*)
THEOREM ActionsApplyOnce == Spec => []AppliedOnce
<1>1. Init => LogInv
  BY DEF Init, LogInv, AppliedOnce
<1>2. BaseInv /\ LogInv /\ [Next]_vars => LogInv'
  BY LogStep
<1>3. LogInv => AppliedOnce
  BY DEF LogInv
<1>4. QED
  BY BaseHolds, <1>1, <1>2, <1>3, PTL DEF Spec

-----------------------------------------------------------------------------
(* One action at a time.  While no lock has lapsed under its holder, a     *)
(* handler at work holds the lock, so the state it has read is the state,  *)
(* or the planning phase it works for is over and the script refuses it.   *)

Busied(x) == h[x].pc \notin {"idle", "lock"}

LockInv == ~slow => \A x \in Handlers : Busied(x) => lock = x

LEMMA LockInit == Init => LockInv
BY DEF Init, LockInv, Busied, Idle, Working

LEMMA LockStep ==
  ASSUME BaseInv, LockInv, [Next]_vars
  PROVE  LockInv'
<1> USE DEF roundVars, tailVars
<1>0. h \in [Handlers -> Works] /\ Nil \notin Handlers
  BY RosterAssumption DEF BaseInv, TypeInv
<1>1. ASSUME NEW x \in Handlers, lock' = lock \/ (h'[x].pc = "idle" /\ lock' = Released(x)),
             \A y \in Handlers \ {x} : h'[y] = h[y],
             Busied(x) \/ h'[x].pc \in {"idle", "lock"}, slow' = slow
      PROVE  LockInv'
  BY <1>0, <1>1 DEF LockInv, Busied, Released
<1>2. ASSUME NEW x \in Handlers, Quiet(x) PROVE LockInv'
  <2>1. h'[x].pc \in QuietLabels /\ \A y \in Handlers \ {x} : h'[y] = h[y]
    BY <1>2, QuietShape
  <2>2. CASE AcquireLock(x)
    <3>1. lock = Nil /\ lock' = x /\ slow' = slow
      BY <2>2 DEF AcquireLock, LockFree
    <3>2. QED
      BY <1>0, <2>1, <3>1 DEF LockInv, Busied
  <2>3. CASE \E a \in Ids : \E req \in Asked[a] : Receive(x, a, req)
    <3>1. h'[x].pc = "lock" /\ lock' = lock /\ slow' = slow
      BY <1>0, <2>3 DEF Receive, Working
    <3>2. QED
      BY <1>1, <2>1, <3>1
  <2>4. CASE Busy(x) \/ Unlock(x) \/ Crash(x)
    <3>1. h'[x].pc = "idle" /\ lock' \in {lock, Released(x)} /\ slow' = slow
      BY <1>0, <2>4 DEF Busy, Unlock, Crash, Done, Idle, Working
    <3>2. QED
      BY <1>1, <2>1, <3>1
  <2>5. CASE CheckLog(x) \/ UpdateRowFails(x)
    BY <1>1, <2>1, <2>5 DEF CheckLog, UpdateRowFails, Busied, At
  <2>6. QED
    BY <1>2, <2>2, <2>3, <2>4, <2>5 DEF Quiet
<1>3. ASSUME NEW x \in Handlers, ReadRuntime(x) \/ ReadShop(x) PROVE LockInv'
  <2>1. Busied(x)
    BY <1>3 DEF ReadRuntime, ReadShop, Busied, At
  <2>2. lock' = lock /\ slow' = slow /\ \A y \in Handlers \ {x} : h'[y] = h[y]
    BY <1>3, ReadRuntimeShape, ReadShopShape DEF Prepares, Becomes
  <2>3. QED
    BY <1>1, <2>1, <2>2
<1>4. ASSUME NEW x \in Handlers, Persist(x) \/ UpdateRow(x) PROVE LockInv'
  <2>1. Busied(x)
    BY <1>4 DEF Persist, UpdateRow, Busied, At
  <2>2. lock' = lock /\ slow' = slow /\ \A y \in Handlers \ {x} : h'[y] = h[y]
    BY <1>4, PersistShape, UpdateRowShape DEF Commits, Becomes
  <2>3. QED
    BY <1>1, <2>1, <2>2
<1>5. CASE LockLapse
  BY <1>5 DEF LockLapse, Owned, LockInv, Busied
<1>6. CASE RoundNext \/ UNCHANGED vars
  <2>1. UNCHANGED <<h, lock, slow>>
    BY <1>6 DEF vars, RoundNext, EndPlanning, ChargeRead, ChargeFlip, ChargePersist,
                ChargeCommit, Advance, RollOffers
  <2>2. QED
    BY <2>1 DEF LockInv, Busied
<1>7. QED
  BY <1>2, <1>3, <1>4, <1>5, <1>6, StepCases

\* The write that the handler x has prepared is one of the state as it is.
Ready(x) ==
    \E e \in Effects(h[x].id, sent[h[x].id], player, shop) :
        h[x].player = e.player /\ (NeedsShop(h[x].id) => h[x].shop = e.shop)

Current(x) == Planned(x) => /\ At(x, "readShop") => h[x].player = player
                            /\ At(x, "persist") => Ready(x)

SerialInv == ~slow => \A x \in Handlers : Current(x)

LEMMA SerialInit == Init => SerialInv
BY DEF Init, SerialInv, Current, At, Idle, Working

\* The handlers that did not move, in a step that leaves the state as it is.
LEMMA OthersStayCurrent ==
  ASSUME BaseInv, NEW y \in Handlers, Current(y), h'[y] = h[y], SentStays,
         UNCHANGED <<phase, round, player, shop>>
  PROVE  Current(y)'
<1>1. CASE At(y, "idle")
  BY <1>1 DEF Current, At
<1>2. CASE ~At(y, "idle")
  <2>1. sent'[h[y].id] = sent[h[y].id]
    BY <1>2 DEF SentStays
  <2>2. (Planned(y) <=> Planned(y)') /\ (At(y, "persist") <=> At(y, "persist")')
        /\ (At(y, "readShop") <=> At(y, "readShop")') /\ (NeedsShop(h[y].id) <=> NeedsShop(h[y].id)')
    BY <2>1 DEF Planned, StillPlanning, At, NeedsShop
  <2>3. Ready(y) => Ready(y)'
    <3>1. h'[y].id = h[y].id /\ h'[y].player = h[y].player /\ h'[y].shop = h[y].shop
      OBVIOUS
    <3>2. Effects(h[y].id, sent[h[y].id], player, shop)'
            = Effects(h[y].id, sent[h[y].id], player, shop)
      BY <2>1, <3>1
    <3>3. QED
      BY <2>2, <3>1, <3>2 DEF Ready
  <2>4. QED
    BY <2>2, <2>3 DEF Current
<1>3. QED
  BY <1>1, <1>2

LEMMA PreparedIsReady ==
  ASSUME NEW x \in Handlers, Prepares(x, player), UNCHANGED <<sent, player, shop>>
  PROVE  At(x, "persist")' /\ Ready(x)'
<1>1. PICK e \in Effects(h[x].id, sent[h[x].id], player, shop) :
         Becomes(x, "persist", h[x].id, e.player, e.shop)
  BY DEF Prepares
<1>2. /\ h'[x].pc = "persist" /\ h'[x].id = h[x].id
      /\ h'[x].player = e.player /\ h'[x].shop = e.shop
  BY <1>1 DEF Becomes
<1>3. e \in Effects(h'[x].id, sent'[h'[x].id], player', shop')
  BY <1>1, <1>2
<1>4. QED
  BY <1>2, <1>3 DEF Ready, At

LEMMA SerialStep ==
  ASSUME BaseInv, LockInv, SerialInv, [Next]_vars
  PROVE  SerialInv'
<1> SUFFICES ASSUME ~slow' PROVE \A x \in Handlers : Current(x)'
  BY DEF SerialInv
<1>0. ~slow /\ (\A x \in Handlers : Current(x)) /\ (\A x \in Handlers : Busied(x) => lock = x)
  <2>1. slow => slow'
    BY QuietShape DEF Next, HandlerStep, Receive, AcquireLock, Busy, CheckLog, ReadRuntime,
       ReadShop, Persist, UpdateRow, UpdateRowFails, Unlock, Crash, LockLapse, RoundNext,
       EndPlanning, ChargeRead, ChargeFlip, ChargePersist, ChargeCommit, Advance, RollOffers,
       vars, tailVars
  <2>2. QED
    BY <2>1 DEF SerialInv, LockInv
<1>1. ASSUME NEW x \in Handlers, \A y \in Handlers \ {x} : h'[y] = h[y], SentStays,
             UNCHANGED <<phase, round, player, shop>>, Current(x)'
      PROVE  \A y \in Handlers : Current(y)'
  BY <1>0, <1>1, OthersStayCurrent
<1>2. ASSUME NEW x \in Handlers, Quiet(x) PROVE \A y \in Handlers : Current(y)'
  <2>1. /\ h'[x].pc \in QuietLabels /\ SentStays /\ UNCHANGED <<phase, round, player, shop>>
        /\ \A y \in Handlers \ {x} : h'[y] = h[y]
    BY <1>2, QuietShape DEF Kin
  <2>2. Current(x)'
    BY <2>1 DEF Current, At, QuietLabels
  <2>3. QED
    BY <1>1, <2>1, <2>2
<1>3. ASSUME NEW x \in Handlers, ReadRuntime(x) PROVE \A y \in Handlers : Current(y)'
  <2>1. SentStays /\ UNCHANGED <<phase, round, player, shop, sent>>
    BY <1>3, ReadRuntimeShape DEF Kin, SentStays
  <2>2. \A y \in Handlers \ {x} : h'[y] = h[y]
    BY <1>3, ReadRuntimeShape DEF Becomes, Prepares
  <2>3. Current(x)'
    <3>1. CASE Becomes(x, "unlock", h[x].id, h[x].player, h[x].shop)
      BY <3>1 DEF Becomes, Current, At
    <3>2. CASE Becomes(x, "readShop", h[x].id, player, h[x].shop)
      BY <2>1, <3>2 DEF Becomes, Current, At
    <3>3. CASE Prepares(x, player)
      BY <2>1, <3>3, PreparedIsReady DEF Current, At
    <3>4. QED
      BY <1>3, <3>1, <3>2, <3>3, ReadRuntimeShape
  <2>4. QED
    BY <1>1, <2>1, <2>2, <2>3
<1>4. ASSUME NEW x \in Handlers, ReadShop(x) PROVE \A y \in Handlers : Current(y)'
  <2>1. SentStays /\ UNCHANGED <<phase, round, player, shop, sent>> /\ At(x, "readShop")
    BY <1>4, ReadShopShape DEF Kin, SentStays
  <2>2. \A y \in Handlers \ {x} : h'[y] = h[y]
    BY <1>4, ReadShopShape DEF Becomes, Prepares
  <2>3. Current(x)'
    <3>1. CASE Becomes(x, "unlock", h[x].id, h[x].player, h[x].shop)
      BY <3>1 DEF Becomes, Current, At
    <3>2. CASE Prepares(x, h[x].player)
      <4>1. CASE Planned(x)
        BY <1>0, <2>1, <3>2, <4>1, PreparedIsReady DEF Current, At
      <4>2. CASE ~Planned(x)
        <5>1. h'[x].id = h[x].id
          BY <3>2 DEF Prepares, Becomes
        <5>2. QED
          BY <2>1, <4>2, <5>1 DEF Current, Planned, StillPlanning
      <4>3. QED
        BY <4>1, <4>2
    <3>3. QED
      BY <1>4, <3>1, <3>2, ReadShopShape
  <2>4. QED
    BY <1>1, <2>1, <2>2, <2>3
<1>5. ASSUME NEW x \in Handlers, Persist(x) PROVE \A y \in Handlers : Current(y)'
  <2>1. Busied(x) /\ sent' = sent
    BY <1>5, PersistShape DEF Persist, Busied, At
  <2>2. CASE Commits(x)
    <3>1. h'[x].pc = "updateRow" /\ \A y \in Handlers \ {x} : h'[y] = h[y]
      BY <2>2 DEF Commits, Becomes
    <3>2. ASSUME NEW y \in Handlers \ {x} PROVE ~Busied(y)
      BY <1>0, <2>1, <3>2
    <3>3. \A y \in Handlers : h'[y].pc \in {"idle", "lock", "updateRow"}
      BY <3>1, <3>2 DEF Busied
    <3>4. QED
      BY <3>3 DEF Current, At
  <2>3. CASE Becomes(x, "unlock", h[x].id, h[x].player, h[x].shop) /\ UNCHANGED Kin
    <3>1. Current(x)' /\ SentStays /\ UNCHANGED <<phase, round, player, shop>>
      BY <2>1, <2>3 DEF Becomes, Current, At, Kin, SentStays
    <3>2. \A y \in Handlers \ {x} : h'[y] = h[y]
      BY <2>3 DEF Becomes
    <3>3. QED
      BY <1>1, <3>1, <3>2
  <2>4. QED
    BY <1>5, <2>2, <2>3, PersistShape
<1>6. ASSUME NEW x \in Handlers, UpdateRow(x) PROVE \A y \in Handlers : Current(y)'
  <2>1. SentStays /\ UNCHANGED <<phase, round, player, shop>>
        /\ \A y \in Handlers \ {x} : h'[y] = h[y]
    BY <1>6, UpdateRowShape DEF SentStays, Becomes
  <2>2. Current(x)'
    BY <1>6, UpdateRowShape DEF Becomes, Current, At
  <2>3. QED
    BY <1>1, <2>1, <2>2
<1>7. CASE LockLapse \/ UNCHANGED vars
  <2>1. SentStays /\ UNCHANGED <<phase, round, player, shop, h>>
    BY <1>7 DEF LockLapse, vars, roundVars, SentStays
  <2>2. QED
    BY <1>0, <2>1, OthersStayCurrent
<1>8. CASE RoundNext
  <2>1. UNCHANGED <<h, sent>>
    BY <1>8 DEF RoundNext, EndPlanning, ChargeRead, ChargeFlip, ChargePersist,
                ChargeCommit, Advance, RollOffers, tailVars
  <2>2. CASE Advance
    <3>1. \A x \in Handlers : ~At(x, "idle") => ~Planned(x)'
      <4> TAKE x \in Handlers
      <4>1. ~At(x, "idle") => sent[h[x].id].round \in 1..round
        BY AtWork
      <4>2. round' = round + 1 /\ round \in Nat
        BY <2>2 DEF Advance, BaseInv, TypeInv
      <4>3. QED
        BY <2>1, <4>1, <4>2 DEF Planned, StillPlanning
    <3>2. QED
      BY <2>1, <3>1 DEF Current, At
  <2>3. CASE RollOffers
    <3>1. charge.pc = "roll" /\ UNCHANGED <<phase, round, player>>
      BY <2>3 DEF RollOffers
    <3> TAKE x \in Handlers
    <3>2. (Planned(x)' <=> Planned(x)) /\ (At(x, "persist")' <=> At(x, "persist"))
          /\ (At(x, "readShop")' <=> At(x, "readShop")) /\ h'[x].player = h[x].player
      BY <2>1, <3>1 DEF Planned, StillPlanning, At
    <3>3. ASSUME Planned(x), At(x, "persist") PROVE Ready(x)'
      <4>1. ~NeedsShop(h[x].id) /\ Ready(x)
        BY <1>0, <3>1, <3>3 DEF BaseInv, CopyInv, Planned, StillPlanning, Current
      <4>2. PICK e \in Effects(h[x].id, sent[h[x].id], player, shop) : h[x].player = e.player
        BY <4>1 DEF Ready
      <4>3. \E f \in Effects(h[x].id, sent[h[x].id], player, shop') : f.player = e.player
        BY <4>1, <4>2, PlaceIgnoresShop DEF NeedsShop
      <4>4. QED
        BY <2>1, <3>1, <4>1, <4>2, <4>3 DEF Ready, NeedsShop
    <3>4. QED
      BY <1>0, <3>1, <3>2, <3>3 DEF Current
  <2>4. CASE EndPlanning \/ ChargeRead \/ ChargeFlip \/ ChargePersist \/ ChargeCommit
    <3>1. phase' # "shop_place"
      BY <2>4 DEF EndPlanning, ChargeRead, ChargeFlip, ChargePersist, ChargeCommit,
                  BaseInv, ClockInv, TypeInv
    <3>2. QED
      BY <3>1 DEF Current, Planned, StillPlanning
  <2>5. QED
    BY <1>8, <2>2, <2>3, <2>4 DEF RoundNext
<1>9. QED
  BY <1>2, <1>3, <1>4, <1>5, <1>6, <1>7, <1>8, StepCases

\* A handler at work holds the lock, and its copy is current.
LEMMA SerialHolds == Spec => [](BaseInv /\ LockInv /\ SerialInv)
<1>1. LockInv /\ BaseInv /\ [Next]_vars => LockInv'
  BY LockStep
<1>2. SerialInv /\ LockInv /\ BaseInv /\ [Next]_vars => SerialInv'
  BY SerialStep
<1>3. QED
  BY BaseHolds, LockInit, SerialInit, <1>1, <1>2, PTL DEF Spec

(* Unless the lock lapses under its holder, the actions and the charges    *)
(* take effect one after the other, each on what the last one left, for    *)
(* all that every one of them writes back the whole state it has read.     *)
THEOREM ActionsAreSerial == Spec => SerialActions
<1> DEFINE Step == ~slow /\ <<player, shop, log>>' # <<player, shop, log>> =>
          \/ \E a \in Ids : Takes(a)
          \/ player' = Charged(player) /\ UNCHANGED <<shop, log>>
          \/ shop' = ShopOf(round, 0) /\ UNCHANGED <<player, log>>
<1>1. ASSUME BaseInv, LockInv, SerialInv, [Next]_vars PROVE Step
  <2>1. CASE UNCHANGED <<player, shop, log>>
    BY <2>1
  <2>2. ASSUME NEW x \in Handlers, Commits(x), ~slow PROVE \E a \in Ids : Takes(a)
    <3>1. Ready(x) /\ h[x].id \in Ids
      BY <2>2, <1>1 DEF Commits, SerialInv, Current
    <3>2. PICK e \in Effects(h[x].id, sent[h[x].id], player, shop) :
            h[x].player = e.player /\ (NeedsShop(h[x].id) => h[x].shop = e.shop)
      BY <3>1 DEF Ready
    <3>3. Takes(h[x].id)
      BY <2>2, <3>2 DEF Commits, Takes
    <3>4. QED
      BY <3>1, <3>3
  <2>3. ASSUME NEW x \in Handlers, Quiet(x) \/ ReadRuntime(x) \/ ReadShop(x) \/ UpdateRow(x)
        PROVE  UNCHANGED <<player, shop, log>>
    BY <1>1, <2>3, QuietShape, ReadRuntimeShape, ReadShopShape, UpdateRowShape DEF Kin
  <2>4. ASSUME NEW x \in Handlers, Persist(x)
        PROVE  Commits(x) \/ UNCHANGED <<player, shop, log>>
    BY <1>1, <2>4, PersistShape DEF Kin
  <2>5. CASE LockLapse \/ UNCHANGED vars
    BY <2>1, <2>5 DEF LockLapse, vars
  <2>6. CASE ChargeCommit
    BY <1>1, <2>6 DEF ChargeCommit, BaseInv, ClockInv
  <2>7. CASE RollOffers
    BY <2>7 DEF RollOffers
  <2>8. CASE RoundNext
    BY <2>1, <2>6, <2>7, <2>8 DEF RoundNext, EndPlanning, ChargeRead, ChargeFlip,
                                  ChargePersist, Advance
  <2>9. QED
    BY <1>1, <2>1, <2>2, <2>3, <2>4, <2>5, <2>8, StepCases
<1>2. QED
  BY SerialHolds, <1>1, PTL DEF Spec, SerialActions

-----------------------------------------------------------------------------
(* The row.  Before an action that is committed has reached the row, the   *)
(* row is one write behind, unless a snapshot has overtaken that write.    *)

Waiting(x) == At(x, "updateRow")

Overtaken(x) == row = player /\ row.charges > h[x].player.charges

RowInv ==
    /\ slow => mishaps # 0
    /\ mishaps = 0 /\ ~late =>
         /\ charge.pc = "commit" => row = charge.player
         /\ charge.pc # "commit" =>
              /\ \A x \in Handlers : Waiting(x) => h[x].player = player \/ Overtaken(x)
              /\ (\A x \in Handlers : ~Waiting(x)) => row = player

LEMMA RowInit == Init => RowInv
BY DEF Init, RowInv, Waiting, At, Idle, Working

\* A handler that fails to write, or dies, leaves a mishap.
LEMMA QuietRow ==
  ASSUME BaseInv, NEW x \in Handlers, Quiet(x)
  PROVE  /\ late' = late /\ slow' = slow /\ mishaps' \in {mishaps, mishaps + 1}
         /\ Waiting(x) => mishaps' = mishaps + 1
BY DEF Quiet, Receive, AcquireLock, Busy, CheckLog, UpdateRowFails, Unlock, Crash,
       tailVars, Waiting, At, BaseInv, TypeInv

LEMMA RowStep ==
  ASSUME BaseInv, LockInv, RowInv, [Next]_vars
  PROVE  RowInv'
<1>0. TypeInv /\ mishaps \in Nat
  BY DEF BaseInv, TypeInv
<1>1. ASSUME UNCHANGED <<player, row, charge>>, NEW x \in Handlers, ~Waiting(x), ~Waiting(x)',
             \A y \in Handlers \ {x} : h'[y] = h[y], mishaps' = mishaps,
             late' = late, slow' = slow
      PROVE  RowInv'
  BY <1>1 DEF RowInv, Waiting, Overtaken, At
<1>2. ASSUME mishaps' = mishaps + 1 PROVE RowInv'
  BY <1>0, <1>2 DEF RowInv
<1>3. ASSUME NEW x \in Handlers, Quiet(x) PROVE RowInv'
  <2>1. UNCHANGED <<player, row, charge>> /\ ~Waiting(x)' /\ \A y \in Handlers \ {x} : h'[y] = h[y]
    BY <1>3, QuietShape DEF Kin, Waiting, At, QuietLabels
  <2>2. QED
    BY <1>1, <1>2, <1>3, <2>1, QuietRow
<1>4. ASSUME NEW x \in Handlers, ReadRuntime(x) \/ ReadShop(x) PROVE RowInv'
  <2>1. ~Waiting(x) /\ UNCHANGED <<player, row, charge, mishaps, late, slow>>
    BY <1>4, ReadRuntimeShape, ReadShopShape DEF Kin, ReadRuntime, ReadShop, Waiting, At
  <2>2. ~Waiting(x)' /\ \A y \in Handlers \ {x} : h'[y] = h[y]
    BY <1>4, ReadRuntimeShape, ReadShopShape DEF Becomes, Prepares, Waiting, At
  <2>3. QED
    BY <1>1, <2>1, <2>2
<1>5. ASSUME NEW x \in Handlers, Persist(x) PROVE RowInv'
  <2>1. UNCHANGED <<mishaps, late, slow>> /\ Busied(x) /\ ~Waiting(x)
    BY <1>5, PersistShape DEF Persist, Busied, Waiting, At
  <2>2. CASE Commits(x)
    <3>1. /\ charge' = charge /\ charge.pc # "commit" /\ row' = row /\ player' = h'[x].player
          /\ Waiting(x)' /\ \A y \in Handlers \ {x} : h'[y] = h[y]
      BY <2>2 DEF Commits, Becomes, Planned, StillPlanning, BaseInv, ClockInv, Waiting, At
    <3>2. ASSUME mishaps = 0, NEW y \in Handlers \ {x} PROVE ~Waiting(y)
      BY <2>1, <3>2 DEF RowInv, LockInv, Busied, Waiting, At
    <3>3. QED
      BY <2>1, <3>1, <3>2 DEF RowInv, Waiting, At
  <2>3. CASE Becomes(x, "unlock", h[x].id, h[x].player, h[x].shop) /\ UNCHANGED Kin
    <3>1. UNCHANGED <<player, row, charge>> /\ ~Waiting(x)' /\ \A y \in Handlers \ {x} : h'[y] = h[y]
      BY <2>3 DEF Becomes, Kin, Waiting, At
    <3>2. QED
      BY <1>1, <2>1, <3>1
  <2>4. QED
    BY <1>5, <2>2, <2>3, PersistShape
<1>6. ASSUME NEW x \in Handlers, UpdateRow(x) PROVE RowInv'
  <2>1. /\ Waiting(x) /\ Busied(x) /\ row' = h[x].player
        /\ UNCHANGED <<charge, player, mishaps, slow>>
        /\ ~late' => ~late /\ ~(row.charges > h[x].player.charges) /\ charge.pc # "commit"
    BY <1>6, UpdateRowShape DEF Waiting, Busied, At
  <2>2. ~Waiting(x)' /\ \A y \in Handlers \ {x} : h'[y] = h[y]
    BY <1>6, UpdateRowShape DEF Becomes, Waiting, At
  <2>3. ASSUME mishaps = 0, NEW y \in Handlers \ {x} PROVE ~Waiting(y)
    BY <2>1, <2>3 DEF RowInv, LockInv, Busied, Waiting, At
  <2>4. mishaps = 0 /\ ~late' => row' = player
    BY <2>1 DEF RowInv, Overtaken
  <2>5. mishaps = 0 => \A y \in Handlers : ~Waiting(y)'
    BY <2>2, <2>3 DEF Waiting, At
  <2>6. QED
    BY <2>1, <2>4, <2>5 DEF RowInv
<1>7. CASE LockLapse
  <2>1. \/ mishaps' = mishaps + 1
        \/ UNCHANGED <<mishaps, slow, late, player, row, charge, h>>
    BY <1>7 DEF LockLapse, roundVars
  <2>2. QED
    BY <1>2, <2>1 DEF RowInv, Waiting, Overtaken, At
<1>8. CASE UNCHANGED vars
  BY <1>8 DEF vars, RowInv, Waiting, Overtaken, At
<1>9. CASE RoundNext
  <2>1. UNCHANGED <<h, mishaps, slow, late>>
    BY <1>9 DEF RoundNext, EndPlanning, ChargeRead, ChargeFlip, ChargePersist,
                ChargeCommit, Advance, RollOffers, tailVars
  <2>2. CASE ChargePersist
    <3>1. charge'.pc = "commit" /\ row' = charge'.player
      BY <1>0, <2>2 DEF ChargePersist, Snapshot, TypeInv
    <3>2. QED
      BY <2>1, <3>1 DEF RowInv
  <2>3. CASE ChargeCommit
    <3>1. /\ charge.pc = "commit" /\ charge'.pc = "advance" /\ row' = row
          /\ player' = charge.player
      BY <1>0, <2>3 DEF ChargeCommit, TypeInv
    <3>2. charge.player.charges = round /\ round \in Nat
      <4>1. charge.player = Charged(player) /\ player.charges = round - 1 /\ round \in Nat
        BY <3>1 DEF BaseInv, ClockInv, TypeInv
      <4>2. player \in Players /\ Charged(player).charges = player.charges + 1
        BY <1>0, ChargedShape DEF TypeInv
      <4>3. QED
        BY <4>1, <4>2
    <3>3. \A x \in Handlers : Waiting(x) => h[x].player.charges < round
      <4> TAKE x \in Handlers
      <4>1. Waiting(x) => /\ h[x].player.charges = sent[h[x].id].round - 1
                          /\ sent[h[x].id].round \in 1..round
        BY AtWork DEF Waiting, At, BaseInv, CopyInv
      <4>2. QED
        BY <3>2, <4>1
    <3>4. mishaps = 0 /\ ~late => row' = player' /\ row'.charges = round
      BY <3>1, <3>2 DEF RowInv
    <3>5. mishaps = 0 /\ ~late => \A x \in Handlers : Waiting(x)' => Overtaken(x)'
      BY <2>1, <3>2, <3>3, <3>4 DEF Waiting, At, Overtaken
    <3>6. QED
      BY <2>1, <3>1, <3>4, <3>5 DEF RowInv
  <2>4. CASE EndPlanning \/ ChargeRead \/ ChargeFlip \/ Advance \/ RollOffers
    <3>1. charge.pc # "commit" /\ charge'.pc # "commit" /\ UNCHANGED <<row, player>>
      BY <1>0, <2>4 DEF EndPlanning, ChargeRead, ChargeFlip, Advance, RollOffers, TypeInv
    <3>2. QED
      BY <2>1, <3>1 DEF RowInv, Waiting, Overtaken, At
  <2>5. QED
    BY <1>9, <2>2, <2>3, <2>4 DEF RoundNext
<1>10. QED
  BY <1>3, <1>4, <1>5, <1>6, <1>7, <1>8, <1>9, StepCases

(* Once everybody is done, the row of the match holds the state of the     *)
(* hash, unless something failed or a write came after the snapshot.       *)
THEOREM RowIsFollowing == Spec => []RowFollows
<1>1. BaseInv /\ LockInv /\ RowInv /\ [Next]_vars => RowInv'
  BY RowStep
<1>2. RowInv => RowFollows
  BY DEF RowInv, RowFollows, Waiting
<1>3. QED
  BY SerialHolds, RowInit, <1>1, <1>2, PTL DEF Spec

-----------------------------------------------------------------------------
(* Sales.  An offer of the shop that was bought is gone from it until the  *)
(* shop is refreshed, and the shop of a round has the sales of that round. *)

Did(i, op) == applied[i] # "charge" /\ sent[applied[i]].op = op

RefreshedIn(i, j) == \E k \in i .. j : Did(k, "refresh")

SaleInv ==
    ~slow => \A i \in DOMAIN applied :
        /\ applied[i] # "charge" =>
               /\ applied[i] \in Ids /\ WellFormed(sent[applied[i]])
               /\ sent[applied[i]].op # "place" => sent[applied[i]].round <= shop.round
        /\ Did(i, "buy") /\ sent[applied[i]].round = shop.round =>
               \/ shop.offers[sent[applied[i]].x] = Nil
               \/ RefreshedIn(i + 1, Len(applied))

SalesOK == SaleInv /\ OfferSoldOnce

LEMMA SentIsKept ==
  ASSUME BaseInv, [Next]_vars, NEW b \in Ids, WellFormed(sent[b])
  PROVE  sent'[b] = sent[b]
<1>1. sent[b] # NotSent /\ sent \in [Ids -> SentOnes]
  BY DEF WellFormed, NotSent, BaseInv, TypeInv
<1>2. \/ sent' = sent
      \/ \E x \in Handlers, a \in Ids : \E req \in Asked[a] : Receive(x, a, req)
  BY DEF Next, HandlerStep, AcquireLock, Busy, CheckLog, ReadRuntime, ReadShop, Persist,
     UpdateRow, UpdateRowFails, Unlock, Crash, LockLapse, RoundNext, EndPlanning, ChargeRead,
     ChargeFlip, ChargePersist, ChargeCommit, Advance, RollOffers, vars
<1>3. QED
  BY <1>1, <1>2 DEF Receive

\* Nothing is applied and the shop stays, or is that of a later round.
LEMMA SalesStay ==
  ASSUME BaseInv, LogInv, SalesOK, [Next]_vars, applied' = applied, slow => slow',
         shop' = shop \/ shop'.round > shop.round
  PROVE  SalesOK'
<1> SUFFICES ASSUME ~slow' PROVE SalesOK'
  BY DEF SalesOK, SaleInv, OfferSoldOnce
<1>1. \A i \in DOMAIN applied : applied[i] # "charge" =>
         /\ applied[i] \in Ids /\ WellFormed(sent[applied[i]])
         /\ sent[applied[i]] \in SentOnes
         /\ sent'[applied[i]] = sent[applied[i]]
  BY SentIsKept DEF SalesOK, SaleInv, BaseInv, TypeInv
<1>2. \A i \in DOMAIN applied : \A op : Did(i, op)' <=> Did(i, op)
  BY <1>1 DEF Did
<1>3. DOMAIN applied = 1..Len(applied) /\ Len(applied) \in Nat /\ shop.round \in Nat
      /\ shop'.round \in Nat
  <2>1. shop \in Shops /\ shop' \in Shops
    BY StepKeepsBase DEF BaseInv, TypeInv
  <2>2. QED
    BY <2>1, RosterAssumption DEF LogInv, Shops
<1>4. \A i \in DOMAIN applied :
         RefreshedIn(i + 1, Len(applied)) => RefreshedIn(i + 1, Len(applied))'
  BY <1>2, <1>3 DEF RefreshedIn
<1>5. SaleInv'
  <2> SUFFICES ASSUME NEW i \in DOMAIN applied, applied[i] # "charge"
               PROVE  /\ sent[applied[i]].op # "place" => sent[applied[i]].round <= shop'.round
                      /\ sent[applied[i]].op = "buy" /\ sent[applied[i]].round = shop'.round =>
                            \/ shop'.offers[sent[applied[i]].x] = Nil
                            \/ RefreshedIn(i + 1, Len(applied))'
    BY <1>1 DEF SaleInv, Did
  <2>1. sent[applied[i]].round \in Nat
    BY <1>1, RosterAssumption DEF SentOnes
  <2>2. sent[applied[i]].op # "place" => sent[applied[i]].round <= shop.round
    BY DEF SalesOK, SaleInv
  <2>3. CASE shop' = shop
    BY <1>4, <2>2, <2>3 DEF SalesOK, SaleInv, Did
  <2>4. CASE shop'.round > shop.round
    BY <1>3, <2>1, <2>2, <2>4
  <2>5. QED
    BY <2>3, <2>4
<1>6. OfferSoldOnce'
  <2> SUFFICES ASSUME NEW i \in DOMAIN applied, NEW j \in DOMAIN applied, i < j,
                      "charge" \notin {applied[i], applied[j]},
                      sent'[applied[i]].op = "buy", sent'[applied[j]].op = "buy",
                      sent'[applied[i]].x = sent'[applied[j]].x,
                      sent'[applied[i]].round = sent'[applied[j]].round
               PROVE  \E k \in i + 1 .. j - 1 :
                         applied[k] # "charge" /\ sent'[applied[k]].op = "refresh"
    BY DEF OfferSoldOnce
  <2>1. sent'[applied[i]] = sent[applied[i]] /\ sent'[applied[j]] = sent[applied[j]]
    BY <1>1
  <2>2. OfferSoldOnce
    BY DEF SalesOK
  <2>3. PICK k \in i + 1 .. j - 1 :
           applied[k] # "charge" /\ sent[applied[k]].op = "refresh"
    BY <2>1, <2>2 DEF OfferSoldOnce
  <2>4. k \in DOMAIN applied
    BY <1>3
  <2>5. sent'[applied[k]] = sent[applied[k]]
    BY <1>1, <2>3, <2>4
  <2>6. QED
    BY <2>3, <2>5
<1>7. QED
  BY <1>5, <1>6 DEF SalesOK

\* One more entry.
LEMMA SalesGrow ==
  ASSUME BaseInv, LogInv, SalesOK, [Next]_vars, slow => slow',
         NEW a \in Ids \union {"charge"}, applied' = Append(applied, a),
         shop'.round = shop.round,
         a # "charge" => /\ WellFormed(sent[a])
                         /\ sent[a].op # "place" => sent[a].round = shop.round,
         ~slow' /\ a # "charge" /\ sent[a].op = "buy" =>
             shop.offers[sent[a].x] # Nil /\ shop'.offers[sent[a].x] = Nil,
         ~slow' => \/ a # "charge" /\ sent[a].op = "refresh"
                   \/ \A x \in 1..ShopSize : shop.offers[x] = Nil => shop'.offers[x] = Nil
  PROVE  SalesOK'
<1> SUFFICES ASSUME ~slow' PROVE SalesOK'
  BY DEF SalesOK, SaleInv, OfferSoldOnce
<1>0. PICK N \in Nat : N = Len(applied)
  BY DEF LogInv
<1>1. /\ N \in Nat /\ DOMAIN applied = 1..N /\ DOMAIN applied' = 1..(N + 1)
      /\ Len(applied') = N + 1 /\ applied'[N + 1] = a
      /\ \A i \in 1..N : applied'[i] = applied[i]
  BY <1>0 DEF LogInv
<1>2. shop.round \in Nat
  BY RosterAssumption DEF BaseInv, TypeInv, Shops
<1>3. \A i \in 1..N : applied[i] # "charge" =>
         /\ applied[i] \in Ids /\ WellFormed(sent[applied[i]])
         /\ sent'[applied[i]] = sent[applied[i]]
  BY <1>1, SentIsKept DEF SalesOK, SaleInv
<1>4. a # "charge" => sent'[a] = sent[a]
  BY SentIsKept
<1>5. \A i \in 1..N : \A op : Did(i, op)' <=> Did(i, op)
  BY <1>1, <1>3 DEF Did
<1>6. \A op : Did(N + 1, op)' <=> a # "charge" /\ sent[a].op = op
  BY <1>1, <1>4 DEF Did
<1>7. \A i \in 1..N : RefreshedIn(i + 1, N) => RefreshedIn(i + 1, N + 1)'
  BY <1>1, <1>5 DEF RefreshedIn
<1>8. a # "charge" /\ sent[a].op = "refresh" => \A i \in 1..N : RefreshedIn(i + 1, N + 1)'
  BY <1>1, <1>6 DEF RefreshedIn
<1>9. ASSUME NEW i \in 1..N, Did(i, "buy"), sent[applied[i]].round = shop.round
      PROVE  shop.offers[sent[applied[i]].x] = Nil \/ RefreshedIn(i + 1, N)
  BY <1>0, <1>1, <1>9 DEF SalesOK, SaleInv
<1>10. SaleInv'
  <2> SUFFICES ASSUME NEW i \in 1..(N + 1)
               PROVE  /\ applied'[i] # "charge" =>
                           /\ applied'[i] \in Ids /\ WellFormed(sent'[applied'[i]])
                           /\ sent'[applied'[i]].op # "place" =>
                                  sent'[applied'[i]].round <= shop'.round
                      /\ Did(i, "buy")' /\ sent'[applied'[i]].round = shop'.round =>
                           \/ shop'.offers[sent'[applied'[i]].x] = Nil
                           \/ RefreshedIn(i + 1, N + 1)'
    BY <1>1 DEF SaleInv
  <2>1. CASE i = N + 1
    BY <1>1, <1>2, <1>4, <1>6, <2>1
  <2>2. CASE i \in 1..N
    <3>1. applied'[i] = applied[i] /\ (Did(i, "buy")' <=> Did(i, "buy"))
      BY <1>1, <1>5, <2>2
    <3>2. applied[i] # "charge" =>
            /\ applied[i] \in Ids /\ WellFormed(sent[applied[i]])
            /\ sent'[applied[i]] = sent[applied[i]]
            /\ sent[applied[i]].op # "place" => sent[applied[i]].round <= shop.round
      BY <1>1, <1>3, <2>2 DEF SalesOK, SaleInv
    <3>3. ASSUME Did(i, "buy"), sent[applied[i]].round = shop.round
          PROVE  \/ shop'.offers[sent[applied[i]].x] = Nil
                 \/ RefreshedIn(i + 1, N + 1)'
      <4>1. sent[applied[i]].x \in 1..ShopSize
        BY <3>2, <3>3 DEF Did, WellFormed
      <4>2. QED
        BY <1>7, <1>8, <1>9, <2>2, <3>3, <4>1
    <3>4. QED
      BY <3>1, <3>2, <3>3 DEF Did
  <2>3. QED
    BY <1>1, <2>1, <2>2
<1>11. OfferSoldOnce'
  <2> SUFFICES ASSUME NEW i \in 1..(N + 1), NEW j \in 1..(N + 1), i < j,
                      Did(i, "buy")', Did(j, "buy")',
                      sent'[applied'[i]].x = sent'[applied'[j]].x,
                      sent'[applied'[i]].round = sent'[applied'[j]].round
               PROVE  \E k \in i + 1 .. j - 1 : Did(k, "refresh")'
    <3> SUFFICES ASSUME NEW i \in 1..(N + 1), NEW j \in 1..(N + 1), i < j,
                        "charge" \notin {applied'[i], applied'[j]},
                        sent'[applied'[i]].op = "buy", sent'[applied'[j]].op = "buy",
                        sent'[applied'[i]].x = sent'[applied'[j]].x,
                        sent'[applied'[i]].round = sent'[applied'[j]].round
                 PROVE  \E k \in i + 1 .. j - 1 :
                           applied'[k] # "charge" /\ sent'[applied'[k]].op = "refresh"
      BY <1>1 DEF OfferSoldOnce
    <3>1. Did(i, "buy")' /\ Did(j, "buy")'
      BY DEF Did
    <3>2. PICK k \in i + 1 .. j - 1 : Did(k, "refresh")'
      BY <3>1
    <3>3. QED
      BY <3>2 DEF Did
  <2>1. i \in 1..N /\ Did(i, "buy") /\ applied'[i] = applied[i]
        /\ sent'[applied[i]] = sent[applied[i]]
    BY <1>1, <1>3, <1>5 DEF Did
  <2>2. CASE j = N + 1
    <3>1. applied'[j] = a /\ a # "charge" /\ sent[a].op = "buy" /\ sent'[a] = sent[a]
      BY <1>1, <1>4, <1>6, <2>2
    <3>2. sent[applied[i]].round = shop.round /\ shop.offers[sent[applied[i]].x] # Nil
      BY <2>1, <3>1
    <3>3. RefreshedIn(i + 1, N)
      BY <1>9, <2>1, <3>2
    <3>4. PICK k \in i + 1 .. N : Did(k, "refresh")
      BY <3>3 DEF RefreshedIn
    <3>5. k \in 1..N /\ k \in i + 1 .. j - 1
      BY <1>1, <2>2
    <3>6. QED
      BY <1>5, <3>4, <3>5
  <2>3. CASE j \in 1..N
    <3>1. Did(j, "buy") /\ applied'[j] = applied[j] /\ sent'[applied[j]] = sent[applied[j]]
      BY <1>1, <1>3, <1>5, <2>3 DEF Did
    <3>2. \E k \in i + 1 .. j - 1 : Did(k, "refresh")
      BY <1>1, <2>1, <2>3, <3>1 DEF SalesOK, OfferSoldOnce, Did
    <3>3. \A k \in i + 1 .. j - 1 : k \in 1..N
      BY <1>1, <2>3
    <3>4. QED
      BY <1>5, <3>2, <3>3
  <2>4. QED
    BY <1>1, <2>2, <2>3
<1>12. QED
  BY <1>10, <1>11 DEF SalesOK

\* What an action does to the offers.
OffersOK(req, sh, after) ==
    /\ req.op = "buy" => /\ sh.offers[req.x] # Nil /\ after.offers[req.x] = Nil
                         /\ \A i \in 1..ShopSize : sh.offers[i] = Nil => after.offers[i] = Nil
    /\ req.op \in {"sell", "fuse", "fuseKind", "place"} => after = sh

LEMMA OffersAfter ==
  ASSUME NEW id, NEW req, WellFormed(req), NEW p, NEW sh \in Shops,
         NEW e \in Effects(id, req, p, sh)
  PROVE  OffersOK(req, sh, e.shop)
<1>1. ASSUME req.op = "buy"
      PROVE  /\ sh.offers[req.x] # Nil /\ e.shop.offers[req.x] = Nil
             /\ \A i \in 1..ShopSize : sh.offers[i] = Nil => e.shop.offers[i] = Nil
  <2>1. e \in Buy(id, req.x, p, sh) /\ req.x \in 1..ShopSize
    BY <1>1 DEF Effects, WellFormed
  <2>2. sh.offers[req.x] # Nil
    BY <2>1 DEF Buy
  <2>3. e.shop = [sh EXCEPT !.offers[req.x] = Nil]
    <3> DEFINE k == sh.offers[req.x]
    <3>1. PICK s \in FreeBench(p) :
            e = [player |-> [p EXCEPT !.gold = @ - Cost[k],
                                      !.slots[s] = Unit(id, k, 0, Cost[k])],
                 shop   |-> Sold(sh, req.x)]
      BY <2>1 DEF Buy
    <3>2. QED
      BY <3>1 DEF Sold
  <2>4. e.shop.offers = [sh.offers EXCEPT ![req.x] = Nil]
    BY <2>3 DEF Shops
  <2>5. sh.offers \in [1..ShopSize -> Kinds \union {Nil}]
    BY DEF Shops
  <2>6. QED
    BY <2>1, <2>2, <2>4, <2>5
<1>2. ASSUME req.op = "sell" PROVE e.shop = sh
  <2>1. e \in Sell(req.x, p, sh)
    BY <1>2 DEF Effects
  <2>2. QED
    BY <2>1 DEF Sell
<1>3. ASSUME req.op = "fuse" PROVE e.shop = sh
  <2>1. e \in Fuse(req.x, req.y, p, sh)
    BY <1>3 DEF Effects
  <2>2. e \in FuseInto(req.y, req.x, p, sh)
    BY <2>1 DEF Fuse
  <2>3. QED
    BY <2>2 DEF FuseInto
<1>4. ASSUME req.op = "fuseKind" PROVE e.shop = sh
  <2>1. e \in FuseKind(req.x, p, sh)
    BY <1>4 DEF Effects
  <2>2. PICK x \in Slots \X Slots : e \in FuseInto(x[1], x[2], p, sh)
    BY <2>1 DEF FuseKind
  <2>3. QED
    BY <2>2 DEF FuseInto
<1>5. ASSUME req.op = "place" PROVE e.shop = sh
  <2>1. e \in Place(req.x, req.y, p, sh)
    BY <1>5 DEF Effects
  <2>2. QED
    BY <2>1 DEF Place
<1>6. QED
  BY <1>1, <1>2, <1>3, <1>4, <1>5 DEF OffersOK

LEMMA SalesStep ==
  ASSUME BaseInv, LogInv, SerialInv, SalesOK, [Next]_vars
  PROVE  SalesOK'
<1>1. slow => slow'
  BY DEF Next, HandlerStep, Receive, AcquireLock, Busy, CheckLog, ReadRuntime,
     ReadShop, Persist, UpdateRow, UpdateRowFails, Unlock, Crash, LockLapse, RoundNext,
     EndPlanning, ChargeRead, ChargeFlip, ChargePersist, ChargeCommit, Advance, RollOffers,
     vars, tailVars
<1>2. CASE UNCHANGED <<applied, shop>>
  BY <1>1, <1>2, SalesStay
<1>3. ASSUME NEW x \in Handlers, Commits(x), sent' = sent, slow' = slow PROVE SalesOK'
  <2> DEFINE a == h[x].id
  <2>1. /\ At(x, "persist") /\ ~At(x, "idle") /\ a \in Ids /\ applied' = Append(applied, a)
        /\ shop' = (IF NeedsShop(a) THEN h[x].shop ELSE shop)
        /\ phase = "shop_place" /\ sent[a].round = round
    BY <1>3 DEF Commits, Planned, StillPlanning, At
  <2>2. WellFormed(sent[a]) /\ shop \in Shops
    BY <2>1, AtWork DEF BaseInv, TypeInv
  <2>3. NeedsShop(a) => sent[a].round = shop.round /\ h[x].shop.round = shop.round
    BY <2>1 DEF BaseInv, CopyInv, ClockInv
  <2>4. shop'.round = shop.round
    BY <2>1, <2>3
  <2>5. sent[a].op # "place" => sent[a].round = shop.round
    BY <2>3 DEF NeedsShop
  <2>6. ASSUME ~slow
        PROVE  /\ sent[a].op = "buy" =>
                    shop.offers[sent[a].x] # Nil /\ shop'.offers[sent[a].x] = Nil
               /\ \/ sent[a].op = "refresh"
                  \/ \A y \in 1..ShopSize : shop.offers[y] = Nil => shop'.offers[y] = Nil
    <3>1. Ready(x)
      BY <1>3, <2>1, <2>6 DEF SerialInv, Current, Commits
    <3>2. PICK e \in Effects(a, sent[a], player, shop) : NeedsShop(a) => h[x].shop = e.shop
      BY <3>1 DEF Ready
    <3>3. NeedsShop(a) => shop' = e.shop
      BY <2>1, <3>2
    <3>4. ~NeedsShop(a) => shop' = shop /\ sent[a].op = "place"
      BY <2>1 DEF NeedsShop
    <3> HIDE DEF a
    <3>5. OffersOK(sent[a], shop, e.shop)
      BY <2>2, <3>2, OffersAfter
    <3>6. CASE sent[a].op = "place"
      <4>1. shop' = shop
        BY <3>4, <3>6 DEF NeedsShop
      <4>2. QED
        BY <3>6, <4>1
    <3>7. CASE sent[a].op # "place"
      <4>1. shop' = e.shop
        BY <3>3, <3>7 DEF NeedsShop
      <4>2. sent[a].op \in {"buy", "refresh", "sell", "fuse", "fuseKind"}
        BY <2>2, <3>7 DEF WellFormed
      <4>3. QED
        BY <3>5, <4>1, <4>2 DEF OffersOK
    <3>8. QED
      BY <3>6, <3>7
  <2> HIDE DEF a
  <2>7. PICK b \in Ids : b = a
    BY <2>1
  <2>8. applied' = Append(applied, b) /\ WellFormed(sent[b])
        /\ (sent[b].op # "place" => sent[b].round = shop.round)
    BY <2>1, <2>2, <2>5, <2>7
  <2>9. ~slow' => /\ sent[b].op = "buy" =>
                       shop.offers[sent[b].x] # Nil /\ shop'.offers[sent[b].x] = Nil
                  /\ \/ sent[b].op = "refresh"
                     \/ \A y \in 1..ShopSize : shop.offers[y] = Nil => shop'.offers[y] = Nil
    BY <1>1, <2>6, <2>7
  <2>10. b # "charge"
    BY RosterAssumption
  <2>11. QED
    BY <1>1, <2>4, <2>8, <2>9, <2>10, SalesGrow
<1>4. CASE ChargeCommit
  <2>1. applied' = Append(applied, "charge") /\ shop' = shop
    BY <1>4 DEF ChargeCommit
  <2>2. QED
    BY <1>1, <2>1, SalesGrow
<1>5. CASE RollOffers
  <2>1. applied' = applied /\ shop' = ShopOf(round, 0) /\ charge.pc = "roll"
    BY <1>5 DEF RollOffers
  <2>2. shop'.round = round /\ shop.round = round - 1 /\ round \in Nat
    BY <2>1, ShopShape DEF BaseInv, ClockInv, TypeInv
  <2>3. shop'.round > shop.round
    BY <2>2
  <2>4. QED
    BY <1>1, <2>1, <2>3, SalesStay
<1>6. ASSUME NEW x \in Handlers,
             Quiet(x) \/ ReadRuntime(x) \/ ReadShop(x) \/ UpdateRow(x)
      PROVE  UNCHANGED <<applied, shop>>
  BY <1>6, QuietShape, ReadRuntimeShape, ReadShopShape, UpdateRowShape DEF Kin
<1>7. ASSUME NEW x \in Handlers, Persist(x) PROVE SalesOK'
  <2>1. (Commits(x) \/ UNCHANGED Kin) /\ sent' = sent /\ slow' = slow
    BY <1>7, PersistShape
  <2>2. QED
    BY <1>2, <1>3, <2>1 DEF Kin
<1>8. CASE LockLapse \/ UNCHANGED vars
  BY <1>2, <1>8 DEF LockLapse, vars
<1>9. CASE RoundNext
  BY <1>2, <1>4, <1>5, <1>9 DEF RoundNext, EndPlanning, ChargeRead, ChargeFlip,
                                ChargePersist, Advance
<1>10. QED
  BY <1>2, <1>6, <1>7, <1>8, <1>9, StepCases

(* An offer of a shop is bought once: between two purchases of the same    *)
(* offer in one round the shop was refreshed.                              *)
THEOREM OffersAreSoldOnce == Spec => []OfferSoldOnce
<1>1. Init => LogInv /\ SalesOK
  BY DEF Init, LogInv, AppliedOnce, SalesOK, SaleInv, OfferSoldOnce
<1>2. LogInv /\ BaseInv /\ [Next]_vars => LogInv'
  BY LogStep
<1>3. SalesOK /\ SerialInv /\ LogInv /\ BaseInv /\ [Next]_vars => SalesOK'
  BY SalesStep
<1>4. SalesOK => OfferSoldOnce
  BY DEF SalesOK
<1>5. QED
  BY SerialHolds, <1>1, <1>2, <1>3, <1>4, PTL DEF Spec
-----------------------------------------------------------------------------
(* Gold: no action makes or loses any.  What the sum over the slots is     *)
(* after one of them changed is shown by minima: of the sets of slots      *)
(* whose sums disagree, take a smallest.                                   *)

Less == {p \in Nat \X Nat : p[1] < p[2]}

LEMMA LessIsWellFounded == IsWellFoundedOn(Less, Nat)
  BY NatLessThanWellFounded DEF Less, OpToRel

\* Every non-empty set of naturals has a least member.
LEMMA LeastOf ==
  ASSUME NEW T \in SUBSET Nat, T # {}
  PROVE  \E m \in T : \A k \in T : m <= k
<1>1. PICK m \in T : \A k \in T : <<k, m>> \notin Less
  BY LessIsWellFounded, WFMin
<1>2. SUFFICES ASSUME NEW k \in T PROVE m <= k
  BY <1>1
<1>3. <<k, m>> \in Nat \X Nat /\ <<k, m>>[1] = k /\ <<k, m>>[2] = m
  OBVIOUS
<1>4. ~(k < m)
  BY <1>1, <1>3 DEF Less
<1>5. QED
  BY <1>4

\* The slot a fold takes out of a set of them.
Drawn(S) == CHOOSE s \in S : TRUE

\* A set without that slot is smaller.
LEMMA WithoutDrawn ==
  ASSUME NEW S \in SUBSET Slots
  PROVE  /\ IsFiniteSet(S) /\ Cardinality(S) \in Nat
         /\ S # {} => /\ Drawn(S) \in S /\ S \ {Drawn(S)} \in SUBSET Slots
                      /\ Cardinality(S \ {Drawn(S)}) = Cardinality(S) - 1
                      /\ Cardinality(S) > 0
<1>1. IsFiniteSet(Board) /\ IsFiniteSet(Bench)
  BY RosterAssumption, FS_Interval DEF Board, Bench
<1>2. IsFiniteSet(Slots)
  BY <1>1, FS_Union DEF Slots
<1>3. IsFiniteSet(S) /\ Cardinality(S) \in Nat
  BY <1>2, FS_Subset, FS_CardinalityType
<1>4. ASSUME S # {}
      PROVE  /\ Drawn(S) \in S /\ S \ {Drawn(S)} \in SUBSET Slots
             /\ Cardinality(S \ {Drawn(S)}) = Cardinality(S) - 1
             /\ Cardinality(S) > 0
  <2>1. Drawn(S) \in S
    BY <1>4 DEF Drawn
  <2>2. Cardinality(S \ {Drawn(S)}) = Cardinality(S) - 1
    BY <1>3, <2>1, FS_RemoveElement
  <2>3. Cardinality(S) # 0
    BY <1>3, <1>4, FS_EmptySet
  <2>4. QED
    BY <1>3, <2>1, <2>2, <2>3
<1>5. QED
  BY <1>3, <1>4

\* The same of all sets at once.
LEMMA Smaller ==
  /\ \A S \in SUBSET Slots : Cardinality(S) \in Nat
  /\ \A S \in SUBSET Slots : S # {} =>
        /\ Drawn(S) \in S /\ S \ {Drawn(S)} \in SUBSET Slots
        /\ Cardinality(S \ {Drawn(S)}) = Cardinality(S) - 1 /\ Cardinality(S) > 0
  BY WithoutDrawn

\* The sums of p's slots, for the sets in Ss.
SumsOver(f, p, Ss) ==
    f = [S \in Ss |-> IF S = {} THEN 0 ELSE f[S \ {Drawn(S)}] + Worth(p, Drawn(S))]

LEMMA InvestedIs ==
  ASSUME NEW p
  PROVE  Invested(p) = (CHOOSE f : SumsOver(f, p, SUBSET Slots))[Slots]
  BY DEF Invested, FoldSet, MapThenFoldSet, SumsOver, Drawn

\* The sets of at most n slots.
UpTo(n) == {S \in SUBSET Slots : Cardinality(S) <= n}

LEMMA SumsExist ==
  ASSUME NEW p
  PROVE  \E f : SumsOver(f, p, SUBSET Slots)
<1> DEFINE T == {n \in Nat : ~\E f : SumsOver(f, p, UpTo(n))}
<1>1. T = {}
  <2>1. SUFFICES ASSUME T # {} PROVE FALSE
    OBVIOUS
  <2>2. PICK n \in T : \A k \in T : n <= k
    BY <2>1, LeastOf
  <2>3. n \in Nat /\ ~\E f : SumsOver(f, p, UpTo(n))
    OBVIOUS
  <2>4. CASE n = 0
    <3> DEFINE f == [S \in UpTo(n) |-> 0]
    <3>1. \A S \in UpTo(n) : S = {}
      <4>1. SUFFICES ASSUME NEW S \in UpTo(n), S # {} PROVE FALSE
        OBVIOUS
      <4>2. S \in SUBSET Slots /\ Cardinality(S) <= 0
        BY <2>4 DEF UpTo
      <4>3. Cardinality(S) \in Nat /\ Cardinality(S) > 0
        BY <4>1, <4>2, Smaller
      <4>4. QED
        BY <4>2, <4>3
    <3>2. f = [S \in UpTo(n) |-> IF S = {} THEN 0 ELSE f[S \ {Drawn(S)}] + Worth(p, Drawn(S))]
      BY <3>1
    <3>3. QED
      BY <2>3, <3>2 DEF SumsOver
  <2>5. CASE n > 0
    <3>1. n - 1 \in Nat /\ n - 1 \notin T
      BY <2>2, <2>3, <2>5
    <3>2. PICK a : SumsOver(a, p, UpTo(n - 1))
      BY <3>1
    <3> DEFINE Next1(S) == IF S = {} THEN 0 ELSE a[S \ {Drawn(S)}] + Worth(p, Drawn(S))
               f == [S \in UpTo(n) |-> Next1(S)]
    <3>3. \A S \in UpTo(n - 1) : a[S] = Next1(S)
      BY <3>2 DEF SumsOver
    <3>4. UpTo(n - 1) \subseteq UpTo(n)
      <4>1. SUFFICES ASSUME NEW S \in UpTo(n - 1) PROVE S \in UpTo(n)
        OBVIOUS
      <4>2. S \in SUBSET Slots /\ Cardinality(S) <= n - 1
        BY DEF UpTo
      <4>3. Cardinality(S) \in Nat
        BY <4>2, Smaller
      <4>4. Cardinality(S) <= n
        BY <2>3, <4>2, <4>3
      <4>5. QED
        BY <4>2, <4>4 DEF UpTo
    <3>5. \A S \in UpTo(n - 1) : f[S] = a[S]
      BY <3>3, <3>4
    <3>6. \A S \in UpTo(n) : S # {} => S \ {Drawn(S)} \in UpTo(n - 1)
      <4>1. SUFFICES ASSUME NEW S \in UpTo(n), S # {} PROVE S \ {Drawn(S)} \in UpTo(n - 1)
        OBVIOUS
      <4>2. S \in SUBSET Slots /\ Cardinality(S) <= n
        BY DEF UpTo
      <4>3. /\ S \ {Drawn(S)} \in SUBSET Slots /\ Cardinality(S) \in Nat
            /\ Cardinality(S \ {Drawn(S)}) = Cardinality(S) - 1
        BY <4>1, <4>2, Smaller
      <4>4. Cardinality(S \ {Drawn(S)}) <= n - 1
        BY <2>3, <4>2, <4>3
      <4>5. QED
        BY <4>3, <4>4 DEF UpTo
    <3>7. \A S \in UpTo(n) :
            Next1(S) = IF S = {} THEN 0 ELSE f[S \ {Drawn(S)}] + Worth(p, Drawn(S))
      BY <3>5, <3>6
    <3>8. f = [S \in UpTo(n) |-> Next1(S)]
      OBVIOUS
    <3> HIDE DEF f, Next1
    <3>9. f = [S \in UpTo(n) |-> IF S = {} THEN 0 ELSE f[S \ {Drawn(S)}] + Worth(p, Drawn(S))]
      BY <3>7, <3>8
    <3>10. QED
      BY <2>3, <3>9 DEF SumsOver
  <2>6. QED
    BY <2>3, <2>4, <2>5
<1>2. PICK n \in Nat : n = Cardinality(Slots)
  BY Smaller
<1>3. UpTo(n) = SUBSET Slots
  <2>1. \A S \in SUBSET Slots : Cardinality(S) <= Cardinality(Slots)
    BY WithoutDrawn, FS_Subset
  <2>2. QED
    BY <1>2, <2>1 DEF UpTo
<1>4. \E f : SumsOver(f, p, UpTo(n))
  BY <1>1
<1>5. QED
  BY <1>3, <1>4, Zenon

LEMMA InvestedSums ==
  ASSUME NEW p
  PROVE  \E f : SumsOver(f, p, SUBSET Slots) /\ Invested(p) = f[Slots]
<1> DEFINE f == CHOOSE x : SumsOver(x, p, SUBSET Slots)
<1>1. SumsOver(f, p, SUBSET Slots)
  BY SumsExist, Zenon
<1>2. QED
  BY <1>1, InvestedIs, Zenon

\* What a set of slots in which p and q differ in s at most is worth.
SumsAgree(p, q, f, g, s, S) ==
    /\ f[S] \in Nat /\ g[S] \in Nat
    /\ s \in S => g[S] + Worth(p, s) = f[S] + Worth(q, s)
    /\ s \notin S => g[S] = f[S]

LEMMA SumsDiffer ==
  ASSUME NEW p, NEW q, NEW f, NEW g, NEW s \in Slots,
         \A t \in Slots : Worth(p, t) \in Nat /\ Worth(q, t) \in Nat,
         \A t \in Slots \ {s} : Worth(q, t) = Worth(p, t),
         SumsOver(f, p, SUBSET Slots), SumsOver(g, q, SUBSET Slots)
  PROVE  \A S \in SUBSET Slots : SumsAgree(p, q, f, g, s, S)
<1> USE DEF SumsAgree
<1> DEFINE Fine(S) == SumsAgree(p, q, f, g, s, S)
           T == {Cardinality(S) : S \in {U \in SUBSET Slots : ~Fine(U)}}
<1>1. SUFFICES ASSUME NEW U \in SUBSET Slots, ~Fine(U) PROVE FALSE
  OBVIOUS
<1>2. T \in SUBSET Nat /\ T # {}
  BY <1>1, Smaller
<1>3. PICK S \in SUBSET Slots :
         ~Fine(S) /\ \A V \in SUBSET Slots : ~Fine(V) => Cardinality(S) <= Cardinality(V)
  <2>1. PICK n \in T : \A k \in T : n <= k
    BY <1>2, LeastOf
  <2>2. QED
    BY <2>1
<1>4. /\ f[S] = IF S = {} THEN 0 ELSE f[S \ {Drawn(S)}] + Worth(p, Drawn(S))
      /\ g[S] = IF S = {} THEN 0 ELSE g[S \ {Drawn(S)}] + Worth(q, Drawn(S))
  BY DEF SumsOver
<1>5. S # {}
  BY <1>3, <1>4
<1>6. PICK d \in S : d = Drawn(S)
  BY <1>5, Smaller
<1>7. Fine(S \ {d})
  <2>1. S \ {d} \in SUBSET Slots /\ Cardinality(S \ {d}) = Cardinality(S) - 1
        /\ Cardinality(S) \in Nat
    BY <1>5, <1>6, Smaller
  <2>2. ~(Cardinality(S) <= Cardinality(S \ {d}))
    BY <2>1
  <2>3. QED
    BY <1>3, <2>1, <2>2
<1>8. f[S] = f[S \ {d}] + Worth(p, d) /\ g[S] = g[S \ {d}] + Worth(q, d)
  BY <1>4, <1>5, <1>6
<1>9. d \in Slots /\ Worth(p, d) \in Nat /\ Worth(q, d) \in Nat
  OBVIOUS
<1>10. CASE d = s
  BY <1>3, <1>6, <1>7, <1>8, <1>9, <1>10
<1>11. CASE d # s
  <2>1. Worth(q, d) = Worth(p, d) /\ (s \in S <=> s \in S \ {d})
    BY <1>9, <1>11
  <2>2. Worth(p, s) \in Nat /\ Worth(q, s) \in Nat
    OBVIOUS
  <2>3. QED
    BY <1>3, <1>7, <1>8, <1>9, <2>1, <2>2
<1>12. QED
  BY <1>10, <1>11

LEMMA WorthIs ==
  ASSUME NEW p \in Players
  PROVE  \A s \in Slots : Worth(p, s) \in Nat
  BY DEF Worth, Players, Units

\* A change of one slot.
LEMMA OneSlot ==
  ASSUME NEW p \in Players, NEW q \in Players, NEW s \in Slots,
         \A t \in Slots \ {s} : q.slots[t] = p.slots[t]
  PROVE  /\ Invested(p) \in Nat /\ Invested(q) \in Nat
         /\ Invested(q) + Worth(p, s) = Invested(p) + Worth(q, s)
<1>1. \A t \in Slots : Worth(p, t) \in Nat /\ Worth(q, t) \in Nat
  BY WorthIs
<1>2. \A t \in Slots \ {s} : Worth(q, t) = Worth(p, t)
  BY DEF Worth
<1>3. PICK f : SumsOver(f, p, SUBSET Slots) /\ Invested(p) = f[Slots]
  BY InvestedSums
<1>4. PICK g : SumsOver(g, q, SUBSET Slots) /\ Invested(q) = g[Slots]
  BY InvestedSums
<1>5. SumsOver(f, p, SUBSET Slots) /\ SumsOver(g, q, SUBSET Slots)
  BY <1>3, <1>4
<1>6. \A S \in SUBSET Slots : SumsAgree(p, q, f, g, s, S)
  BY <1>1, <1>2, <1>5, SumsDiffer, Zenon
<1>7. SumsAgree(p, q, f, g, s, Slots)
  BY <1>6
<1>8. QED
  BY <1>3, <1>4, <1>7 DEF SumsAgree

\* Nothing is invested in empty slots.
LEMMA NothingInvested == Invested(NewPlayer) = 0
<1>1. PICK f : SumsOver(f, NewPlayer, SUBSET Slots) /\ Invested(NewPlayer) = f[Slots]
  BY InvestedSums
<1>2. \A s \in Slots : Worth(NewPlayer, s) = 0
  BY DEF Worth, NewPlayer
<1> DEFINE T == {Cardinality(S) : S \in {U \in SUBSET Slots : f[U] # 0}}
<1>3. SUFFICES ASSUME f[Slots] # 0 PROVE FALSE
  BY <1>1
<1>4. T \in SUBSET Nat /\ T # {}
  BY <1>3, Smaller
<1>5. PICK S \in SUBSET Slots :
         f[S] # 0 /\ \A V \in SUBSET Slots : f[V] # 0 => Cardinality(S) <= Cardinality(V)
  <2>1. PICK n \in T : \A k \in T : n <= k
    BY <1>4, LeastOf
  <2>2. QED
    BY <2>1
<1>6. f[S] = IF S = {} THEN 0 ELSE f[S \ {Drawn(S)}] + Worth(NewPlayer, Drawn(S))
  BY <1>1 DEF SumsOver
<1>7. S # {}
  BY <1>5, <1>6
<1>8. /\ Drawn(S) \in Slots /\ S \ {Drawn(S)} \in SUBSET Slots
      /\ Cardinality(S \ {Drawn(S)}) = Cardinality(S) - 1 /\ Cardinality(S) \in Nat
  BY <1>7, Smaller
<1>9. f[S \ {Drawn(S)}] = 0
  BY <1>5, <1>8
<1>10. QED
  BY <1>2, <1>5, <1>6, <1>7, <1>8, <1>9
\* What a player has, and what he got.
Owns(p)  == p.gold + Invested(p)
Balanced(p) == Owns(p) = StartGold + RoundGold * p.charges

LEMMA BuyBalances ==
  ASSUME NEW id \in Ids, NEW i \in 1..ShopSize, NEW p \in Players, NEW sh \in Shops,
         NEW e \in Buy(id, i, p, sh)
  PROVE  Owns(e.player) = Owns(p)
<1> DEFINE k == sh.offers[i]
           u == Unit(id, k, 0, Cost[k])
           q == e.player
<1>1. k \in Kinds /\ Cost[k] \in Nat /\ p.gold \in Nat /\ q \in Players
  <2>1. k # Nil
    BY DEF Buy
  <2>2. k \in Kinds
    BY <2>1 DEF Shops
  <2>3. Cost[k] \in Nat
    BY <2>2, RosterAssumption
  <2>4. q \in Players
    BY BuyIsGood DEF Good, Kept
  <2>5. QED
    BY <2>2, <2>3, <2>4 DEF Players
<1>2. PICK s \in FreeBench(p) :
         e = [player |-> [p EXCEPT !.gold = @ - Cost[k], !.slots[s] = u], shop |-> Sold(sh, i)]
  BY DEF Buy
<1>3. s \in Slots /\ p.slots[s] = Nil
  BY DEF FreeBench, Slots
<1>4. u \in Units /\ u.invested = Cost[k] /\ u # Nil
  <2>1. u \in Units /\ u.invested = Cost[k]
    BY <1>1 DEF Unit, Units, MaxStar
  <2>2. QED
    BY <2>1, RosterAssumption DEF Units
<1> HIDE DEF u
<1>5. q = [p EXCEPT !.gold = @ - Cost[k], !.slots[s] = u]
  BY <1>2
<1>6. q.gold = p.gold - Cost[k] /\ \A t \in Slots : q.slots[t] = IF t = s THEN u ELSE p.slots[t]
  BY <1>3, <1>5 DEF Players
<1>7. Worth(p, s) = 0 /\ Worth(q, s) = Cost[k]
  BY <1>3, <1>4, <1>6 DEF Worth
<1>8. /\ Invested(p) \in Nat /\ Invested(q) \in Nat
      /\ Invested(q) + Worth(p, s) = Invested(p) + Worth(q, s)
  BY <1>1, <1>3, <1>6, OneSlot
<1>9. QED
  BY <1>1, <1>6, <1>7, <1>8 DEF Owns

LEMMA SellBalances ==
  ASSUME NEW id \in Ids, NEW s \in Slots, NEW p \in Players, NEW sh \in Shops,
         NEW e \in Sell(s, p, sh)
  PROVE  Owns(e.player) = Owns(p)
<1> DEFINE q == e.player
<1>1. p.slots[s] # Nil /\ q \in Players
  <2>1. p.slots[s] # Nil
    BY DEF Sell
  <2>2. q \in Players
    BY SellIsGood DEF Good, Kept
  <2>3. QED
    BY <2>1, <2>2
<1>2. e = [player |-> [p EXCEPT !.gold = @ + p.slots[s].invested, !.slots[s] = Nil], shop |-> sh]
  BY <1>1 DEF Sell
<1>3. /\ q.gold = p.gold + p.slots[s].invested
      /\ \A t \in Slots : q.slots[t] = IF t = s THEN Nil ELSE p.slots[t]
  BY <1>2 DEF Players
<1>4. Worth(p, s) = p.slots[s].invested /\ Worth(q, s) = 0
  BY <1>1, <1>3 DEF Worth
<1>5. Worth(p, s) \in Nat /\ p.gold \in Nat
  BY WorthIs DEF Players
<1>6. /\ Invested(p) \in Nat /\ Invested(q) \in Nat
      /\ Invested(q) + Worth(p, s) = Invested(p) + Worth(q, s)
  BY <1>1, <1>3, OneSlot
<1>7. QED
  BY <1>3, <1>4, <1>5, <1>6 DEF Owns

\* A unit that takes all that another one is worth into its slot.
LEMMA TwoSlots ==
  ASSUME NEW p \in Players, NEW s \in Slots, NEW t \in Slots \ {s}, NEW u \in Units, u # Nil,
         u.invested = Worth(p, t) + Worth(p, s),
         NEW q \in Players, q.gold = p.gold,
         \A r \in Slots : q.slots[r] = IF r = s THEN Nil ELSE IF r = t THEN u ELSE p.slots[r]
  PROVE  Owns(q) = Owns(p)
<1>1. PICK m \in Players :
         \A r \in Slots : m.slots[r] = IF r = t THEN u ELSE p.slots[r]
  <2>1. [p EXCEPT !.slots[t] = u] \in Players
    BY DEF Players
  <2>2. \A r \in Slots : [p EXCEPT !.slots[t] = u].slots[r] = IF r = t THEN u ELSE p.slots[r]
    BY DEF Players
  <2>3. QED
    BY <2>1, <2>2
<1>2. Worth(m, s) = Worth(p, s) /\ Worth(m, t) = u.invested /\ Worth(q, s) = 0
  BY <1>1 DEF Worth
<1>3. /\ Invested(p) \in Nat /\ Invested(m) \in Nat
      /\ Invested(m) + Worth(p, t) = Invested(p) + Worth(m, t)
  BY <1>1, OneSlot
<1>4. /\ Invested(q) \in Nat
      /\ Invested(q) + Worth(m, s) = Invested(m) + Worth(q, s)
  BY <1>1, OneSlot
<1>5. Worth(p, s) \in Nat /\ Worth(p, t) \in Nat /\ p.gold \in Nat
  BY WorthIs DEF Players
<1>6. QED
  BY <1>2, <1>3, <1>4, <1>5 DEF Owns

LEMMA FuseBalances ==
  ASSUME NEW id \in Ids, NEW s \in Slots, NEW t \in Slots,
         NEW p \in Players, NEW sh \in Shops,
         Fusable(p, s, t), NEW e \in FuseInto(t, s, p, sh)
  PROVE  Owns(e.player) = Owns(p)
<1> DEFINE q == e.player
           u == Merged(p.slots[t], p.slots[s])
<1>1. /\ s # t /\ p.slots[s] \in Units /\ p.slots[t] \in Units
      /\ p.slots[s] # Nil /\ p.slots[t] # Nil /\ p.slots[t].star < MaxStar
  BY DEF Fusable, UnitsIn, Players
<1>2. q \in Players
  BY FuseIsGood DEF Good, Kept
<1>3. u \in Units /\ u # Nil
  <2>1. u \in Units
    BY <1>1, MergedUnit
  <2>2. QED
    BY <2>1, RosterAssumption DEF Units
<1>4. u.invested = Worth(p, t) + Worth(p, s)
  BY <1>1 DEF Merged, Worth, Units
<1> HIDE DEF u
<1>5. e = [player |-> [p EXCEPT !.slots[t] = u, !.slots[s] = Nil], shop |-> sh]
  BY DEF FuseInto, u
<1>6. /\ q.gold = p.gold
      /\ \A r \in Slots : q.slots[r] = IF r = s THEN Nil ELSE IF r = t THEN u ELSE p.slots[r]
  BY <1>1, <1>5 DEF Players
<1>7. QED
  BY <1>1, <1>2, <1>3, <1>4, <1>6, TwoSlots

LEMMA PlaceBalances ==
  ASSUME NEW id \in Ids, NEW own \in Ids, NEW t \in Slots,
         NEW p \in Players, Distinct(p), NEW sh \in Shops, NEW e \in Place(own, t, p, sh)
  PROVE  Owns(e.player) = Owns(p)
<1> DEFINE q == e.player
<1>1. PICK s \in UnitAt(p, own) :
         p.slots[t] \in {Nil, p.slots[s]} /\ e = [player |-> Moved(p, s, t), shop |-> sh]
  BY DEF Place
<1>2. s \in Slots /\ p.slots[s] \in Units /\ p.slots[s] # Nil /\ q \in Players
  BY PlaceIsGood DEF UnitAt, UnitsIn, Players, Kept
<1>3. CASE s = t
  BY <1>1, <1>3 DEF Moved
<1>4. CASE s # t
  <2>1. q = [p EXCEPT !.slots[t] = p.slots[s], !.slots[s] = Nil]
    BY <1>1, <1>4 DEF Moved
  <2>2. /\ q.gold = p.gold
        /\ \A r \in Slots : q.slots[r] = IF r = s THEN Nil
                                         ELSE IF r = t THEN p.slots[s] ELSE p.slots[r]
    BY <1>2, <1>4, <2>1 DEF Players
  <2>3. p.slots[s].invested = Worth(p, s)
    BY <1>2 DEF Worth
  <2>4. CASE p.slots[t] = Nil
    <3>1. p.slots[s].invested = Worth(p, t) + Worth(p, s)
      BY <1>2, <2>3, <2>4 DEF Worth, Units
    <3>2. QED
      BY <1>2, <1>4, <2>2, <3>1, TwoSlots
  <2>5. CASE p.slots[t] = p.slots[s]
    BY <1>2, <1>4, <2>5 DEF Distinct, UnitsIn
  <2>6. QED
    BY <1>1, <2>4, <2>5
<1>5. QED
  BY <1>3, <1>4
\* Whatever a player asks for.
LEMMA EffectBalances ==
  ASSUME NEW id \in Ids, NEW req \in SentOnes, WellFormed(req),
         NEW p \in Players, Distinct(p), Balanced(p), NEW sh \in Shops,
         NEW e \in Effects(id, req, p, sh)
  PROVE  Balanced(e.player)
<1>1. Owns(e.player) = Owns(p)
  <2>1. CASE req.op = "buy"
    BY <2>1, BuyBalances DEF Effects, WellFormed
  <2>2. CASE req.op = "sell"
    BY <2>2, SellBalances DEF Effects, WellFormed
  <2>3. CASE req.op = "refresh"
    BY <2>3 DEF Effects, Refresh
  <2>4. CASE req.op = "fuse"
    <3>1. req.x \in Slots /\ req.y \in Slots /\ e \in Fuse(req.x, req.y, p, sh)
      BY <2>4 DEF Effects, WellFormed
    <3>2. Fusable(p, req.x, req.y) /\ e \in FuseInto(req.y, req.x, p, sh)
      BY <3>1 DEF Fuse
    <3>3. QED
      BY <3>1, <3>2, FuseBalances
  <2>5. CASE req.op = "fuseKind"
    <3>1. PICK x \in Slots \X Slots :
             Fusable(p, x[1], x[2]) /\ e \in FuseInto(x[1], x[2], p, sh)
      BY <2>5 DEF Effects, FuseKind
    <3>2. x[1] \in Slots /\ x[2] \in Slots /\ Fusable(p, x[2], x[1])
      BY <3>1 DEF Fusable
    <3>3. QED
      BY <3>1, <3>2, FuseBalances
  <2>6. CASE req.op = "place"
    BY <2>6, PlaceBalances DEF Effects, WellFormed
  <2>7. QED
    BY <2>1, <2>2, <2>3, <2>4, <2>5, <2>6 DEF WellFormed
<1>2. e.player.charges = p.charges
  BY EffectIsGood DEF Good, Kept
<1>3. QED
  BY <1>1, <1>2 DEF Balanced

\* The income of a round is one more charge.
LEMMA ChargeBalances ==
  ASSUME NEW p \in Players, Balanced(p)
  PROVE  Balanced(Charged(p))
<1> DEFINE q == Charged(p)
<1>1. q \in Players /\ q.slots = p.slots /\ q.charges = p.charges + 1 /\ q.gold = p.gold + RoundGold
  BY ChargedShape DEF Charged, Players
<1>2. PICK s \in Slots : TRUE
  BY RosterAssumption DEF Slots, Board
<1>3. Invested(p) \in Nat /\ Invested(q) \in Nat /\ Worth(p, s) \in Nat /\ Worth(q, s) = Worth(p, s)
      /\ Invested(q) + Worth(p, s) = Invested(p) + Worth(q, s)
  BY <1>1, OneSlot, WorthIs DEF Worth
<1>4. Invested(q) = Invested(p)
  BY <1>3
<1>5. p.gold \in Nat /\ p.charges \in Nat /\ RoundGold \in Nat /\ StartGold \in Nat
  BY RosterAssumption DEF Players
<1>6. RoundGold * (p.charges + 1) = RoundGold * p.charges + RoundGold
      /\ RoundGold * p.charges \in Nat
  BY <1>5
<1> HIDE DEF q
<1>7. q.gold + Invested(q) = StartGold + RoundGold * q.charges
  <2>1. PICK n \in Nat : n = RoundGold * p.charges
    BY <1>6
  <2>2. RoundGold * q.charges = n + RoundGold
    BY <1>1, <1>6, <2>1
  <2>3. p.gold + Invested(p) = StartGold + n
    BY <2>1 DEF Balanced, Owns
  <2>4. QED
    BY <1>1, <1>3, <1>4, <1>5, <2>2, <2>3
<1>8. QED
  BY <1>7 DEF Balanced, Owns, q

\* Every copy that may still be written is balanced.
CopyBalanced(x) == h[x].pc \in {"readShop", "persist"} => Balanced(h[x].player)

GoldInv == Balanced(player) /\ \A x \in Handlers : CopyBalanced(x)

LEMMA OtherBalances ==
  ASSUME GoldInv, NEW x \in Handlers, \A y \in Handlers \ {x} : h'[y] = h[y],
         Balanced(player'), h'[x].pc \in {"readShop", "persist"} => Balanced(h'[x].player)
  PROVE  GoldInv'
<1>1. ASSUME NEW y \in Handlers PROVE CopyBalanced(y)'
  BY DEF GoldInv, CopyBalanced
<1>2. QED
  BY <1>1 DEF GoldInv
LEMMA PreparedGold ==
  ASSUME BaseInv, GoldInv, NEW x \in Handlers, ~At(x, "idle"), NEW p \in Players,
         Distinct(p), Balanced(p), Prepares(x, p), player' = player
  PROVE  GoldInv'
<1>1. PICK e \in Effects(h[x].id, sent[h[x].id], p, shop) :
         Becomes(x, "persist", h[x].id, e.player, e.shop)
  BY DEF Prepares
<1>2. h[x].id \in Ids /\ WellFormed(sent[h[x].id]) /\ sent[h[x].id] \in SentOnes /\ shop \in Shops
  BY AtWork DEF BaseInv, TypeInv
<1>3. Balanced(e.player)
  BY <1>2, EffectBalances
<1>4. h'[x].player = e.player /\ \A y \in Handlers \ {x} : h'[y] = h[y]
  BY <1>1 DEF Becomes
<1>5. Balanced(player')
  BY DEF GoldInv
<1>6. QED
  BY <1>3, <1>4, <1>5, OtherBalances

LEMMA GoldStep ==
  ASSUME BaseInv, UnitInv, GoldInv, [Next]_vars
  PROVE  GoldInv'
<1>0. player \in Players /\ Balanced(player) /\ Distinct(player)
  BY DEF BaseInv, TypeInv, GoldInv, UnitInv
<1>1. ASSUME NEW x \in Handlers, Quiet(x) PROVE GoldInv'
  <2>1. /\ h'[x].pc \in QuietLabels /\ player' = player
        /\ \A y \in Handlers \ {x} : h'[y] = h[y]
    BY <1>1, QuietShape DEF Kin
  <2>2. Balanced(player') /\ ~(h'[x].pc \in {"readShop", "persist"})
    BY <1>0, <2>1 DEF QuietLabels
  <2>3. QED
    BY <2>1, <2>2, OtherBalances
<1>2. ASSUME NEW x \in Handlers, ReadRuntime(x) PROVE GoldInv'
  <2>1. player' = player /\ Balanced(player') /\ ~At(x, "idle")
    BY <1>0, <1>2, ReadRuntimeShape DEF Kin, ReadRuntime, At
  <2>2. CASE Becomes(x, "unlock", h[x].id, h[x].player, h[x].shop)
    BY <2>1, <2>2, OtherBalances DEF Becomes
  <2>3. CASE Becomes(x, "readShop", h[x].id, player, h[x].shop)
    BY <1>0, <2>1, <2>3, OtherBalances DEF Becomes
  <2>4. CASE Prepares(x, player)
    BY <1>0, <2>1, <2>4, PreparedGold
  <2>5. QED
    BY <1>2, <2>2, <2>3, <2>4, ReadRuntimeShape
<1>3. ASSUME NEW x \in Handlers, ReadShop(x) PROVE GoldInv'
  <2>1. player' = player /\ Balanced(player') /\ At(x, "readShop") /\ ~At(x, "idle")
    BY <1>0, <1>3, ReadShopShape DEF Kin, At
  <2>2. CASE Becomes(x, "unlock", h[x].id, h[x].player, h[x].shop)
    BY <2>1, <2>2, OtherBalances DEF Becomes
  <2>3. CASE Prepares(x, h[x].player)
    <3>1. h[x].player \in Players /\ Distinct(h[x].player) /\ Balanced(h[x].player)
      BY <2>1 DEF BaseInv, TypeInv, Works, UnitInv, CopyUnits, GoldInv, CopyBalanced, At
    <3>2. QED
      BY <2>1, <2>3, <3>1, PreparedGold
  <2>4. QED
    BY <1>3, <2>2, <2>3, ReadShopShape
<1>4. ASSUME NEW x \in Handlers, Persist(x) PROVE GoldInv'
  <2>1. CASE Commits(x)
    <3>1. /\ player' = h[x].player /\ Balanced(h[x].player)
          /\ h'[x].pc = "updateRow" /\ \A y \in Handlers \ {x} : h'[y] = h[y]
      BY <2>1 DEF Commits, Becomes, GoldInv, CopyBalanced, At
    <3>2. QED
      BY <3>1, OtherBalances
  <2>2. CASE Becomes(x, "unlock", h[x].id, h[x].player, h[x].shop) /\ UNCHANGED Kin
    <3>1. /\ player' = player /\ h'[x].pc = "unlock"
          /\ \A y \in Handlers \ {x} : h'[y] = h[y]
      BY <2>2 DEF Becomes, Kin
    <3>2. QED
      BY <1>0, <3>1, OtherBalances
  <2>3. QED
    BY <1>4, <2>1, <2>2, PersistShape
<1>5. ASSUME NEW x \in Handlers, UpdateRow(x) PROVE GoldInv'
  <2>1. /\ player' = player /\ h'[x].pc = "unlock"
        /\ \A y \in Handlers \ {x} : h'[y] = h[y]
    BY <1>5, UpdateRowShape DEF Becomes
  <2>2. QED
    BY <1>0, <2>1, OtherBalances
<1>6. CASE LockLapse
  BY <1>6 DEF LockLapse, GoldInv, CopyBalanced
<1>7. CASE RoundNext
  <2>1. h' = h
    BY <1>7 DEF RoundNext, EndPlanning, ChargeRead, ChargeFlip, ChargePersist, ChargeCommit,
                Advance, RollOffers
  <2>2. player' \in {player, Charged(player)}
    BY <1>7 DEF RoundNext, EndPlanning, ChargeRead, ChargeFlip, ChargePersist, ChargeCommit,
                Advance, RollOffers, BaseInv, ClockInv
  <2>3. Balanced(player')
    BY <1>0, <2>2, ChargeBalances
  <2>4. QED
    BY <2>1, <2>3 DEF GoldInv, CopyBalanced
<1>8. CASE UNCHANGED vars
  BY <1>8 DEF vars, GoldInv, CopyBalanced
<1>9. QED
  BY <1>1, <1>2, <1>3, <1>4, <1>5, <1>6, <1>7, <1>8, StepCases

LEMMA GoldInit == Init => GoldInv
<1> SUFFICES ASSUME Init PROVE GoldInv
  OBVIOUS
<1>1. player = NewPlayer /\ \A x \in Handlers : h[x].pc = "idle"
  BY DEF Init, Idle, Working
<1>2. NewPlayer.gold = StartGold /\ NewPlayer.charges = 0 /\ StartGold \in Nat /\ RoundGold \in Nat
  BY RosterAssumption DEF NewPlayer
<1>3. Balanced(NewPlayer)
  BY <1>2, NothingInvested DEF Balanced, Owns
<1>4. QED
  BY <1>1, <1>3 DEF GoldInv, CopyBalanced

(* Gold is never made or lost by shopping, fusing, placing or charging,    *)
(* however often actions are repeated, and even when the lock lapses under *)
(* a handler and it writes an old copy back: every copy accounts for its   *)
(* own gold (shop.service.ts, commitRuntimeAction).                        *)
THEOREM GoldIsConserved == Spec => []GoldConserved
<1>1. BaseInv /\ UnitInv /\ GoldInv /\ [Next]_vars => GoldInv'
  BY GoldStep
<1>2. BaseInv /\ UnitInv /\ [Next]_vars => UnitInv'
  BY UnitStep
<1>3. GoldInv => GoldConserved
  BY DEF GoldInv, GoldConserved, Balanced, Owns
<1>4. QED
  BY UnitInit, GoldInit, BaseHolds, <1>1, <1>2, <1>3, PTL DEF Spec
=============================================================================
