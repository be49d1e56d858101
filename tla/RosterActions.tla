--------------------------- MODULE RosterActions ---------------------------
(***************************************************************************)
(* What one player does to gold, board, bench and shop in the planning     *)
(* phase: shop.service.ts, MatchRuntimeAdapter.place with its player lock  *)
(* and commitRuntimeAction, action_log.lua, and the offers rolled for each *)
(* round.  The two players never touch each other's field, log, lock or    *)
(* shop, so one player is modelled.  A client repeats an action under the  *)
(* same id until it is answered, on any socket, so two handlers may work   *)
(* on one id; each reads the whole player state, changes its copy and      *)
(* writes it back.  The round orchestrator charges the same state; it is   *)
(* reduced here to the steps that touch it (see RoundOrchestrator).        *)
(***************************************************************************)
EXTENDS Naturals, Sequences, FiniteSets, FiniteSetsExt

CONSTANTS
    Handlers,      \* handlers of this player's actions
    Ids,           \* client action ids
    Asked,         \* bound: what the client may ask for under each id
    Cost,          \* UNIT_COST: a function from the kinds of units
    ShopSize,      \* offers in a shop
    Offers,        \* what generateOffers returns for a round and a refresh
    BoardSize, BenchSize,
    StartGold, RoundGold,
    MaxRound,      \* bound: rounds played
    MaxMishaps,    \* bound: crashes, PostgreSQL failures, slow lock holders
    Nil            \* no unit, no offer, no lock owner

Kinds    == DOMAIN Cost
MaxStar  == 2
Board    == 1..BoardSize
Bench    == BoardSize + 1 .. BoardSize + BenchSize
Slots    == Board \union Bench

ASSUME RosterAssumption ==
    /\ BoardSize \in Nat \ {0} /\ BenchSize \in Nat \ {0}
    /\ StartGold \in Nat /\ RoundGold \in Nat
    /\ MaxRound \in Nat \ {0} /\ MaxMishaps \in Nat
    /\ \A k \in Kinds : Cost[k] \in Nat \ {0}
    /\ Nil \notin Kinds \union Handlers /\ "charge" \notin Ids
    /\ Nil \notin [id : Ids, kind : Kinds, star : 0..MaxStar, invested : Nat]
    /\ Offers \in [(1..MaxRound) \X (0..2) -> [1..ShopSize -> Kinds]]

(* What ws.dto.ts lets through to a handler.                               *)
WellFormed(req) ==
    \/ req.op = "buy" /\ req.x \in 1..ShopSize /\ req.y = 0
    \/ req.op = "sell" /\ req.x \in Slots /\ req.y = 0
    \/ req.op = "refresh" /\ req.x = 0 /\ req.y = 0
    \/ req.op = "fuse" /\ req.x \in Slots /\ req.y \in Slots
    \/ req.op = "fuseKind" /\ req.x \in Kinds /\ req.y = 0
    \/ req.op = "place" /\ req.x \in Ids /\ req.y \in Slots

ASSUME AskedAssumption == \A a \in Ids : \A req \in Asked[a] : WellFormed(req)

VARIABLES
    phase, round,  \* of the runtime hash
    player,        \* its field p1State: gold, slots, and charges suffered
    shop,          \* match:<id>:shop:<user>
    log,           \* match:<id>:actionLog:<user>
    lock,          \* match:<id>:shop-lock:<user>
    row,           \* matches.p1State in PostgreSQL
    h,             \* the handlers
    sent,          \* what the client sent under each id, and for which round
    charge,        \* the orchestrator: where it is and what it has read
    mishaps,
    slow, late,    \* a lock lapsed under its holder; a row written too late
    applied        \* history: what was committed to player, in that order

vars == <<phase, round, player, shop, log, lock, row, h, sent, charge,
          mishaps, slow, late, applied>>
roundVars == <<phase, round, charge>>
tailVars  == <<mishaps, slow, late>>

-----------------------------------------------------------------------------
(* Units, shops and what an action makes of them.  Effects are sets: empty *)
(* when the action is refused, else the one result.                        *)

Unit(id, k, star, gold) == [id |-> id, kind |-> k, star |-> star, invested |-> gold]

NewPlayer == [gold |-> StartGold, charges |-> 0, slots |-> [s \in Slots |-> Nil]]

ShopOf(r, n) == [round |-> r, refreshes |-> n, offers |-> Offers[<<r, n>>]]

UnitsIn(p) == {s \in Slots : p.slots[s] # Nil}

\* A slip: the offer that was bought stays on sale.
SoldStays(sh, i) == sh

Sold(sh, i) == [sh EXCEPT !.offers[i] = Nil]

FreeBench(p) == {s \in Bench : p.slots[s] = Nil /\ \A t \in Bench : t < s => p.slots[t] # Nil}

Buy(id, i, p, sh) ==
    LET k == sh.offers[i] IN
    IF k = Nil \/ p.gold < Cost[k] THEN {}
    ELSE {[player |-> [p EXCEPT !.gold = @ - Cost[k], !.slots[s] = Unit(id, k, 0, Cost[k])],
           shop   |-> Sold(sh, i)] : s \in FreeBench(p)}

Sell(s, p, sh) ==
    IF p.slots[s] = Nil THEN {}
    ELSE {[player |-> [p EXCEPT !.gold = @ + p.slots[s].invested, !.slots[s] = Nil],
           shop   |-> sh]}

\* A slip: the free refresh is not marked as used.
MayRefreshAlways(sh) == sh.refreshes < 2

MayRefresh(sh) == sh.refreshes = 0

Refresh(p, sh) ==
    IF ~MayRefresh(sh) THEN {}
    ELSE {[player |-> p, shop |-> ShopOf(sh.round, sh.refreshes + 1)]}

\* A slip: the gold in the unit that is consumed is lost.
MergedForgetful(target, source) == [target EXCEPT !.star = @ + 1]

Merged(target, source) ==
    [target EXCEPT !.star = @ + 1, !.invested = @ + source.invested]

Fusable(p, s, t) ==
    /\ s # t /\ {s, t} \subseteq UnitsIn(p)
    /\ p.slots[s].kind = p.slots[t].kind /\ p.slots[s].star = p.slots[t].star
    /\ p.slots[t].star < MaxStar

FuseInto(t, s, p, sh) ==
    {[player |-> [p EXCEPT !.slots[t] = Merged(p.slots[t], p.slots[s]), !.slots[s] = Nil],
      shop   |-> sh]}

Fuse(source, target, p, sh) ==
    IF Fusable(p, source, target) THEN FuseInto(target, source, p, sh) ELSE {}

(* Without instance ids: the two oldest slots of the lowest star with a    *)
(* pair.                                                                   *)
FuseKind(k, p, sh) ==
    LET pairs == {x \in Slots \X Slots :
                    x[1] < x[2] /\ Fusable(p, x[1], x[2]) /\ p.slots[x[1]].kind = k}
        first(x) == \A y \in pairs :
            \/ p.slots[x[1]].star < p.slots[y[1]].star
            \/ p.slots[x[1]].star = p.slots[y[1]].star /\ x[1] <= y[1] /\ x[2] <= y[2]
    IN  UNION {FuseInto(x[1], x[2], p, sh) : x \in {y \in pairs : first(y)}}

\* A slip: the unit is put into the new slot and stays in the old one.
MovedCopy(p, s, t) == [p EXCEPT !.slots[t] = p.slots[s]]

Moved(p, s, t) == IF s = t THEN p
                  ELSE [p EXCEPT !.slots[t] = p.slots[s], !.slots[s] = Nil]

UnitAt(p, id) == {s \in UnitsIn(p) : p.slots[s].id = id}

Place(id, t, p, sh) ==
    {[player |-> Moved(p, s, t), shop |-> sh] :
        s \in {s \in UnitAt(p, id) : p.slots[t] \in {Nil, p.slots[s]}}}

Effects(id, req, p, sh) ==
    CASE req.op = "buy"      -> Buy(id, req.x, p, sh)
      [] req.op = "sell"     -> Sell(req.x, p, sh)
      [] req.op = "refresh"  -> Refresh(p, sh)
      [] req.op = "fuse"     -> Fuse(req.x, req.y, p, sh)
      [] req.op = "fuseKind" -> FuseKind(req.x, p, sh)
      [] req.op = "place"    -> Place(req.x, req.y, p, sh)

NeedsShop(id) == sent[id].op # "place"

Charged(p) == [p EXCEPT !.gold = @ + RoundGold, !.charges = @ + 1]

-----------------------------------------------------------------------------
Working(label, id, p, sh) == [pc |-> label, id |-> id, player |-> p, shop |-> sh]
Idle == Working("idle", Nil, NewPlayer, ShopOf(1, 0))
NotSent == [op |-> "none", x |-> 0, y |-> 0, round |-> 0]

Init ==
    /\ phase = "shop_place" /\ round = 1
    /\ player = NewPlayer /\ shop = ShopOf(1, 0) /\ row = NewPlayer
    /\ log = {} /\ lock = Nil
    /\ h = [x \in Handlers |-> Idle]
    /\ sent = [a \in Ids |-> NotSent]
    /\ charge = [pc |-> "idle", player |-> NewPlayer]
    /\ mishaps = 0 /\ slow = FALSE /\ late = FALSE
    /\ applied = <<>>

At(x, label) == h[x].pc = label
Go(x, label) == h' = [h EXCEPT ![x].pc = label]
Done(x)      == h' = [h EXCEPT ![x] = Idle]

-----------------------------------------------------------------------------
(* A handler, from the message to the answer.                              *)

(* The client sends, or repeats, an action; one that is in the log is      *)
(* answered at once (place looks at the log under the lock only).          *)
Receive(x, a, req) ==
    /\ At(x, "idle")
    /\ IF sent[a] = NotSent
       THEN /\ phase = "shop_place"
            /\ sent' = [sent EXCEPT ![a] = [op |-> req.op, x |-> req.x, y |-> req.y,
                                            round |-> round]]
       ELSE req = [op |-> sent[a].op, x |-> sent[a].x, y |-> sent[a].y] /\ UNCHANGED sent
    /\ a \in log => req.op = "place"
    /\ h' = [h EXCEPT ![x] = Working("lock", a, @.player, @.shop)]
    /\ UNCHANGED <<roundVars, player, shop, log, lock, row, tailVars, applied>>

\* A slip: the lock is taken whoever holds it.
LockFreeAlways == TRUE

LockFree == lock = Nil

AcquireLock(x) ==
    /\ At(x, "lock") /\ LockFree
    /\ lock' = x
    /\ Go(x, "check")
    /\ UNCHANGED <<roundVars, player, shop, log, row, sent, tailVars, applied>>

\* Forty attempts, 10 ms apart, found the lock taken.
Busy(x) ==
    /\ At(x, "lock") /\ lock # Nil
    /\ Done(x)
    /\ UNCHANGED <<roundVars, player, shop, log, lock, row, sent, tailVars, applied>>

CheckLog(x) ==
    /\ At(x, "check")
    /\ Go(x, IF h[x].id \in log THEN "unlock" ELSE "read")
    /\ UNCHANGED <<roundVars, player, shop, log, lock, row, sent, tailVars, applied>>

Mutated(x, p, sh) ==
    LET a == h[x].id  effects == Effects(a, sent[a], p, sh) IN
    IF effects = {} THEN Go(x, "unlock")
    ELSE \E e \in effects :
           h' = [h EXCEPT ![x] = Working("persist", a, e.player, e.shop)]

ReadRuntime(x) ==
    LET a == h[x].id IN
    /\ At(x, "read")
    /\ CASE sent[a].round # round \/ phase # "shop_place" -> Go(x, "unlock")
         [] sent[a].round = round /\ phase = "shop_place" /\ NeedsShop(a) ->
              h' = [h EXCEPT ![x] = Working("readShop", a, player, @.shop)]
         [] OTHER -> Mutated(x, player, shop)
    /\ UNCHANGED <<roundVars, player, shop, log, lock, row, sent, tailVars, applied>>

ReadShop(x) ==
    /\ At(x, "readShop")
    /\ IF shop.round = sent[h[x].id].round
       THEN Mutated(x, h[x].player, shop) ELSE Go(x, "unlock")
    /\ UNCHANGED <<roundVars, player, shop, log, lock, row, sent, tailVars, applied>>

StillPlanning(r) == round = r /\ phase = "shop_place"

\* A slip: the script does not look for the id in the log.
NewInLogAlways(a) == TRUE

NewInLog(a) == a \notin log

Persist(x) ==
    LET a == h[x].id IN
    /\ At(x, "persist")
    /\ IF NewInLog(a) /\ StillPlanning(sent[a].round)
       THEN /\ log' = log \union {a}
            /\ player' = h[x].player
            /\ shop' = IF NeedsShop(a) THEN h[x].shop ELSE shop
            /\ applied' = Append(applied, a)
            /\ Go(x, "updateRow")
       ELSE Go(x, "unlock") /\ UNCHANGED <<log, player, shop, applied>>
    /\ UNCHANGED <<roundVars, lock, row, sent, tailVars>>

(* "late": by now the orchestrator has written a newer snapshot.           *)
UpdateRow(x) ==
    /\ At(x, "updateRow")
    /\ row' = h[x].player
    /\ late' = (late \/ row.charges > h[x].player.charges \/ charge.pc = "commit")
    /\ Go(x, "unlock")
    /\ UNCHANGED <<roundVars, player, shop, log, lock, sent, mishaps, slow, applied>>

UpdateRowFails(x) ==
    /\ At(x, "updateRow") /\ mishaps < MaxMishaps
    /\ mishaps' = mishaps + 1
    /\ Go(x, "unlock")
    /\ UNCHANGED <<roundVars, player, shop, log, lock, row, sent, slow, late, applied>>

Released(x) == IF lock = x THEN Nil ELSE lock

Unlock(x) ==
    /\ At(x, "unlock")
    /\ lock' = Released(x)
    /\ Done(x)
    /\ UNCHANGED <<roundVars, player, shop, log, row, sent, tailVars, applied>>

(* The replica dies; what the handler has not written is gone.  (Without   *)
(* the lock that is the same as Busy.)                                     *)
Crash(x) ==
    /\ h[x].pc \notin {"idle", "lock"} /\ mishaps < MaxMishaps
    /\ mishaps' = mishaps + 1
    /\ Done(x)
    /\ UNCHANGED <<roundVars, player, shop, log, lock, row, sent, slow, late, applied>>

(* The lock lapses after five seconds.                                     *)
Owned == \E x \in Handlers : lock = x /\ h[x].pc \notin {"idle", "lock"}

LockLapse ==
    /\ lock # Nil
    /\ lock' = Nil
    /\ IF Owned THEN mishaps < MaxMishaps /\ mishaps' = mishaps + 1 /\ slow' = TRUE
                ELSE UNCHANGED <<mishaps, slow>>
    /\ UNCHANGED <<roundVars, player, shop, log, row, h, sent, late, applied>>

-----------------------------------------------------------------------------
(* The round orchestrator, as far as it touches the player's state.  The   *)
(* next planning phase opens after the charge is in the hash: the clients  *)
(* are told of the round's end by then, RoundOrchestrator has the others.  *)

EndPlanning ==
    /\ phase = "shop_place" /\ charge.pc = "idle"
    /\ phase' = "battle"
    /\ UNCHANGED <<round, charge, player, shop, log, lock, row, h, sent, tailVars, applied>>

ChargeRead ==
    /\ phase = "battle" /\ charge.pc = "idle"
    /\ charge' = [pc |-> "flip", player |-> player]
    /\ UNCHANGED <<phase, round, player, shop, log, lock, row, h, sent, tailVars, applied>>

ChargeFlip ==
    /\ charge.pc = "flip"
    /\ phase' = "resolved"
    /\ charge' = [pc |-> "persist", player |-> Charged(charge.player)]
    /\ UNCHANGED <<round, player, shop, log, lock, row, h, sent, tailVars, applied>>

\* A slip: the snapshot is taken before the income is added.
SnapshotBeforeIncome(c) == [c.player EXCEPT !.gold = @ - RoundGold]

Snapshot(c) == c.player

ChargePersist ==
    /\ charge.pc = "persist"
    /\ row' = Snapshot(charge)
    /\ charge' = [charge EXCEPT !.pc = "commit"]
    /\ UNCHANGED <<phase, round, player, shop, log, lock, h, sent, tailVars, applied>>

ChargeCommit ==
    /\ charge.pc = "commit"
    /\ player' = charge.player
    /\ applied' = Append(applied, "charge")
    /\ charge' = [charge EXCEPT !.pc = "advance", !.player = NewPlayer]
    /\ UNCHANGED <<phase, round, shop, log, lock, row, h, sent, tailVars>>

Advance ==
    /\ charge.pc = "advance" /\ round < MaxRound
    /\ phase' = "shop_place" /\ round' = round + 1
    /\ charge' = [charge EXCEPT !.pc = "roll"]
    /\ UNCHANGED <<player, shop, log, lock, row, h, sent, tailVars, applied>>

RollOffers ==
    /\ charge.pc = "roll"
    /\ shop' = ShopOf(round, 0)
    /\ charge' = [charge EXCEPT !.pc = "idle"]
    /\ UNCHANGED <<phase, round, player, log, lock, row, h, sent, tailVars, applied>>

RoundNext == \/ EndPlanning \/ ChargeRead \/ ChargeFlip
             \/ ChargePersist \/ ChargeCommit \/ Advance \/ RollOffers

HandlerStep(x) ==
    \/ AcquireLock(x) \/ Busy(x) \/ CheckLog(x) \/ ReadRuntime(x) \/ ReadShop(x)
    \/ Persist(x) \/ UpdateRow(x) \/ UpdateRowFails(x) \/ Unlock(x)

Next ==
    \/ \E x \in Handlers : \/ \E a \in Ids : \E req \in Asked[a] : Receive(x, a, req)
                           \/ HandlerStep(x) \/ Crash(x)
    \/ LockLapse
    \/ RoundNext

Spec == Init /\ [][Next]_vars

-----------------------------------------------------------------------------
(* Types; a shop's offers are those generated for its round and refresh,   *)
(* or sold, and there is one free refresh in a phase.                      *)
RosterTypeOK ==
    /\ phase \in {"shop_place", "battle", "resolved"} /\ round \in 1..MaxRound
    /\ \A p \in {player, row} :
         /\ p.gold \in Nat /\ p.charges \in 0..MaxRound
         /\ \A s \in UnitsIn(p) :
              p.slots[s] \in [id : Ids, kind : Kinds, star : 0..MaxStar, invested : Nat]
    /\ shop.round \in {round, round - 1} /\ shop.refreshes \in {0, 1}
    /\ \A i \in DOMAIN shop.offers :
         shop.offers[i] \in {Nil, Offers[<<shop.round, shop.refreshes>>][i]}
    /\ log \subseteq Ids /\ lock \in Handlers \union {Nil}

(* The action a takes effect on the state as it is now. *)
Takes(a) ==
    /\ a \notin log /\ log' = log \union {a}
    /\ \E e \in Effects(a, sent[a], player, shop) :
          player' = e.player /\ shop' = IF NeedsShop(a) THEN e.shop ELSE shop

(* The state changes by one action or one charge at a time, applied to     *)
(* what the last one left: no action is lost, overwrites another or takes  *)
(* effect on a state that is no longer there, although every handler and   *)
(* the charge write the whole state back.  It rests on the player lock, so *)
(* not on a holder it lapsed under, and on the phase check of              *)
(* action_log.lua against the charge.                                      *)
SerialActions ==
    [][~slow /\ <<player, shop, log>>' # <<player, shop, log>> =>
          \/ \E a \in Ids : Takes(a)
          \/ player' = Charged(player) /\ UNCHANGED <<shop, log>>
          \/ shop' = ShopOf(round, 0) /\ UNCHANGED <<player, log>>]_vars

(* An action takes effect at most once, however often the client repeats   *)
(* it and even when two handlers hold the lock: action_log.lua decides.    *)
AppliedOnce ==
    \A i, j \in DOMAIN applied :
        applied[i] = applied[j] /\ applied[i] # "charge" => i = j

(* What the unit in a slot has cost, and all of them.                      *)
Worth(p, s) == IF p.slots[s] = Nil THEN 0 ELSE p.slots[s].invested

Invested(p) == FoldSet(LAMBDA s, n : n + Worth(p, s), 0, Slots)

(* Gold is never made or lost by shopping: what is in the purse and in the *)
(* units is the start and the income of the rounds.                        *)
GoldConserved == player.gold + Invested(player) = StartGold + RoundGold * player.charges

(* No unit is in two slots, in the hash or in the row.                     *)
NoUnitTwice ==
    \A p \in {player, row} : \A s, t \in UnitsIn(p) :
        p.slots[s].id = p.slots[t].id => s = t

(* An offer is sold once: between two purchases of one offer in one round  *)
(* the shop was refreshed.                                                 *)
OfferSoldOnce ==
    ~slow =>
    \A i, j \in DOMAIN applied :
        LET a == sent[applied[i]]  b == sent[applied[j]] IN
        i < j /\ "charge" \notin {applied[i], applied[j]}
        /\ a.op = "buy" /\ b.op = "buy" /\ a.x = b.x /\ a.round = b.round
        => \E k \in i + 1 .. j - 1 :
               applied[k] # "charge" /\ sent[applied[k]].op = "refresh"

(* The row of the match follows the hash: once everybody is done it holds  *)
(* the same state, unless a call failed, a process died, or an action's    *)
(* write arrived after the snapshot of the round.                          *)
RowFollows ==
    /\ mishaps = 0 /\ ~late /\ charge.pc \in {"idle", "advance", "roll"}
    /\ \A x \in Handlers : ~At(x, "updateRow")
    => row = player
=============================================================================
