-------------------------- MODULE RoundPromptProofs --------------------------
(***************************************************************************)
(* Theorems about RoundOrchestrator under its timing assumption: the       *)
(* damage shown is the damage charged and none of it is lost, a battle     *)
(* that starts has somebody to end it, and the row of a match tells how it *)
(* ended.                                                                  *)
(***************************************************************************)
EXTENDS RoundCombatProofs, WellFoundedInduction

-----------------------------------------------------------------------------
(* The preview and the charge of a round start from the same hit points    *)
(* and read the same result.                                               *)

\* The labels of a handler from the flip to "battle" to the preview.
Fought == FightLabels \union {"scheduleTimeout", "release", "preview"}

\* What v read of the hash is still there.
Fresh(v) == ctx[v].hp = hp /\ ctx[v].wipe = wipe

\* What the round will leave to the players, by its result.
After == HpAfter(result.won, hp, wipe)

Reading(v) ==
    pc[v] = "startFlip" => /\ ctx[v].round <= round
                           /\ At("shop_place", ctx[v].round) => Fresh(v)

Telling(v) ==
    pc[v] \in Fought =>
        /\ ctx[v].round <= round
        /\ ctx[v].round = round =>
              /\ phase # "shop_place"
              /\ Owed => Fresh(v)
              /\ pc[v] \notin FightLabels => InFight = {}

Paying(v) ==
    /\ pc[v] = "applyResult" /\ At("battle", ctx[v].round) => Fresh(v)
    /\ pc[v] = "applyFlip" /\ At("battle", ctx[v].round) => ctx[v].hp = After
    /\ v \in Committing => InFight = {} /\ ctx[v].hp = After

Told == \A v \in Handlers : Reading(v) /\ Telling(v) /\ Paying(v)

Shown ==
    /\ preview.round <= round
    /\ preview.round = round =>
          /\ phase # "shop_place" /\ InFight = {}
          /\ Owed => preview.hp = After

PreviewInv == Told /\ Shown

Watched == Fought \union {"startFlip", "applyResult", "applyFlip", "persist", "commit"}

\* A step that writes neither the hash, the result nor the preview has only
\* to answer for the handlers it moves.
LEMMA PreviewRests ==
  ASSUME PreviewInv, UNCHANGED <<phase, round, hp, wipe, result, history, preview>>,
         InFight' \subseteq InFight,
         \A v \in Handlers :
             \/ pc'[v] = pc[v] /\ ctx'[v] = ctx[v]
             \/ pc'[v] \notin Watched
             \/ (Reading(v) /\ Telling(v) /\ Paying(v))'
  PROVE  PreviewInv'
<1>1. Shown'
  BY DEF PreviewInv, Shown, Owed, After
<1>2. ASSUME NEW v \in Handlers PROVE (Reading(v) /\ Telling(v) /\ Paying(v))'
  <2>1. CASE pc'[v] = pc[v] /\ ctx'[v] = ctx[v]
    <3>1. Reading(v)'
      BY <2>1 DEF PreviewInv, Told, Reading, Fresh, At
    <3>2. Telling(v)'
      BY <2>1 DEF PreviewInv, Told, Telling, Fresh, Owed
    <3>3. Paying(v)'
      BY <2>1 DEF PreviewInv, Told, Paying, Fresh, At, After, Committing
    <3>4. QED
      BY <3>1, <3>2, <3>3
  <2>2. CASE pc'[v] \notin Watched
    BY <2>2 DEF Watched, Reading, Telling, Paying, Committing
  <2>3. QED
    BY <1>2, <2>1, <2>2
<1>3. QED
  BY <1>1, <1>2 DEF PreviewInv, Told

\* The handler that fights may change the result: nobody has shown it, or
\* charges it, yet.
LEMMA FightShows ==
  ASSUME TypeOK, FightInv, PreviewInv, NEW w \in InFight,
         UNCHANGED <<phase, round, hp, wipe, history, preview>>,
         \A v \in Handlers \ {w} : pc'[v] = pc[v] /\ ctx'[v] = ctx[v],
         pc'[w] \in FightLabels \union {"scheduleTimeout"},
         pc'[w] = "scheduleTimeout" => result' = result,
         ctx'[w].round = ctx[w].round, ctx'[w].hp = ctx[w].hp, ctx'[w].wipe = ctx[w].wipe
  PROVE  PreviewInv'
<1>0. w \in Handlers /\ pc[w] \in FightLabels /\ ctx[w].round = round
  BY DEF InFight, FightInv, OneFight
<1>1. InFight' \subseteq {w} /\ (pc'[w] = "scheduleTimeout" => InFight' = {})
  BY <1>0 DEF InFight, FightLabels, FightInv, OneFight
<1>2. Shown'
  BY <1>0 DEF PreviewInv, Shown
<1>3. ASSUME NEW v \in Handlers \ {w} PROVE (Reading(v) /\ Telling(v) /\ Paying(v))'
  <2>1. Reading(v)'
    BY <1>3 DEF PreviewInv, Told, Reading, Fresh, At
  <2>2. pc[v] \notin FightLabels
    BY <1>3 DEF InFight, FightInv, OneFight
  <2>3. Telling(v)'
    BY <1>0, <1>3, <2>2 DEF PreviewInv, Told, Telling
  <2>4. Paying(v)'
    <3>1. pc[v] = "applyResult" /\ At("battle", ctx[v].round) => Fresh(v)
      BY <1>3 DEF PreviewInv, Told, Paying
    <3>2. ~(pc[v] = "applyFlip" /\ At("battle", ctx[v].round))
      BY <1>3 DEF FightInv, ApplyingOwn, Applying, Recorded
    <3>3. v \notin Committing
      BY <1>3 DEF PreviewInv, Told, Paying
    <3>4. QED
      BY <1>3, <3>1, <3>2, <3>3 DEF Paying, Fresh, At, Committing
  <2>5. QED
    BY <2>1, <2>3, <2>4
<1>4. (Reading(w) /\ Paying(w))'
  BY <1>0 DEF Reading, Paying, Committing, FightLabels
<1>5. Telling(w)'
  <2>1. Telling(w) /\ pc[w] \in Fought
    BY <1>0 DEF PreviewInv, Told, Fought
  <2>2. QED
    BY <1>0, <1>1, <2>1 DEF Telling, Fought, Fresh, Owed, FightLabels
<1>6. QED
  BY <1>2, <1>3, <1>4, <1>5 DEF PreviewInv, Told

\* Nobody is about to charge while a round is planned or fought.
LEMMA NothingToCharge ==
  ASSUME IInv, PaceInv, phase \in {"shop_place", "battle"}
  PROVE  Committing = {} /\ Owed
  BY DEF IInv, Charging, ChargesArePast, Past, PaceInv, ChargesPaced

\* The flip to "battle": nobody but w has anything to do with the new battle.
LEMMA StartFlipShows ==
  ASSUME IInv, PaceInv, FightInv, PreviewInv, NEW w \in Handlers, pc[w] = "startFlip",
         At("shop_place", ctx[w].round), phase' = "battle", pc'[w] = "combatLock",
         \A v \in Handlers \ {w} : pc'[v] = pc[v], ctx' = ctx,
         UNCHANGED <<round, hp, wipe, result, history, preview>>
  PROVE  PreviewInv'
<1>1. /\ Fresh(w) /\ ctx[w].round = round /\ phase = "shop_place"
      /\ Committing = {} /\ Committing' = {}
  BY NothingToCharge DEF PreviewInv, Told, Reading, At, Committing
<1>2. Shown'
  BY <1>1 DEF PreviewInv, Shown
<1>3. ASSUME NEW v \in Handlers \ {w} PROVE (Reading(v) /\ Telling(v) /\ Paying(v))'
  <2>1. Reading(v)'
    BY <1>3 DEF PreviewInv, Told, Reading, At
  <2>2. Telling(v)'
    BY <1>1, <1>3 DEF PreviewInv, Told, Telling
  <2>3. ~(pc[v] \in {"applyResult", "applyFlip"} /\ ctx[v].round = round)
    BY <1>1, <1>3 DEF FightInv, ApplyingOwn, Applying
  <2>4. Paying(v)'
    BY <1>1, <1>3, <2>3 DEF Paying, At
  <2>5. QED
    BY <2>1, <2>2, <2>4
<1>4. round \in Nat
  BY DEF IInv, TypeOK
<1>5. (Reading(w) /\ Telling(w) /\ Paying(w))'
  BY <1>1, <1>4 DEF Reading, Telling, Paying, Fresh, FightLabels
<1>6. QED
  BY <1>2, <1>3, <1>5 DEF PreviewInv, Told

\* The flip to "resolved": w will charge what the result says.
LEMMA ApplyFlipShows ==
  ASSUME IInv, FightInv, PreviewInv, NEW w \in Handlers, pc[w] = "applyFlip",
         At("battle", ctx[w].round), phase' = "resolved", pc'[w] = "persist",
         \A v \in Handlers \ {w} : pc'[v] = pc[v], ctx' = ctx,
         UNCHANGED <<round, hp, wipe, result, history, preview>>
  PROVE  PreviewInv'
<1>1. InFight = {} /\ InFight' = {}
  BY DEF FightInv, ApplyingOwn, Applying, Recorded, InFight, FightLabels
<1>2. Shown'
  BY <1>1 DEF PreviewInv, Shown, Owed, After
<1>3. ASSUME NEW v \in Handlers \ {w} PROVE (Reading(v) /\ Telling(v) /\ Paying(v))'
  <2>1. Reading(v)'
    BY <1>3 DEF PreviewInv, Told, Reading, At
  <2>2. Telling(v)'
    BY <1>1, <1>3 DEF PreviewInv, Told, Telling, Fresh, Owed
  <2>3. Paying(v)'
    BY <1>1, <1>3 DEF PreviewInv, Told, Paying, At, Committing, After
  <2>4. QED
    BY <2>1, <2>2, <2>3
<1>4. ctx[w].hp = After
  BY DEF PreviewInv, Told, Paying
<1>5. (Reading(w) /\ Telling(w) /\ Paying(w))'
  BY <1>1, <1>4 DEF Reading, Telling, Paying, Fought, FightLabels, After
<1>6. QED
  BY <1>2, <1>3, <1>5 DEF PreviewInv, Told

\* The flip to the next round: everything said so far is about earlier ones.
LEMMA AdvanceShows ==
  ASSUME IInv, PaceInv, PreviewInv, NEW w \in Handlers, Advance(w), pc'[w] = "advanceReset",
         \A v \in Handlers \ {w} : pc'[v] = pc[v] /\ ctx'[v] = ctx[v]
  PROVE  PreviewInv'
<1>1. /\ pc[w] = "advance" /\ At("resolved", ctx[w].round) /\ round' = round + 1
      /\ phase' = "shop_place" /\ UNCHANGED <<hp, wipe, result, history, preview>>
  BY DEF Advance, Done, Goto, IInv, TypeOK, redisVars, ghostVars
<1>2. Len(history) = round /\ round \in Nat /\ Len(history) \in Nat
  BY <1>1 DEF PaceInv, SummariesPaced, SummaryLabels, Summed, At, IInv, TypeOK
<1>3. Committing = {} /\ Committing' = {}
  BY <1>1, <1>2 DEF PaceInv, ChargesPaced, Committing, Owed
<1>t. preview.round \in Nat /\ \A v \in Handlers : ctx[v].round \in Nat
  BY DEF IInv, TypeOK, Contexts
<1>4. Shown'
  BY <1>1, <1>2, <1>t DEF PreviewInv, Shown
<1>5. ASSUME NEW v \in Handlers \ {w} PROVE (Reading(v) /\ Telling(v) /\ Paying(v))'
  <2>1. pc[v] \in Fought \union {"startFlip"} => ctx[v].round < round'
    BY <1>1, <1>2, <1>5, <1>t DEF PreviewInv, Told, Reading, Telling
  <2>2. (Reading(v) /\ Telling(v))'
    BY <1>1, <1>2, <1>5, <1>t, <2>1 DEF Reading, Telling, At
  <2>3. Paying(v)'
    BY <1>1, <1>3, <1>5 DEF Paying, At
  <2>4. QED
    BY <2>2, <2>3
<1>6. (Reading(w) /\ Telling(w) /\ Paying(w))'
  BY <1>1, <1>3 DEF Reading, Telling, Paying, Fought, FightLabels
<1>7. QED
  BY <1>4, <1>5, <1>6 DEF PreviewInv, Told

\* The flip to "finished", which may come at any time.
LEMMA QuitShows ==
  ASSUME PreviewInv, NEW w \in Handlers, Quit(w), pc'[w] = "finalize", phase' = "finished",
         \A v \in Handlers \ {w} : pc'[v] = pc[v] /\ ctx'[v] = ctx[v]
  PROVE  PreviewInv'
<1>1. UNCHANGED <<round, hp, wipe, result, history, preview>> /\ pc[w] = "quit"
  BY DEF Quit, redisVars, ghostVars
<1>2. InFight' = InFight
  BY <1>1 DEF InFight, FightLabels
<1>3. Shown'
  BY <1>1, <1>2 DEF PreviewInv, Shown, Owed, After
<1>4. ASSUME NEW v \in Handlers \ {w} PROVE (Reading(v) /\ Telling(v) /\ Paying(v))'
  <2>1. Reading(v)'
    BY <1>1, <1>4 DEF PreviewInv, Told, Reading, At
  <2>2. Telling(v)'
    BY <1>1, <1>2, <1>4 DEF PreviewInv, Told, Telling, Fresh, Owed
  <2>3. Paying(v)'
    BY <1>1, <1>2, <1>4 DEF PreviewInv, Told, Paying, At, Committing, After
  <2>4. QED
    BY <2>1, <2>2, <2>3
<1>5. (Reading(w) /\ Telling(w) /\ Paying(w))'
  BY DEF Reading, Telling, Paying, Fought, FightLabels, Committing
<1>6. QED
  BY <1>3, <1>4, <1>5 DEF PreviewInv, Told

\* The charge: nobody else is about to charge, and nothing is owed any more.
LEMMA CommitShows ==
  ASSUME IInv, PaceInv, PreviewInv, NEW w \in Handlers, Commit(w),
         \A v \in Handlers \ {w} : pc'[v] = pc[v] /\ ctx'[v] = ctx[v]
  PROVE  PreviewInv'
<1>1. /\ w \in Committing /\ Len(history') = Len(history) + 1
      /\ phase' \in {phase, "finished"} /\ pc'[w] \in {"finalize", "idle"}
      /\ UNCHANGED <<round, result, preview>>
  BY DEF Commit, Charge, Committing, Goto, Done, IInv, TypeOK, redisVars
<1>2. ctx[w].round = round /\ Owed /\ phase \in {"resolved", "finished"} /\ InFight = {}
  BY <1>1 DEF PaceInv, ChargesPaced, IInv, Charging, ChargesArePast, Past, PreviewInv, Told,
              Paying, Committing
<1>3. ~Owed'
  BY <1>1, <1>2 DEF Owed, IInv, TypeOK
<1>4. Committing' = {} /\ InFight' = {}
  BY <1>1, <1>2 DEF PaceInv, ChargesPaced, Committing, IInv, Charging, OneCharger, InFight,
                    FightLabels
<1>5. Shown'
  BY <1>1, <1>2, <1>3, <1>4 DEF PreviewInv, Shown
<1>6. ASSUME NEW v \in Handlers PROVE (Reading(v) /\ Telling(v) /\ Paying(v))'
  <2>1. phase' \in {"resolved", "finished"}
    BY <1>1, <1>2
  <2>2. Paying(v)'
    BY <1>4, <2>1 DEF Paying, At
  <2>3. CASE v = w
    BY <1>1, <2>2, <2>3 DEF Reading, Telling, Fought, FightLabels
  <2>4. CASE v # w
    BY <1>1, <1>3, <1>4, <1>6, <2>1, <2>2, <2>4 DEF PreviewInv, Told, Reading, Telling, At
  <2>5. QED
    BY <2>3, <2>4
<1>7. QED
  BY <1>5, <1>6 DEF PreviewInv, Told

\* Every step of a handler keeps PreviewInv.
LEMMA StepShows ==
  ASSUME IInv, PaceInv, FightInv, PreviewInv, NEW w \in Handlers, Step(w)
  PROVE  PreviewInv'
<1>t. TypeOK /\ ctx[w] \in Contexts /\ round \in Nat
  BY DEF IInv, TypeOK
<1>o. /\ \A v \in Handlers \ {w} : pc'[v] = pc[v] /\ ctx'[v] = ctx[v]
      /\ pc'[w] = "idle" \/ ctx'[w].round = ctx[w].round
  BY <1>t, OthersRest
<1>p. /\ pc \in [Handlers -> Labels] /\ ctx \in [Handlers -> Contexts]
      /\ \A label : Goto(w, label) => pc'[w] = label
      /\ \A new : Done(w, new) => pc'[w] = "idle"
      /\ \A label : Join(w, label) => pc'[w] = label
  BY <1>t DEF TypeOK, Goto, Done, Join
<1>i. pc'[w] \notin FightLabels => InFight' \subseteq InFight
  BY <1>o DEF InFight
<1>m. ASSUME UNCHANGED <<phase, round, hp, wipe, result, history, preview>>,
             pc'[w] \notin FightLabels,
             pc'[w] \in Watched => (Reading(w) /\ Telling(w) /\ Paying(w))'
      PROVE  PreviewInv'
  BY <1>o, <1>i, <1>m, PreviewRests
<1>a. ASSUME UNCHANGED <<phase, round, hp, wipe, result, history, preview>>,
             pc'[w] \in {"idle", "startRead", "abandon", "applyRead", "cleanup",
                         "roundReadyCount", "advance", "advanceSchedule"}
      PROVE  PreviewInv'
  BY <1>a, <1>m DEF Watched, Fought, FightLabels
<1> USE DEF runtimeVars, redisVars, pgVars, ghostVars
<1>1. CASE ReadyCount(w) \/ Ack(w) \/ Finalize(w) \/ ScheduleCleanup(w)
  <2>1. UNCHANGED <<phase, round, hp, wipe, result, history, preview>>
    BY <1>1 DEF ReadyCount, Ack, Finalize, ScheduleCleanup
  <2>2. pc'[w] \in {"idle", "startRead", "applyRead", "cleanup"}
    BY <1>1, <1>p DEF ReadyCount, Ack, Finalize, ScheduleCleanup, Throw
  <2>3. QED
    BY <1>a, <2>1, <2>2
<1>2. CASE RoundReadySet(w) \/ RoundReadyCount(w) \/ AdvanceReset(w) \/ AdvanceSchedule(w)
  <2>1. UNCHANGED <<phase, round, hp, wipe, result, history, preview>>
    BY <1>2 DEF RoundReadySet, RoundReadyCount, AdvanceReset, AdvanceSchedule
  <2>2. pc'[w] \in {"idle", "roundReadyCount", "advance", "advanceSchedule"}
    BY <1>2, <1>p DEF RoundReadySet, RoundReadyCount, AdvanceReset, AdvanceSchedule
  <2>3. QED
    BY <1>a, <2>1, <2>2
<1>3. CASE StartRead(w)
  <2>1. UNCHANGED <<phase, round, hp, wipe, result, history, preview>>
    BY <1>3 DEF StartRead
  <2>2. CASE pc'[w] = "idle"
    BY <1>a, <2>1, <2>2
  <2>3. CASE pc'[w] # "idle"
    <3>1. pc'[w] = "startFlip" /\ ctx' = [ctx EXCEPT ![w].hp = hp, ![w].wipe = wipe]
          /\ At("shop_place", ctx[w].round)
      BY <1>3, <1>p, <2>3 DEF StartRead
    <3>2. ctx'[w].hp = hp /\ ctx'[w].wipe = wipe /\ ctx'[w].round = ctx[w].round
      BY <1>p, <3>1 DEF Contexts
    <3>3. (Reading(w) /\ Telling(w) /\ Paying(w))'
      BY <1>t, <2>1, <3>1, <3>2 DEF Reading, Telling, Paying, Fresh, Fought, FightLabels,
                                    Committing, At
    <3>4. QED
      BY <1>m, <2>1, <3>1, <3>3 DEF FightLabels
  <2>4. QED
    BY <2>2, <2>3
<1>4. CASE StartFlip(w)
  <2>1. CASE pc'[w] = "idle"
    BY <1>4, <1>a, <1>p, <2>1 DEF StartFlip
  <2>2. CASE pc'[w] # "idle"
    BY <1>4, <1>p, <1>o, <2>2, StartFlipShows DEF StartFlip
  <2>3. QED
    BY <2>1, <2>2
<1>5. CASE CombatLock(w) \/ CombatGuard(w) \/ CombatClear(w) \/ CombatCheck(w)
           \/ AppendRound(w) \/ WriteResult(w) \/ SetCombatRound(w)
  <2>1. UNCHANGED <<phase, round, hp, wipe, history, preview>> /\ w \in InFight
    BY <1>5 DEF InFight, FightLabels, CombatLock, CombatGuard, CombatClear, CombatCheck,
                AppendRound, WriteResult, SetCombatRound
  <2>2. CASE pc'[w] \in {"idle", "abandon"}
    <3>1. result' = result
      BY <1>5, <1>p, <2>2 DEF CombatLock, CombatGuard, CombatClear, CombatCheck,
                              AppendRound, WriteResult, SetCombatRound
    <3>2. QED
      BY <1>a, <2>1, <2>2, <3>1
  <2>3. CASE pc'[w] \notin {"idle", "abandon"}
    <3>1. /\ pc'[w] \in FightLabels \union {"scheduleTimeout"}
          /\ pc'[w] = "scheduleTimeout" => result' = result
      BY <1>5, <1>p, <2>3 DEF FightLabels, CombatLock, CombatGuard, CombatClear,
            CombatCheck, AppendRound, WriteResult, SetCombatRound
    <3>2. ctx'[w].hp = ctx[w].hp /\ ctx'[w].wipe = ctx[w].wipe
      <4>1. CASE CombatClear(w)
        BY <1>p, <4>1 DEF CombatClear, Contexts
      <4>2. CASE ~CombatClear(w)
        BY <1>5, <1>p, <2>3, <4>2 DEF CombatLock, CombatGuard, CombatCheck,
              AppendRound, WriteResult, SetCombatRound
      <4>3. QED
        BY <4>1, <4>2
    <3>3. QED
      BY <1>t, <1>o, <2>1, <2>3, <3>1, <3>2, FightShows
  <2>4. QED
    BY <2>2, <2>3
<1>6. CASE ScheduleTimeout(w) \/ Release(w)
  <2>1. UNCHANGED <<phase, round, hp, wipe, result, history, preview>>
    BY <1>6 DEF ScheduleTimeout, Release
  <2>2. CASE pc'[w] = "idle"
    BY <1>a, <2>1, <2>2
  <2>3. CASE pc'[w] # "idle"
    <3>1. /\ pc[w] \in {"scheduleTimeout", "release"} /\ pc'[w] \in {"release", "preview"}
          /\ ctx' = ctx
      BY <1>6, <1>p, <2>3 DEF ScheduleTimeout, Release
    <3>2. InFight' = InFight
      BY <1>o, <3>1 DEF InFight, FightLabels
    <3>3. Telling(w)'
      BY <2>1, <3>1, <3>2 DEF PreviewInv, Told, Telling, Fresh, Owed, Fought, FightLabels
    <3>4. (Reading(w) /\ Paying(w))'
      BY <3>1 DEF Reading, Paying, Committing
    <3>5. QED
      BY <1>m, <2>1, <3>1, <3>3, <3>4 DEF FightLabels
  <2>4. QED
    BY <2>2, <2>3
<1>7. CASE Preview(w)
  <2>1. /\ UNCHANGED <<phase, round, hp, wipe, result, history>> /\ pc[w] = "preview"
        /\ pc'[w] = "idle"
    BY <1>7, <1>p DEF Preview
  <2>2. InFight' = InFight
    BY <1>o, <2>1 DEF InFight, FightLabels
  <2>3. Shown'
    <3>1. CASE result = NoResult
      BY <1>7, <2>1, <2>2, <3>1 DEF Preview, PreviewInv, Shown, Owed, After
    <3>2. CASE result # NoResult
      <4>1. preview' = [round |-> ctx[w].round,
                        hp |-> HpAfter(result.won, ctx[w].hp, ctx[w].wipe)]
        BY <1>7, <3>2 DEF Preview
      <4>2. /\ ctx[w].round <= round
            /\ ctx[w].round = round =>
                  phase # "shop_place" /\ (Owed => Fresh(w)) /\ InFight = {}
        BY <2>1 DEF PreviewInv, Told, Telling, Fought, FightLabels
      <4>3. QED
        BY <2>1, <2>2, <4>1, <4>2 DEF Shown, Fresh, Owed, After
    <3>3. QED
      BY <3>1, <3>2
  <2>4. ASSUME NEW v \in Handlers PROVE (Reading(v) /\ Telling(v) /\ Paying(v))'
    <3>1. CASE v = w
      BY <2>1, <3>1 DEF Reading, Telling, Paying, Fought, FightLabels, Committing
    <3>2. CASE v # w
      <4>1. pc'[v] = pc[v] /\ ctx'[v] = ctx[v]
        BY <1>o, <2>4, <3>2
      <4>2. (Reading(v) /\ Paying(v))'
        BY <2>1, <2>2, <2>4, <4>1 DEF PreviewInv, Told, Reading, Paying, Fresh, At, After,
                                      Committing
      <4>3. Telling(v)'
        BY <2>1, <2>2, <2>4, <4>1 DEF PreviewInv, Told, Telling, Fresh, Owed
      <4>4. QED
        BY <4>2, <4>3
    <3>3. QED
      BY <3>1, <3>2
  <2>5. QED
    BY <2>3, <2>4 DEF PreviewInv, Told
<1>8. CASE ApplyRead(w) \/ ApplyResult(w)
  <2>1. UNCHANGED <<phase, round, hp, wipe, result, history, preview>>
    BY <1>8 DEF ApplyRead, ApplyResult
  <2>2. CASE pc'[w] = "idle"
    BY <1>a, <2>1, <2>2
  <2>3. CASE pc'[w] # "idle" /\ ApplyRead(w)
    <3>1. pc'[w] = "applyResult" /\ ctx' = [ctx EXCEPT ![w].hp = hp, ![w].wipe = wipe]
      BY <1>p, <2>3 DEF ApplyRead
    <3>2. ctx'[w].hp = hp /\ ctx'[w].wipe = wipe
      BY <1>p, <3>1 DEF Contexts
    <3>3. (Reading(w) /\ Telling(w) /\ Paying(w))'
      BY <2>1, <3>1, <3>2 DEF Reading, Telling, Paying, Fresh, Fought, FightLabels,
                              Committing
    <3>4. QED
      BY <1>m, <2>1, <3>1, <3>3 DEF FightLabels
  <2>4. CASE pc'[w] # "idle" /\ ApplyResult(w)
    <3>1. /\ pc[w] = "applyResult" /\ pc'[w] = "applyFlip"
          /\ ctx' = [ctx EXCEPT ![w].hp   = HpAfter(result.won, ctx[w].hp, ctx[w].wipe),
                                ![w].wipe = WipeAfter(result.won, ctx[w].wipe),
                                ![w].won  = result.won,
                                ![w].from = result.round]
      BY <1>p, <2>4 DEF ApplyResult
    <3>2. /\ ctx'[w].hp = HpAfter(result.won, ctx[w].hp, ctx[w].wipe)
          /\ ctx'[w].round = ctx[w].round
      BY <1>p, <3>1 DEF Contexts
    <3>3. At("battle", ctx[w].round) => Fresh(w)
      BY <3>1 DEF PreviewInv, Told, Paying
    <3>4. (Reading(w) /\ Telling(w) /\ Paying(w))'
      BY <2>1, <3>1, <3>2, <3>3 DEF Reading, Telling, Paying, Fresh, Fought, FightLabels,
                                    Committing, At, After
    <3>5. QED
      BY <1>m, <2>1, <3>1, <3>4 DEF FightLabels
  <2>5. QED
    BY <1>8, <2>2, <2>3, <2>4
<1>9. CASE ApplyFlip(w)
  <2>1. CASE pc'[w] = "idle"
    BY <1>9, <1>a, <1>p, <2>1 DEF ApplyFlip
  <2>2. CASE pc'[w] # "idle"
    BY <1>9, <1>p, <1>o, <2>2, ApplyFlipShows DEF ApplyFlip
  <2>3. QED
    BY <2>1, <2>2
<1>10. CASE Persist(w)
  <2>1. UNCHANGED <<phase, round, hp, wipe, result, history, preview>>
    BY <1>10 DEF Persist
  <2>2. CASE pc'[w] = "idle"
    BY <1>a, <2>1, <2>2
  <2>3. CASE pc'[w] # "idle"
    <3>1. pc[w] = "persist" /\ pc'[w] = "commit" /\ ctx' = ctx
      BY <1>10, <1>p, <2>3 DEF Persist, Throw
    <3>2. w \in Committing /\ InFight' = InFight
      BY <1>o, <3>1 DEF Committing, InFight, FightLabels
    <3>3. InFight = {} /\ ctx[w].hp = After
      BY <3>2 DEF PreviewInv, Told, Paying
    <3>4. (Reading(w) /\ Telling(w) /\ Paying(w))'
      BY <2>1, <3>1, <3>2, <3>3 DEF Reading, Telling, Paying, Fought, FightLabels, After
    <3>5. QED
      BY <1>m, <2>1, <3>1, <3>4 DEF FightLabels
  <2>4. QED
    BY <2>2, <2>3
<1>11. CASE Commit(w)
  BY <1>11, <1>o, CommitShows
<1>12. CASE Advance(w)
  <2>1. CASE pc'[w] = "idle"
    BY <1>12, <1>a, <1>p, <2>1 DEF Advance
  <2>2. CASE pc'[w] # "idle"
    BY <1>12, <1>p, <1>o, <2>2, AdvanceShows DEF Advance
  <2>3. QED
    BY <2>1, <2>2
<1>13. CASE Quit(w)
  <2>1. CASE pc'[w] = "idle"
    BY <1>13, <1>a, <1>p, <2>1 DEF Quit
  <2>2. CASE pc'[w] # "idle"
    BY <1>13, <1>p, <1>o, <2>2, QuitShows DEF Quit
  <2>3. QED
    BY <2>1, <2>2
<1>14. QED
  BY <1>1, <1>2, <1>3, <1>4, <1>5, <1>6, <1>7, <1>8, <1>9, <1>10, <1>11, <1>12, <1>13
  DEF Step

LEMMA NextShows ==
  IInv /\ PaceInv /\ FightInv /\ PreviewInv /\ [Next]_vars => PreviewInv'
<1> SUFFICES ASSUME IInv, PaceInv, FightInv, PreviewInv, [Next]_vars PROVE PreviewInv'
  OBVIOUS
<1>t. TypeOK
  BY DEF IInv
<1>1. ASSUME Next, ~\E w \in Handlers : Step(w) PROVE PreviewInv'
  <2>1. /\ UNCHANGED <<phase, round, hp, wipe, result, history, preview>>
        /\ \A v \in Handlers :
              \/ pc'[v] = pc[v] /\ ctx'[v] = ctx[v]
              \/ pc'[v] \notin Watched
    BY <1>t, <1>1, WorldRests DEF Watched, Fought, FightLabels
  <2>2. InFight' \subseteq InFight
    BY <2>1 DEF InFight, Watched, Fought
  <2>3. QED
    BY <2>1, <2>2, PreviewRests
<1>2. CASE UNCHANGED vars
  <2>1. /\ UNCHANGED <<phase, round, hp, wipe, result, history, preview>>
        /\ UNCHANGED <<pc, ctx>>
    BY <1>2 DEF vars, runtimeVars, redisVars, ghostVars
  <2>2. QED
    BY <2>1, PreviewRests DEF InFight
<1>3. QED
  BY <1>1, <1>2, StepShows

LEMMA InitShows == Init => PreviewInv
<1> SUFFICES ASSUME Init PROVE PreviewInv
  OBVIOUS
<1>1. \A v \in Handlers : pc[v] = "idle"
  BY DEF Init
<1>2. Told
  BY <1>1 DEF Told, Reading, Telling, Paying, Fought, FightLabels, Committing
<1>3. Shown
  BY DEF Init, Shown
<1>4. QED
  BY <1>2, <1>3 DEF PreviewInv

\* The preview is computed from a copy of the hash that may be old and from a
\* result whose key names no round; still, when clients wait for the event of
\* a phase and no handler is a round late, what it showed is what is charged.
THEOREM PreviewTellsTheCharge ==
  ASSUME Eager = {}
  PROVE  PromptSpec => []PreviewIsCharged
<1>1. IInv /\ PaceInv /\ PreviewInv => PreviewIsCharged
  <2> SUFFICES ASSUME IInv, PaceInv, PreviewInv, NEW w \in Committing,
                      preview.round = ctx[w].round
               PROVE  preview.hp = ctx[w].hp
    BY DEF PreviewIsCharged
  <2>1. ctx[w].round = round /\ Owed
    BY DEF PaceInv, ChargesPaced
  <2>2. ctx[w].hp = After /\ w \in Handlers
    BY DEF PreviewInv, Told, Paying, Committing
  <2>3. QED
    BY <2>1, <2>2 DEF PreviewInv, Shown
<1>2. PromptSpec => []IInv /\ []FightInv
  BY PromptIsSpec, Invariance, FightHolds, PTL
<1>3. PromptSpec => []PaceInv
  BY PaceHolds
<1>4. PromptSpec => Init /\ [][Next]_vars
  BY PromptIsSpec, PTL DEF Spec
<1>5. QED
  BY <1>1, <1>2, <1>3, <1>4, InitShows, NextShows, PTL

-----------------------------------------------------------------------------
(* A battle has somebody to end it, as long as no replica dies and no call *)
(* to PostgreSQL fails.                                                    *)

\* The labels at which a handler may own the combat lock, and those of a
\* worker that has the timeout of a battle.
Holds == {"combatGuard", "combatClear", "combatCheck", "append", "writeResult",
          "setCombatRound", "scheduleTimeout", "release", "abandon"}
Ending == {"applyRead", "applyResult", "applyFlip", "persist", "commit", "finalize",
           "cleanup"}

\* The owner of the lock has not forgotten it, and plans no later round.
Holding ==
    combatLock # None =>
        /\ combatLock \in Handlers /\ pc[combatLock] \in Holds
        /\ ctx[combatLock].round <= round
        /\ ctx[combatLock].round = round => phase # "shop_place"

LockFree == \A w \in Handlers : pc[w] = "combatLock" => combatLock = None

\* Nobody who would clear combatRound is left over in a battle.
Undisturbed ==
    /\ \A w \in Handlers : pc[w] = "advanceReset" => ctx[w].round < round
    /\ \A w \in Handlers : pc[w] = "scheduleTimeout" =>
          ctx[w].round <= round /\ (ctx[w].round = round => phase # "shop_place")
    /\ phase = "battle" =>
          /\ Committing = {}
          /\ \A w \in Handlers : pc[w] # "advanceReset"
          /\ \A w \in Handlers :
                pc[w] = "scheduleTimeout" /\ ctx[w].round = round => combatRound = round

Workers ==
    \A w \in Handlers : ctx[w].job.type = "combat_done_timeout" =>
        pc[w] \in Ending /\ ctx[w].round = ctx[w].job.round

Driven ==
    phase = "battle" =>
        \/ Fighters # {}
        \/ Job("combat_done_timeout", round) \in jobs /\ combatRound = round

DriverInv == Holding /\ LockFree /\ Undisturbed /\ Workers /\ Driven

\* What a step of w may do to the phase, the lock, the timers and the jobs.
LEMMA StepShape ==
  ASSUME TypeOK, NEW w \in Handlers, Step(w)
  PROVE  /\ \/ round' = round /\ (phase' = phase \/ phase' # "shop_place")
            \/ round' = round + 1 /\ phase' = "shop_place" /\ Advance(w)
               /\ pc'[w] = "advanceReset"
         /\ phase' = "battle" /\ phase # "battle" =>
               StartFlip(w) /\ phase = "shop_place" /\ ctx[w].round = round
               /\ pc'[w] = "combatLock" /\ ctx' = ctx
         /\ combatLock' = combatLock \/ CombatLock(w) \/ Release(w)
         /\ combatRound' = combatRound \/ Commit(w) \/ SetCombatRound(w) \/ AdvanceReset(w)
         /\ \A j \in jobs \ jobs' : j = ctx[w].job /\ pc'[w] = "idle"
<1>p. /\ pc \in [Handlers -> Labels] /\ ctx[w] \in Contexts
      /\ \A label : Goto(w, label) => pc'[w] = label
      /\ \A new : Done(w, new) => pc'[w] = "idle" /\ jobs' = (jobs \ {ctx[w].job}) \union new
      /\ \A label : Join(w, label) => pc'[w] = label /\ jobs' = jobs
  BY DEF TypeOK, Goto, Done, Join
<1>1. /\ \/ round' = round /\ (phase' = phase \/ phase' # "shop_place")
         \/ round' = round + 1 /\ phase' = "shop_place" /\ Advance(w)
            /\ pc'[w] = "advanceReset"
      /\ phase' = "battle" /\ phase # "battle" =>
            StartFlip(w) /\ phase = "shop_place" /\ ctx[w].round = round
            /\ pc'[w] = "combatLock" /\ ctx' = ctx
  <2> USE DEF runtimeVars
  <2>1. CASE StartFlip(w) \/ ApplyFlip(w) \/ Commit(w) \/ Advance(w) \/ Quit(w)
    BY <1>p, <2>1 DEF StartFlip, ApplyFlip, Commit, Advance, Quit, At
  <2>2. CASE UNCHANGED <<phase, round>>
    BY <2>2
  <2>3. CASE CombatLock(w) \/ CombatGuard(w) \/ CombatClear(w) \/ CombatCheck(w)
             \/ AppendRound(w) \/ WriteResult(w) \/ SetCombatRound(w)
    BY <2>2, <2>3 DEF CombatLock, CombatGuard, CombatClear, CombatCheck, AppendRound,
                      WriteResult, SetCombatRound
  <2>4. CASE ReadyCount(w) \/ StartRead(w) \/ ScheduleTimeout(w) \/ Release(w)
             \/ Preview(w) \/ Ack(w) \/ ApplyRead(w) \/ ApplyResult(w)
    BY <2>2, <2>4 DEF ReadyCount, StartRead, ScheduleTimeout, Release, Preview, Ack,
                      ApplyRead, ApplyResult
  <2>5. CASE Persist(w) \/ Finalize(w) \/ ScheduleCleanup(w) \/ RoundReadySet(w)
             \/ RoundReadyCount(w) \/ AdvanceReset(w) \/ AdvanceSchedule(w)
    BY <2>2, <2>5 DEF Persist, Finalize, ScheduleCleanup, RoundReadySet, RoundReadyCount,
                      AdvanceReset, AdvanceSchedule
  <2>6. QED
    BY <2>1, <2>3, <2>4, <2>5 DEF Step
<1>2. /\ combatLock' = combatLock \/ CombatLock(w) \/ Release(w)
      /\ combatRound' = combatRound \/ Commit(w) \/ SetCombatRound(w) \/ AdvanceReset(w)
  <2> USE DEF runtimeVars, redisVars
  <2>1. CASE StartFlip(w) \/ ApplyFlip(w) \/ Commit(w) \/ Advance(w) \/ Quit(w)
    BY <2>1 DEF StartFlip, ApplyFlip, Commit, Advance, Quit
  <2>2. CASE CombatLock(w) \/ CombatGuard(w) \/ CombatClear(w) \/ CombatCheck(w)
             \/ AppendRound(w) \/ WriteResult(w) \/ SetCombatRound(w)
    BY <2>2 DEF CombatLock, CombatGuard, CombatClear, CombatCheck, AppendRound,
                WriteResult, SetCombatRound
  <2>3. CASE ReadyCount(w) \/ StartRead(w) \/ ScheduleTimeout(w) \/ Release(w)
             \/ Preview(w) \/ Ack(w) \/ ApplyRead(w) \/ ApplyResult(w)
    BY <2>3 DEF ReadyCount, StartRead, ScheduleTimeout, Release, Preview, Ack,
                ApplyRead, ApplyResult
  <2>4. CASE Persist(w) \/ Finalize(w) \/ ScheduleCleanup(w) \/ RoundReadySet(w)
             \/ RoundReadyCount(w) \/ AdvanceReset(w) \/ AdvanceSchedule(w)
    BY <2>4 DEF Persist, Finalize, ScheduleCleanup, RoundReadySet, RoundReadyCount,
                AdvanceReset, AdvanceSchedule
  <2>5. QED
    BY <2>1, <2>2, <2>3, <2>4 DEF Step
<1>3. \A j \in jobs \ jobs' : j = ctx[w].job /\ pc'[w] = "idle"
  <2>1. CASE StartFlip(w) \/ ApplyFlip(w) \/ Commit(w) \/ Advance(w) \/ Quit(w)
    BY <1>p, <2>1 DEF StartFlip, ApplyFlip, Commit, Advance, Quit
  <2>2. CASE CombatLock(w) \/ CombatGuard(w) \/ CombatClear(w) \/ CombatCheck(w)
             \/ AppendRound(w) \/ WriteResult(w) \/ SetCombatRound(w)
    BY <1>p, <2>2 DEF CombatLock, CombatGuard, CombatClear, CombatCheck, AppendRound,
                      WriteResult, SetCombatRound
  <2>3. CASE ReadyCount(w) \/ StartRead(w) \/ ScheduleTimeout(w) \/ Release(w)
             \/ Preview(w)
    BY <1>p, <2>3 DEF ReadyCount, StartRead, ScheduleTimeout, Release, Preview
  <2>4. CASE Ack(w) \/ ApplyRead(w) \/ ApplyResult(w) \/ Persist(w) \/ Finalize(w)
    BY <1>p, <2>4 DEF Ack, ApplyRead, ApplyResult, Persist, Finalize, Throw
  <2>5. CASE ScheduleCleanup(w) \/ RoundReadySet(w) \/ RoundReadyCount(w)
             \/ AdvanceReset(w) \/ AdvanceSchedule(w)
    BY <1>p, <2>5 DEF ScheduleCleanup, RoundReadySet, RoundReadyCount, AdvanceReset,
                      AdvanceSchedule
  <2>6. QED
    BY <2>1, <2>2, <2>3, <2>4, <2>5 DEF Step
<1>4. QED
  BY <1>1, <1>2, <1>3

\* Where the labels that matter here are entered.
LEMMA Entering ==
  ASSUME TypeOK, NEW w \in Handlers, Step(w)
  PROVE  /\ pc'[w] = "combatLock" => StartFlip(w)
         /\ pc'[w] = "advanceReset" => Advance(w)
         /\ pc'[w] = "scheduleTimeout" => SetCombatRound(w)
         /\ pc'[w] = "persist" => ApplyFlip(w)
         /\ pc'[w] = "commit" => Persist(w)
<1>p. /\ \A label : Goto(w, label) => pc'[w] = label
      /\ \A new : Done(w, new) => pc'[w] = "idle"
      /\ \A label : Join(w, label) => pc'[w] = label
  BY DEF TypeOK, Goto, Done, Join
<1>1. QED
  BY <1>p DEF Step, ReadyCount, StartRead, StartFlip, CombatLock, CombatGuard, CombatClear,
     CombatCheck, AppendRound, WriteResult, SetCombatRound, ScheduleTimeout, Release,
     Preview, Ack, ApplyRead, ApplyResult, ApplyFlip, Persist, Commit, Finalize,
     ScheduleCleanup, RoundReadySet, RoundReadyCount, Advance, AdvanceReset,
     AdvanceSchedule, Quit, Throw

\* The lock is given back before its owner forgets it.
LEMMA StepHolds ==
  ASSUME TypeOK, FightInv, DriverInv, NEW w \in Handlers, Step(w)
  PROVE  Holding'
<1>t. round \in Nat /\ ctx \in [Handlers -> Contexts] /\ pc \in [Handlers -> Labels]
      /\ \A v \in Handlers : ctx[v].round \in Nat /\ v # None
  BY HandlersAssumption DEF TypeOK, Contexts, Handlers
<1>o. /\ \A v \in Handlers \ {w} : pc'[v] = pc[v] /\ ctx'[v] = ctx[v]
      /\ pc'[w] = "idle" \/ ctx'[w].round = ctx[w].round
  BY OthersRest
<1>p. \A label : Goto(w, label) => pc'[w] = label
  BY <1>t DEF Goto
<1>1. CASE combatLock' = combatLock /\ combatLock # w
  BY <1>t, <1>o, <1>1, StepShape DEF DriverInv, Holding
<1>2. CASE combatLock' = combatLock /\ combatLock = w
  <2>1. /\ pc[w] \in Holds /\ ctx[w].round <= round
        /\ ctx[w].round = round => phase # "shop_place"
    BY <1>2, <1>t DEF DriverInv, Holding
  <2>2. ~Release(w)
    BY <1>2, <1>t DEF Release, ReleaseOwnedLock
  <2>3. pc'[w] \in Holds
    BY <1>p, <2>1, <2>2 DEF Holds, Step, ReadyCount, StartRead, StartFlip, CombatLock,
       CombatGuard, CombatClear, CombatCheck, AppendRound, WriteResult, SetCombatRound,
       ScheduleTimeout, Preview, Ack, ApplyRead, ApplyResult, ApplyFlip, Persist, Commit,
       Finalize, ScheduleCleanup, RoundReadySet, RoundReadyCount, Advance, AdvanceReset,
       AdvanceSchedule, Quit
  <2>4. pc'[w] # "idle" /\ pc'[w] # "advanceReset"
    BY <2>3 DEF Holds
  <2>5. QED
    BY <1>t, <1>o, <1>2, <2>1, <2>3, <2>4, StepShape DEF Holding
<1>3. CASE combatLock' # combatLock /\ CombatLock(w)
  <2>1. combatLock' = w /\ pc'[w] = "combatGuard" /\ pc[w] = "combatLock"
        /\ UNCHANGED <<phase, round>>
    BY <1>3, <1>p DEF CombatLock, runtimeVars
  <2>2. ctx[w].round = round /\ phase # "shop_place"
    BY <2>1 DEF FightInv, OneFight, InFight, FightLabels
  <2>3. QED
    BY <1>t, <1>o, <2>1, <2>2 DEF Holding, Holds
<1>4. CASE combatLock' # combatLock /\ Release(w)
  BY <1>4 DEF Release, ReleaseOwnedLock, Holding
<1>5. QED
  BY <1>1, <1>2, <1>3, <1>4, StepShape

\* The lock is free when a battle starts, because its last owner is gone.
LEMMA StepFrees ==
  ASSUME TypeOK, FightInv, DriverInv, NEW w \in Handlers, Step(w), NoStraggler
  PROVE  LockFree'
<1>t. round \in Nat /\ pc \in [Handlers -> Labels]
      /\ \A v \in Handlers : ctx[v].round \in Nat /\ v # None
  BY HandlersAssumption DEF TypeOK, Contexts, Handlers
<1>o. \A v \in Handlers \ {w} : pc'[v] = pc[v] /\ ctx'[v] = ctx[v]
  BY OthersRest
<1>p. \A label : Goto(w, label) => pc'[w] = label
  BY <1>t DEF Goto
<1>1. CASE StartFlip(w) /\ pc'[w] = "combatLock"
  <2>1. phase = "shop_place" /\ phase' = "battle" /\ combatLock' = combatLock
    BY <1>1 DEF StartFlip, At, Done, Goto, TypeOK, redisVars
  <2>2. Stragglers = {}
    BY <2>1 DEF NoStraggler
  <2>3. combatLock = None
    BY <1>t, <2>1, <2>2 DEF DriverInv, Holding, Holds, Stragglers
  <2>4. QED
    BY <2>1, <2>3 DEF LockFree
<1>2. CASE pc'[w] # "combatLock"
  <2> SUFFICES ASSUME NEW v \in Handlers, pc'[v] = "combatLock" PROVE combatLock' = None
    BY DEF LockFree
  <2>1. pc[v] = "combatLock" /\ v # w
    BY <1>o, <1>2
  <2>2. combatLock = None
    BY <2>1 DEF DriverInv, LockFree
  <2>3. ~CombatLock(w)
    BY <2>1 DEF CombatLock, FightInv, OneFight, InFight, FightLabels
  <2>4. QED
    BY <2>2, <2>3, StepShape DEF Release, ReleaseOwnedLock
<1>3. QED
  BY <1>1, <1>2, Entering

\* Nobody who could clear combatRound lives on into a battle.
LEMMA StepQuiets ==
  ASSUME IInv, FightInv, DriverInv, NEW w \in Handlers, Step(w), NoStraggler
  PROVE  Undisturbed'
<1>t. /\ TypeOK /\ round \in Nat /\ pc \in [Handlers -> Labels]
      /\ \A v \in Handlers : ctx[v].round \in Nat
  BY DEF IInv, TypeOK, Contexts
<1>o. /\ \A v \in Handlers \ {w} : pc'[v] = pc[v] /\ ctx'[v] = ctx[v]
      /\ pc'[w] = "idle" \/ ctx'[w].round = ctx[w].round
  BY <1>t, OthersRest
<1>1. ASSUME NEW v \in Handlers, pc'[v] = "advanceReset" PROVE ctx'[v].round < round'
  <2>1. CASE v # w
    BY <1>t, <1>o, <1>1, <2>1, StepShape DEF DriverInv, Undisturbed
  <2>2. CASE v = w
    <3>1. At("resolved", ctx[w].round) /\ round' = round + 1
      BY <1>t, <1>1, <2>2, Entering DEF Advance, Done, Goto
    <3>2. QED
      BY <1>t, <1>o, <1>1, <2>2, <3>1 DEF At
  <2>3. QED
    BY <2>1, <2>2
<1>s. pc'[w] = "scheduleTimeout" =>
         /\ ctx'[w].round = round /\ UNCHANGED <<phase, round>> /\ combatRound' = round
         /\ phase # "shop_place"
  <2> SUFFICES ASSUME pc'[w] = "scheduleTimeout"
               PROVE  /\ ctx'[w].round = round /\ UNCHANGED <<phase, round>>
                      /\ combatRound' = round /\ phase # "shop_place"
    OBVIOUS
  <2>1. SetCombatRound(w)
    BY <1>t, Entering
  <2>2. ctx[w].round = round /\ phase # "shop_place"
    BY <2>1 DEF SetCombatRound, FightInv, OneFight, InFight, FightLabels
  <2>3. QED
    BY <2>1, <2>2 DEF SetCombatRound
<1>2. ASSUME NEW v \in Handlers, pc'[v] = "scheduleTimeout"
      PROVE  ctx'[v].round <= round' /\ (ctx'[v].round = round' => phase' # "shop_place")
  <2>1. CASE v # w
    BY <1>t, <1>o, <1>2, <2>1, StepShape DEF DriverInv, Undisturbed
  <2>2. CASE v = w
    BY <1>t, <1>2, <1>s, <2>2
  <2>3. QED
    BY <2>1, <2>2
<1>3. ASSUME phase' = "battle", phase # "battle"
      PROVE  /\ Committing' = {}
             /\ \A v \in Handlers : pc'[v] # "advanceReset"
             /\ \A v \in Handlers :
                   pc'[v] = "scheduleTimeout" /\ ctx'[v].round = round' => combatRound' = round'
  <2>1. /\ phase = "shop_place" /\ ctx[w].round = round /\ pc'[w] = "combatLock"
        /\ ctx' = ctx /\ round' = round
    BY <1>t, <1>3, StepShape
  <2>2. \A v \in Handlers : pc[v] # "idle" => ~(ctx[v].round < round)
    BY <1>3, <2>1 DEF NoStraggler, Stragglers
  <2>3. \A v \in Committing : Past(ctx[v].round)
    BY DEF IInv, Charging, ChargesArePast
  <2>4. Committing = {}
    BY <1>t, <2>1, <2>2, <2>3 DEF Committing, Past
  <2>5. Committing' = {}
    BY <1>o, <2>1, <2>4 DEF Committing
  <2>6. \A v \in Handlers : pc'[v] # "advanceReset" /\ pc'[v] # "scheduleTimeout"
    BY <1>t, <1>o, <2>1, <2>2 DEF DriverInv, Undisturbed
  <2>7. QED
    BY <1>t, <2>1, <2>5, <2>6
<1>4. ASSUME phase' = "battle", phase = "battle"
      PROVE  /\ Committing' = {}
             /\ \A v \in Handlers : pc'[v] # "advanceReset"
             /\ \A v \in Handlers :
                   pc'[v] = "scheduleTimeout" /\ ctx'[v].round = round' => combatRound' = round'
  <2>1. round' = round /\ Committing = {} /\ \A v \in Handlers : pc[v] # "advanceReset"
    BY <1>t, <1>4, StepShape DEF DriverInv, Undisturbed
  <2>2. pc'[w] # "persist"
    <3>1. ASSUME pc'[w] = "persist", ApplyFlip(w) PROVE FALSE
      BY <1>t, <1>4, <3>1 DEF ApplyFlip, Done, Goto
    <3>2. QED
      BY <1>t, <3>1, Entering
  <2>3. pc'[w] # "commit"
    BY <1>t, <2>1, Entering DEF Persist, Committing
  <2>4. Committing' = {}
    BY <1>o, <2>1, <2>2, <2>3 DEF Committing
  <2>5. pc'[w] # "advanceReset"
    <3>1. ASSUME pc'[w] = "advanceReset", Advance(w) PROVE FALSE
      BY <1>t, <1>4, <3>1 DEF Advance, Done, Goto
    <3>2. QED
      BY <1>t, <3>1, Entering
  <2>6. combatRound' = combatRound \/ combatRound' = round
    BY <1>t, <2>1, StepShape DEF Commit, AdvanceReset, Committing, SetCombatRound, FightInv,
                             OneFight, InFight, FightLabels
  <2>7. ASSUME NEW v \in Handlers, pc'[v] = "scheduleTimeout", ctx'[v].round = round'
        PROVE  combatRound' = round'
    <3>1. CASE v = w
      BY <1>s, <2>1, <2>7, <3>1
    <3>2. CASE v # w
      BY <1>o, <1>4, <2>1, <2>6, <2>7, <3>2 DEF DriverInv, Undisturbed
    <3>3. QED
      BY <3>1, <3>2
  <2>8. QED
    BY <1>o, <2>1, <2>4, <2>5, <2>7
<1>5. QED
  BY <1>1, <1>2, <1>3, <1>4 DEF Undisturbed

\* A worker that has the timeout of a battle keeps it to the end.
LEMMA StepWorks ==
  ASSUME TypeOK, DriverInv, NEW w \in Handlers, Step(w)
  PROVE  Workers'
<1>o. /\ \A v \in Handlers \ {w} : pc'[v] = pc[v] /\ ctx'[v] = ctx[v]
      /\ \/ pc'[w] = "idle" /\ ctx'[w] = Blank
         \/ pc'[w] # "idle" /\ ctx'[w].round = ctx[w].round /\ ctx'[w].job = ctx[w].job
  BY OthersRest
<1>b. Blank.job.type = "none"
  BY DEF Blank, NoJob, Job
<1>1. ASSUME ctx'[w].job.type = "combat_done_timeout"
      PROVE  pc'[w] \in Ending /\ ctx'[w].round = ctx'[w].job.round
  <2>1. /\ pc'[w] # "idle" /\ ctx'[w].round = ctx[w].round /\ ctx'[w].job = ctx[w].job
    BY <1>o, <1>b, <1>1
  <2>2. pc[w] \in Ending /\ ctx[w].round = ctx[w].job.round
    BY <1>1, <2>1 DEF DriverInv, Workers
  <2>p. /\ \A label : Goto(w, label) => pc'[w] = label
        /\ \A new : Done(w, new) => pc'[w] = "idle"
    BY DEF TypeOK, Goto, Done
  <2>3. pc'[w] \in Ending
    BY <2>1, <2>2, <2>p DEF Ending, Step, ReadyCount, StartRead, StartFlip, CombatLock,
       CombatGuard, CombatClear, CombatCheck, AppendRound, WriteResult, SetCombatRound,
       ScheduleTimeout, Release, Preview, Ack, ApplyRead, ApplyResult, ApplyFlip, Persist,
       Commit, Finalize, ScheduleCleanup, RoundReadySet, RoundReadyCount, Advance,
       AdvanceReset, AdvanceSchedule, Quit, Throw
  <2>4. QED
    BY <2>1, <2>2, <2>3
<1>2. QED
  BY <1>o, <1>1 DEF DriverInv, Workers

\* The timeout of a battle leaves the queue only with the battle.
LEMMA TimeoutStays ==
  ASSUME IInv, FightInv, DriverInv, NEW w \in Handlers, Step(w),
         phase = "battle", phase' = "battle", combatRound = round,
         Job("combat_done_timeout", round) \in jobs
  PROVE  Job("combat_done_timeout", round) \in jobs'
<1> DEFINE j == Job("combat_done_timeout", round)
<1>t. TypeOK
  BY DEF IInv
<1> SUFFICES ASSUME j \notin jobs' PROVE FALSE
  OBVIOUS
<1>1. ctx[w].job = j /\ pc'[w] = "idle"
  BY <1>t, StepShape
<1>2. j.type = "combat_done_timeout" /\ j.round = round
  BY DEF Job
<1>3. pc[w] \in Ending /\ ctx[w].round = round
  BY <1>1, <1>2 DEF DriverInv, Workers
<1>4. pc[w] \notin {"persist", "commit"}
  BY DEF DriverInv, Undisturbed, Committing
<1>5. pc[w] \notin {"finalize", "cleanup"}
  BY DEF IInv, Stopping, ClosersStopped
<1>6. result.round = round /\ round >= 1
  BY DEF FightInv, CombatKnown, Recorded, IInv, Charging
<1>7. result # NoResult
  BY <1>t, <1>6 DEF NoResult, TypeOK
<1>8. \A label : Goto(w, label) => pc'[w] = label
  BY <1>t DEF Goto, TypeOK
<1>9. pc[w] # "applyRead"
  <2>1. ASSUME ApplyRead(w) PROVE FALSE
    BY <1>1, <1>3, <1>8, <2>1 DEF ApplyRead, At
  <2>2. QED
    BY <2>1 DEF Step, ReadyCount, StartRead, StartFlip, CombatLock, CombatGuard, CombatClear,
     CombatCheck, AppendRound, WriteResult, SetCombatRound, ScheduleTimeout, Release,
     Preview, Ack, ApplyResult, ApplyFlip, Persist, Commit, Finalize,
     ScheduleCleanup, RoundReadySet, RoundReadyCount, Advance, AdvanceReset,
     AdvanceSchedule, Quit
<1>10. pc[w] # "applyResult"
  <2>1. ASSUME ApplyResult(w) PROVE FALSE
    BY <1>1, <1>7, <1>8, <2>1 DEF ApplyResult
  <2>2. QED
    BY <2>1 DEF Step, ReadyCount, StartRead, StartFlip, CombatLock, CombatGuard, CombatClear,
     CombatCheck, AppendRound, WriteResult, SetCombatRound, ScheduleTimeout, Release,
     Preview, Ack, ApplyRead, ApplyFlip, Persist, Commit, Finalize,
     ScheduleCleanup, RoundReadySet, RoundReadyCount, Advance, AdvanceReset,
     AdvanceSchedule, Quit
<1>11. pc[w] # "applyFlip"
  <2>1. ASSUME ApplyFlip(w) PROVE FALSE
    BY <1>3, <2>1 DEF ApplyFlip, At
  <2>2. QED
    BY <2>1 DEF Step, ReadyCount, StartRead, StartFlip, CombatLock, CombatGuard, CombatClear,
     CombatCheck, AppendRound, WriteResult, SetCombatRound, ScheduleTimeout, Release,
     Preview, Ack, ApplyRead, ApplyResult, Persist, Commit, Finalize,
     ScheduleCleanup, RoundReadySet, RoundReadyCount, Advance, AdvanceReset,
     AdvanceSchedule, Quit
<1>12. QED
  BY <1>3, <1>4, <1>5, <1>9, <1>10, <1>11 DEF Ending

\* The handler that fights schedules the timeout before it leaves.
LEMMA StepDrives ==
  ASSUME MaxFaults = 0, IInv, FightInv, DriverInv, NEW w \in Handlers, Step(w)
  PROVE  Driven'
<1>t. TypeOK /\ pc \in [Handlers -> Labels] /\ ctx \in [Handlers -> Contexts]
  BY DEF IInv, TypeOK
<1>o. \A v \in Handlers \ {w} : pc'[v] = pc[v] /\ ctx'[v] = ctx[v]
  BY <1>t, OthersRest
<1> SUFFICES ASSUME phase' = "battle" PROVE Driven'
  BY DEF Driven
<1>1. CASE phase # "battle"
  <2>1. ctx[w].round = round /\ pc'[w] = "combatLock" /\ ctx' = ctx /\ round' = round
    BY <1>t, <1>1, StepShape
  <2>2. w \in Fighters'
    BY <2>1 DEF Fighters
  <2>3. QED
    BY <2>2 DEF Driven
<1>2. CASE phase = "battle"
  <2>r. round' = round
    BY <1>t, <1>2, StepShape
  <2>1. ASSUME Job("combat_done_timeout", round) \in jobs, combatRound = round PROVE Driven'
    <3>1. combatRound' = combatRound
      <4>1. ~Commit(w) /\ ~AdvanceReset(w)
        BY <1>2 DEF DriverInv, Undisturbed, Commit, AdvanceReset, Committing
      <4>2. ~SetCombatRound(w)
        BY <1>2, <2>1 DEF FightInv, CombatKnown, Recorded, SetCombatRound, InFight,
                          FightLabels
      <4>3. QED
        BY <1>t, <4>1, <4>2, StepShape
    <3>2. Job("combat_done_timeout", round) \in jobs'
      BY <1>2, <2>1, TimeoutStays
    <3>3. Job("combat_done_timeout", round)' = Job("combat_done_timeout", round)
      BY <2>r DEF Job
    <3>4. QED
      BY <2>1, <2>r, <3>1, <3>2, <3>3 DEF Driven
  <2>2. ASSUME NEW f \in Fighters, f # w PROVE Driven'
    <3>1. f \in Fighters'
      BY <1>o, <2>2, <2>r DEF Fighters
    <3>2. QED
      BY <3>1 DEF Driven
  <2>3. ASSUME w \in Fighters PROVE Driven'
    <3>g. \A label : Goto(w, label) => pc'[w] = label
      BY <1>t DEF Goto
    <3>p. ctx[w].round = round /\ pc[w] \in FightLabels \union {"scheduleTimeout"}
      BY <2>3 DEF Fighters, FightLabels
    <3>1. CASE pc[w] = "scheduleTimeout"
      <4>1. ScheduleTimeout(w)
        BY <3>1 DEF Step, ReadyCount, StartRead, StartFlip, CombatLock, CombatGuard,
         CombatClear, CombatCheck, AppendRound, WriteResult, SetCombatRound, Release,
         Preview, Ack, ApplyRead, ApplyResult, ApplyFlip, Persist, Commit, Finalize,
         ScheduleCleanup, RoundReadySet, RoundReadyCount, Advance, AdvanceReset,
         AdvanceSchedule, Quit
      <4>2. Job("combat_done_timeout", round) \in jobs' /\ combatRound' = combatRound
        BY <3>p, <4>1 DEF ScheduleTimeout, runtimeVars
      <4>3. combatRound = round
        BY <1>2, <3>1, <3>p DEF DriverInv, Undisturbed
      <4>4. Job("combat_done_timeout", round)' = Job("combat_done_timeout", round)
        BY <2>r DEF Job
      <4>5. QED
        BY <2>r, <4>2, <4>3, <4>4 DEF Driven
    <3>2. CASE pc[w] \in FightLabels
      <4>1. w \in InFight
        BY <3>2 DEF InFight
      <4>2. combatRound # round
        BY <1>2, <4>1 DEF FightInv, CombatKnown, Recorded
      <4>3. pc[w] = "combatLock" => combatLock = None
        BY DEF DriverInv, LockFree
      <4>4. faults >= MaxFaults
        BY <1>t DEF TypeOK
      <4>5. CombatLock(w) \/ CombatGuard(w) \/ CombatClear(w) \/ CombatCheck(w)
            \/ AppendRound(w) \/ WriteResult(w) \/ SetCombatRound(w)
        BY <3>2 DEF FightLabels, Step, ReadyCount, StartRead, StartFlip, ScheduleTimeout,
         Release, Preview, Ack, ApplyRead, ApplyResult, ApplyFlip, Persist, Commit, Finalize,
         ScheduleCleanup, RoundReadySet, RoundReadyCount, Advance, AdvanceReset,
         AdvanceSchedule, Quit
      <4>6. pc'[w] \in {"combatGuard", "combatClear", "combatCheck", "append", "writeResult",
                       "setCombatRound", "scheduleTimeout"}
        BY <1>2, <1>t, <3>g, <3>p, <4>2, <4>3, <4>4, <4>5 DEF TypeOK, CombatLock,
           CombatGuard, CombatClear, CombatCheck, AppendRound, WriteResult, SetCombatRound, At
      <4>7. ctx'[w].round = ctx[w].round
        BY <1>t, <4>6, OthersRest
      <4>8. w \in Fighters'
        BY <2>r, <3>p, <4>6, <4>7 DEF Fighters
      <4>9. QED
        BY <4>8 DEF Driven
    <3>3. QED
      BY <3>1, <3>2, <3>p
  <2>4. QED
    BY <1>2, <2>1, <2>2, <2>3 DEF DriverInv, Driven
<1>3. QED
  BY <1>1, <1>2

\* Messages, jobs and timers begin nothing that disturbs it; nobody dies.
LEMMA WorldDrives ==
  ASSUME MaxCrashes = 0, TypeOK, DriverInv, Next, ~\E w \in Handlers : Step(w)
  PROVE  DriverInv'
<1>1. /\ UNCHANGED <<phase, round, combatRound>>
      /\ \A v \in Handlers :
           \/ pc'[v] = pc[v] /\ ctx'[v] = ctx[v]
           \/ pc'[v] = "idle"
           \/ pc'[v] \in {"readyCount", "ack", "roundReady", "quit",
                          "startRead", "applyRead", "advance"}
  BY WorldRests
<1>2. ASSUME NEW w \in Handlers, NEW c, NEW label, Begin(w, label, c), jobs' = jobs,
             combatLock' = combatLock,
             c.job.type = "combat_done_timeout" =>
                 label = "applyRead" /\ c.round = c.job.round,
             label \in {"readyCount", "ack", "roundReady", "quit", "startRead", "applyRead",
                        "advance"}
      PROVE  DriverInv'
  <2>1. /\ pc[w] = "idle" /\ pc'[w] = label /\ ctx'[w] = c
        /\ \A v \in Handlers \ {w} : pc'[v] = pc[v] /\ ctx'[v] = ctx[v]
    BY <1>2 DEF Begin, Goto, TypeOK
  <2>2. Holding'
    BY <1>1, <1>2, <2>1 DEF DriverInv, Holding, Holds
  <2>3. LockFree'
    BY <1>2, <2>1 DEF DriverInv, LockFree
  <2>4. Committing' \subseteq Committing
    BY <1>2, <2>1 DEF Committing
  <2>5. Undisturbed'
    BY <1>1, <1>2, <2>1, <2>4 DEF DriverInv, Undisturbed
  <2>6. Workers'
    BY <1>2, <2>1 DEF DriverInv, Workers, Ending
  <2>7. Fighters \subseteq Fighters'
    BY <1>1, <2>1 DEF Fighters
  <2>8. Driven'
    BY <1>1, <1>2, <2>7 DEF DriverInv, Driven, Job
  <2>9. QED
    BY <2>2, <2>3, <2>5, <2>6, <2>8 DEF DriverInv
<1>3. ASSUME NEW w \in WsHandlers, NEW p \in Players, Client(w, p) PROVE DriverInv'
  <2>w. w \in Handlers /\ Blank.job.type = "none"
    BY DEF Handlers, Blank, NoJob, Job
  <2> DEFINE m == [Blank EXCEPT !.player = p, !.round = round]
             q(why) == [Blank EXCEPT !.player = p, !.round = round, !.expect = phase,
                                     !.reason = why]
  <2>c. m.job = Blank.job /\ \A why : q(why).job = Blank.job
    BY DEF Blank
  <2>1. \/ Begin(w, "readyCount", m) \/ Begin(w, "ack", m) \/ Begin(w, "roundReady", m)
        \/ Begin(w, "quit", q("forfeit")) \/ Begin(w, "quit", q("disconnect"))
    BY <1>3 DEF Client, Ready, CombatDone, RoundReady, Surrender, Disconnect
  <2>2. jobs' = jobs /\ combatLock' = combatLock
    BY <1>3 DEF Client, Ready, CombatDone, RoundReady, Surrender, Disconnect, redisVars
  <2> HIDE DEF m, q
  <2>3. QED
    BY <1>2, <2>w, <2>c, <2>1, <2>2
<1>4. ASSUME NEW w \in JobHandlers, NEW j \in jobs, PickJob(w, j) PROVE DriverInv'
  <2>w. w \in Handlers
    BY DEF Handlers
  <2> DEFINE c == [Blank EXCEPT !.job = j, !.round = j.round]
  <2>1. Begin(w, FirstStep(j), c) /\ jobs' = jobs /\ combatLock' = combatLock
    BY <1>4 DEF PickJob, redisVars
  <2>2. c.job = j /\ c.round = j.round
    BY DEF Blank
  <2>3. /\ FirstStep(j) \in {"startRead", "applyRead", "advance"}
        /\ j.type = "combat_done_timeout" => FirstStep(j) = "applyRead"
    BY DEF FirstStep
  <2> HIDE DEF c
  <2>4. QED
    BY <1>2, <2>w, <2>1, <2>2, <2>3
<1>5. ASSUME UNCHANGED <<pc, ctx, jobs>>, combatLock' \in {combatLock, None}
      PROVE  DriverInv'
  <2>1. Holding' /\ LockFree'
    BY <1>1, <1>5 DEF DriverInv, Holding, LockFree
  <2>2. Undisturbed' /\ Workers'
    BY <1>1, <1>5 DEF DriverInv, Undisturbed, Workers, Committing
  <2>3. Driven'
    BY <1>1, <1>5 DEF DriverInv, Driven, Fighters, Job
  <2>4. QED
    BY <2>1, <2>2, <2>3 DEF DriverInv
<1>6. CASE (\E p \in Players : Reconnect(p)) \/ ExpireLock \/ ExpireAcks
  BY <1>5, <1>6 DEF Reconnect, ExpireLock, ExpireAcks, redisVars
<1>7. ~\E S \in SUBSET Handlers : Crash(S)
  BY DEF Crash, TypeOK
<1>8. QED
  BY <1>3, <1>4, <1>6, <1>7 DEF Next

LEMMA InitDrives == Init => DriverInv
<1> SUFFICES ASSUME Init PROVE DriverInv
  OBVIOUS
<1>1. /\ \A v \in Handlers : pc[v] = "idle" /\ ctx[v] = Blank
      /\ phase = "shop_place" /\ combatLock = None
  BY DEF Init
<1>2. Blank.job.type = "none"
  BY DEF Blank, NoJob, Job
<1>3. QED
  BY <1>1, <1>2 DEF DriverInv, Holding, LockFree, Undisturbed, Workers, Driven

\* As long as no replica dies and no call to PostgreSQL fails, a battle always
\* has a handler on its way to schedule its timeout, or the timeout: although
\* a lock left over from the battle before would make the handler that starts
\* this one return, and a late handler could clear the round of the combat.
THEOREM BattlesAreDriven ==
  ASSUME MaxCrashes = 0, MaxFaults = 0
  PROVE  PromptSpec => []BattleHasDriver
<1>1. IInv /\ FightInv /\ DriverInv /\ [Next /\ NoStraggler]_vars => DriverInv'
  <2> SUFFICES ASSUME IInv, FightInv, DriverInv, [Next /\ NoStraggler]_vars
               PROVE  DriverInv'
    OBVIOUS
  <2>t. TypeOK
    BY DEF IInv
  <2>1. CASE UNCHANGED vars
    <3>1. /\ UNCHANGED <<phase, round, combatRound, combatLock, jobs, pc, ctx>>
      BY <2>1 DEF vars, runtimeVars, redisVars
    <3>2. QED
      BY <3>1 DEF DriverInv, Holding, LockFree, Undisturbed, Workers, Driven, Committing,
                  Fighters, Job
  <2>2. ASSUME NEW w \in Handlers, Step(w), NoStraggler PROVE DriverInv'
    BY <2>t, <2>2, StepHolds, StepFrees, StepQuiets, StepWorks, StepDrives DEF DriverInv
  <2>3. QED
    BY <2>t, <2>1, <2>2, WorldDrives
<1>2. FightInv /\ DriverInv => BattleHasDriver
  BY DEF FightInv, CombatKnown, Recorded, DriverInv, Driven, BattleHasDriver
<1>3. PromptSpec => []IInv /\ []FightInv
  BY PromptIsSpec, Invariance, FightHolds, PTL
<1>4. QED
  BY <1>1, <1>2, <1>3, InitDrives, PTL DEF PromptSpec

-----------------------------------------------------------------------------
(* What PostgreSQL says of a match that ended by knock-out is what         *)
(* happened in it.                                                         *)

\* The events of this round are in PostgreSQL.
Kept == round \in savedRounds

\* The events of a round are there before anybody can take it out of battle.
Appended ==
    /\ 1..(round - 1) \subseteq savedRounds /\ savedRounds \subseteq 1..round
    /\ combatRound = round => Kept
    /\ \A w \in Handlers :
          /\ pc[w] \in {"writeResult", "setCombatRound"} => Kept
          /\ pc[w] \in {"applyResult", "applyFlip"} /\ At("battle", ctx[w].round) => Kept
    /\ phase = "resolved" \/ Committing # {} => Kept

\* Only a player who leaves gives a match another reason to end.
KnockedOut ==
    \A w \in Handlers :
        /\ pc[w] = "quit" => ctx[w].reason # "hp_zero"
        /\ pc[w] \notin {"quit", "finalize", "cleanup"} => ctx[w].reason = "hp_zero"

\* The snapshot is what the knock-out left, and nobody will replace it.
Settled(h) == Committing = {} /\ snapshot = h /\ Over(h) /\ Kept

Closing ==
    /\ \A w \in Handlers : pc[w] = "commit" => snapshot = ctx[w].hp
    /\ \A w \in Handlers :
          pc[w] = "finalize" /\ ctx[w].reason = "hp_zero" => Settled(ctx[w].hp)
    /\ status = "finished" => Settled(snapshot) /\ winner = MatchWinner(snapshot)

RowInv == Appended /\ KnockedOut /\ Closing

-----------------------------------------------------------------------------
\* What a step may do to the row of the match and to the phase.
LEMMA RowShape ==
  ASSUME TypeOK, NEW w \in Handlers, Step(w)
  PROVE  /\ savedRounds' = savedRounds \/ AppendRound(w)
         /\ snapshot' = snapshot \/ Persist(w)
         /\ UNCHANGED <<status, winner>> \/ Finalize(w)
         /\ phase = "finished" => phase' = "finished"
         /\ phase' = "resolved" => phase = "resolved" \/ ApplyFlip(w)
<1> USE DEF runtimeVars, pgVars, At
<1>1. CASE StartFlip(w) \/ ApplyFlip(w) \/ Commit(w) \/ Advance(w) \/ Quit(w)
  BY <1>1 DEF StartFlip, ApplyFlip, Commit, Advance, Quit
<1>2. CASE CombatLock(w) \/ CombatGuard(w) \/ CombatClear(w) \/ CombatCheck(w)
           \/ AppendRound(w) \/ WriteResult(w) \/ SetCombatRound(w)
  BY <1>2 DEF CombatLock, CombatGuard, CombatClear, CombatCheck, AppendRound, WriteResult,
              SetCombatRound
<1>3. CASE ReadyCount(w) \/ StartRead(w) \/ ScheduleTimeout(w) \/ Release(w)
           \/ Preview(w) \/ Ack(w) \/ ApplyRead(w) \/ ApplyResult(w)
  BY <1>3 DEF ReadyCount, StartRead, ScheduleTimeout, Release, Preview, Ack, ApplyRead,
              ApplyResult
<1>4. CASE Persist(w) \/ Finalize(w) \/ ScheduleCleanup(w) \/ RoundReadySet(w)
           \/ RoundReadyCount(w) \/ AdvanceReset(w) \/ AdvanceSchedule(w)
  BY <1>4 DEF Persist, Finalize, ScheduleCleanup, RoundReadySet, RoundReadyCount,
              AdvanceReset, AdvanceSchedule
<1>5. QED
  BY <1>1, <1>2, <1>3, <1>4 DEF Step

\* A handler keeps its reason; and where some more labels are entered.
LEMMA Arriving ==
  ASSUME TypeOK, NEW w \in Handlers, Step(w)
  PROVE  /\ pc'[w] # "quit"
         /\ pc'[w] = "writeResult" => AppendRound(w)
         /\ pc'[w] = "setCombatRound" => WriteResult(w)
         /\ pc'[w] = "applyResult" => ApplyRead(w)
         /\ pc'[w] = "applyFlip" => ApplyResult(w)
         /\ pc'[w] = "finalize" => Commit(w) \/ Quit(w)
         /\ pc[w] \in {"quit", "finalize", "cleanup"} =>
               pc'[w] \in {"idle", "finalize", "cleanup"}
<1>p. /\ \A label : Goto(w, label) => pc'[w] = label
      /\ \A new : Done(w, new) => pc'[w] = "idle"
      /\ \A label : Join(w, label) => pc'[w] = label
  BY DEF TypeOK, Goto, Done, Join
<1>1. QED
  BY <1>p DEF Step, ReadyCount, StartRead, StartFlip, CombatLock, CombatGuard, CombatClear,
     CombatCheck, AppendRound, WriteResult, SetCombatRound, ScheduleTimeout, Release,
     Preview, Ack, ApplyRead, ApplyResult, ApplyFlip, Persist, Commit, Finalize,
     ScheduleCleanup, RoundReadySet, RoundReadyCount, Advance, AdvanceReset,
     AdvanceSchedule, Quit, Throw

LEMMA ReasonKept ==
  ASSUME TypeOK, NEW w \in Handlers, Step(w)
  PROVE  (pc'[w] = "idle" /\ ctx'[w] = Blank) \/ ctx'[w].reason = ctx[w].reason
<1>t. pc \in [Handlers -> Labels] /\ ctx \in [Handlers -> Contexts] /\ ctx[w] \in Contexts
  BY DEF TypeOK
<1>d. \A new : Done(w, new) => pc'[w] = "idle" /\ ctx'[w] = Blank
  BY <1>t DEF Done, Goto
<1>j. \A label : Join(w, label) => ctx'[w].reason = ctx[w].reason
  BY <1>t DEF Join, Contexts
<1>1. CASE StartRead(w) \/ CombatClear(w) \/ ApplyRead(w) \/ ApplyResult(w)
  BY <1>t, <1>d, <1>1 DEF StartRead, CombatClear, ApplyRead, ApplyResult, Contexts
<1>2. CASE ReadyCount(w) \/ Ack(w) \/ RoundReadyCount(w)
  BY <1>d, <1>j, <1>2 DEF ReadyCount, Ack, RoundReadyCount
<1>3. CASE StartFlip(w) \/ CombatLock(w) \/ CombatGuard(w) \/ CombatCheck(w) \/ AppendRound(w)
  BY <1>d, <1>3 DEF StartFlip, CombatLock, CombatGuard, CombatCheck, AppendRound
<1>4. CASE WriteResult(w) \/ SetCombatRound(w) \/ ScheduleTimeout(w) \/ Release(w) \/ Preview(w)
  BY <1>d, <1>4 DEF WriteResult, SetCombatRound, ScheduleTimeout, Release, Preview
<1>5. CASE ApplyFlip(w) \/ Persist(w) \/ Commit(w) \/ Finalize(w) \/ ScheduleCleanup(w)
  BY <1>d, <1>5 DEF ApplyFlip, Persist, Commit, Finalize, ScheduleCleanup, Throw
<1>6. CASE RoundReadySet(w) \/ Advance(w) \/ AdvanceReset(w) \/ AdvanceSchedule(w) \/ Quit(w)
  BY <1>d, <1>6 DEF RoundReadySet, Advance, AdvanceReset, AdvanceSchedule, Quit
<1>7. QED
  BY <1>1, <1>2, <1>3, <1>4, <1>5, <1>6 DEF Step

-----------------------------------------------------------------------------
\* The next round begins when the events of this one are there.
LEMMA AdvanceAppends ==
  ASSUME IInv, PaceInv, FightInv, RowInv, NEW w \in Handlers, Advance(w),
         pc'[w] = "advanceReset", \A v \in Handlers \ {w} : pc'[v] = pc[v] /\ ctx'[v] = ctx[v]
  PROVE  Appended'
<1>1. /\ pc[w] = "advance" /\ At("resolved", ctx[w].round) /\ round' = round + 1
      /\ phase' = "shop_place" /\ UNCHANGED <<combatRound, savedRounds>>
  BY DEF Advance, Done, Goto, IInv, TypeOK, pgVars
<1>2. Len(history) = round /\ round \in Nat /\ Len(history) \in Nat
  BY <1>1 DEF PaceInv, SummariesPaced, SummaryLabels, Summed, At, IInv, TypeOK
<1>3. Committing = {} /\ Committing' = {}
  BY <1>1, <1>2 DEF PaceInv, ChargesPaced, Committing, Owed
<1>4. Kept /\ InFight = {}
  BY <1>1 DEF RowInv, Appended, At, FightInv, OneFight
<1>5. \A v \in Handlers : pc'[v] \notin {"writeResult", "setCombatRound"}
  BY <1>1, <1>4 DEF InFight, FightLabels
<1>6. 1..(round' - 1) \subseteq savedRounds' /\ savedRounds' \subseteq 1..round'
  BY <1>1, <1>2, <1>4 DEF RowInv, Appended, Kept
<1>7. combatRound' # round'
  BY <1>1, <1>2 DEF FightInv, CombatKnown
<1>8. QED
  BY <1>1, <1>3, <1>5, <1>6, <1>7 DEF Appended, At

LEMMA StepAppends ==
  ASSUME IInv, PaceInv, FightInv, RowInv, NEW w \in Handlers, Step(w)
  PROVE  Appended'
<1>t. /\ TypeOK /\ round \in Nat /\ round >= 1 /\ pc \in [Handlers -> Labels]
  BY DEF IInv, TypeOK, Charging
<1>o. /\ \A v \in Handlers \ {w} : pc'[v] = pc[v] /\ ctx'[v] = ctx[v]
      /\ pc'[w] = "idle" \/ ctx'[w].round = ctx[w].round
  BY <1>t, OthersRest
<1>g. \A label : Goto(w, label) => pc'[w] = label
  BY <1>t DEF Goto
<1>1. CASE Advance(w) /\ pc'[w] = "advanceReset"
  BY <1>o, <1>1, AdvanceAppends
<1>2. CASE round' = round
  <2>1. AppendRound(w) => /\ ctx[w].round = round
                          /\ savedRounds' \in {savedRounds, savedRounds \union {round}}
                          /\ pc'[w] = "writeResult" => round \in savedRounds'
    <3>1. AppendRound(w) => ctx[w].round = round
      BY DEF AppendRound, FightInv, OneFight, InFight, FightLabels
    <3>2. QED
      BY <1>g, <3>1 DEF AppendRound
  <2>2. /\ 1..(round - 1) \subseteq savedRounds' /\ savedRounds' \subseteq 1..round
        /\ Kept => Kept'
    BY <1>t, <1>2, <2>1, RowShape DEF RowInv, Appended, Kept
  <2>3. combatRound' = round => Kept'
    <3>1. CASE combatRound' = combatRound
      BY <2>2, <3>1 DEF RowInv, Appended
    <3>2. CASE SetCombatRound(w)
      BY <2>2, <3>2 DEF SetCombatRound, RowInv, Appended
    <3>3. CASE Commit(w) \/ AdvanceReset(w)
      BY <1>t, <2>2, <3>3 DEF Commit, AdvanceReset, RowInv, Appended
    <3>4. QED
      BY <1>t, <3>1, <3>2, <3>3, StepShape
  <2>4. ASSUME NEW v \in Handlers, pc'[v] \in {"writeResult", "setCombatRound"} PROVE Kept'
    <3>1. CASE pc[v] \in {"writeResult", "setCombatRound"}
      BY <2>2, <3>1 DEF RowInv, Appended
    <3>2. CASE pc[v] \notin {"writeResult", "setCombatRound"}
      <4>1. v = w
        BY <1>o, <2>4, <3>2
      <4>2. pc'[w] = "writeResult" /\ AppendRound(w)
        BY <1>t, <2>4, <3>2, <4>1, Arriving DEF WriteResult
      <4>3. QED
        BY <1>2, <2>1, <4>2 DEF Kept
    <3>3. QED
      BY <3>1, <3>2
  <2>5. ASSUME NEW v \in Handlers, pc'[v] \in {"applyResult", "applyFlip"},
               At("battle", ctx[v].round)'
        PROVE  Kept'
    <3>1. phase' = "battle" /\ ctx'[v].round = round
      BY <1>2, <2>5 DEF At
    <3>2. CASE phase # "battle"
      <4>1. /\ phase = "shop_place" /\ pc'[w] = "combatLock" /\ ctx' = ctx
        BY <1>t, <3>1, <3>2, StepShape
      <4>2. v \in Applying /\ ctx[v].round = round
        BY <1>o, <2>5, <3>1, <4>1 DEF Applying
      <4>3. QED
        BY <4>1, <4>2 DEF FightInv, ApplyingOwn
    <3>3. CASE phase = "battle" /\ pc[v] \in {"applyResult", "applyFlip"}
      <4>1. ctx[v].round = round
        BY <1>o, <2>5, <3>1
      <4>2. QED
        BY <2>2, <3>3, <4>1 DEF RowInv, Appended, At
    <3>4. CASE phase = "battle" /\ pc[v] \notin {"applyResult", "applyFlip"}
      <4>1. v = w
        BY <1>o, <2>5, <3>4
      <4>2. ApplyRead(w) /\ pc'[w] = "applyResult"
        BY <1>t, <2>5, <3>4, <4>1, Arriving DEF ApplyResult
      <4>3. combatRound = ctx[w].round /\ ctx[w].round = round
        BY <1>g, <1>t, <4>2 DEF ApplyRead, Done, At
      <4>4. QED
        BY <2>2, <4>3 DEF RowInv, Appended
    <3>5. QED
      BY <3>2, <3>3, <3>4
  <2>6. ApplyFlip(w) /\ pc'[w] = "persist" => Kept'
    <3>1. ApplyFlip(w) /\ pc'[w] = "persist" =>
             pc[w] = "applyFlip" /\ At("battle", ctx[w].round)
      BY <1>t DEF ApplyFlip, Done, Goto
    <3>2. QED
      BY <2>2, <3>1 DEF RowInv, Appended
  <2>7. phase' = "resolved" => Kept'
    <3>1. ASSUME phase # "resolved", phase' = "resolved" PROVE pc'[w] = "persist" /\ ApplyFlip(w)
      <4>1. ApplyFlip(w)
        BY <1>t, <3>1, RowShape
      <4>2. QED
        BY <1>g, <3>1, <4>1 DEF ApplyFlip
    <3>2. QED
      BY <2>2, <2>6, <3>1 DEF RowInv, Appended
  <2>8. Committing' # {} => Kept'
    <3> SUFFICES ASSUME NEW v \in Committing' PROVE Kept'
      OBVIOUS
    <3>1. CASE v \in Committing
      BY <2>2, <3>1 DEF RowInv, Appended
    <3>2. CASE v \notin Committing
      <4>1. v = w /\ pc'[w] \in {"persist", "commit"} /\ pc[w] \notin {"persist", "commit"}
        BY <1>o, <3>2 DEF Committing
      <4>2. pc'[w] = "persist" /\ ApplyFlip(w)
        BY <1>t, <4>1, Entering DEF Persist
      <4>3. QED
        BY <2>6, <4>2
    <3>3. QED
      BY <3>1, <3>2
  <2>9. QED
    BY <1>2, <2>2, <2>3, <2>4, <2>5, <2>7, <2>8 DEF Appended
<1>3. QED
  BY <1>t, <1>1, <1>2, StepShape

LEMMA StepKnocks ==
  ASSUME TypeOK, RowInv, NEW w \in Handlers, Step(w)
  PROVE  KnockedOut'
<1>o. \A v \in Handlers \ {w} : pc'[v] = pc[v] /\ ctx'[v] = ctx[v]
  BY OthersRest
<1>b. Blank.reason = "hp_zero"
  BY DEF Blank
<1>1. pc'[w] \notin {"quit", "finalize", "cleanup"} => ctx'[w].reason = "hp_zero"
  <2> SUFFICES ASSUME pc'[w] \notin {"quit", "finalize", "cleanup"}
               PROVE  ctx'[w].reason = "hp_zero"
    OBVIOUS
  <2>1. CASE pc'[w] = "idle" /\ ctx'[w] = Blank
    BY <1>b, <2>1
  <2>2. CASE pc[w] \notin {"quit", "finalize", "cleanup"}
    BY <1>b, <2>2, ReasonKept DEF RowInv, KnockedOut
  <2>3. CASE pc[w] \in {"quit", "finalize", "cleanup"}
    <3>1. pc'[w] = "idle"
      BY <2>3, Arriving
    <3>2. QED
      BY <1>b, <3>1, OthersRest
  <2>4. QED
    BY <2>2, <2>3
<1>2. QED
  BY <1>o, <1>1, Arriving DEF RowInv, KnockedOut

\* There is one handler at most between the flip to "resolved" and the charge.
LEMMA OneAtATime ==
  ASSUME IInv, PaceInv
  PROVE  \A v, w \in Committing : v = w
  BY DEF IInv, Charging, OneCharger, PaceInv, ChargesPaced

LEMMA StepCloses ==
  ASSUME IInv, PaceInv, FightInv, RowInv, NEW w \in Handlers, Step(w)
  PROVE  Closing'
<1>t. /\ TypeOK /\ pc \in [Handlers -> Labels] /\ ctx \in [Handlers -> Contexts]
  BY DEF IInv, TypeOK
<1>o. \A v \in Handlers \ {w} : pc'[v] = pc[v] /\ ctx'[v] = ctx[v]
  BY <1>t, OthersRest
<1>g. \A label : Goto(w, label) => pc'[w] = label
  BY <1>t DEF Goto
<1>d. \A new : Done(w, new) => pc'[w] = "idle"
  BY <1>t DEF Done, Goto
<1>1. ASSUME NEW v \in Handlers, pc'[v] = "commit" PROVE snapshot' = ctx'[v].hp
  <2>1. CASE v = w
    <3>1. Persist(w)
      BY <1>t, <1>1, <2>1, Entering
    <3>2. QED
      BY <1>d, <1>1, <2>1, <3>1 DEF Persist, Throw
  <2>2. CASE v # w
    <3>1. v \in Committing /\ pc[v] = "commit" /\ ctx'[v] = ctx[v]
      BY <1>o, <1>1, <2>2 DEF Committing
    <3>2. ~Persist(w)
      BY <2>2, <3>1, OneAtATime DEF Persist, Committing
    <3>3. QED
      BY <1>t, <3>1, <3>2, RowShape DEF RowInv, Closing
  <2>3. QED
    BY <2>1, <2>2
<1>s. ASSUME phase = "finished", Committing = {}, Kept
      PROVE  Committing' = {} /\ snapshot' = snapshot /\ Kept'
  <2>1. pc'[w] # "persist"
    <3>1. ~ApplyFlip(w) \/ pc'[w] = "idle"
      BY <1>s, <1>d DEF ApplyFlip, At
    <3>2. QED
      BY <1>t, <3>1, Entering
  <2>2. pc'[w] # "commit" /\ snapshot' = snapshot
    BY <1>t, <1>s, Entering, RowShape DEF Committing, Persist
  <2>3. Committing' = {}
    BY <1>o, <1>s, <2>1, <2>2 DEF Committing
  <2>4. round' = round
    <3>1. ~(Advance(w) /\ pc'[w] = "advanceReset")
      BY <1>s, <1>d DEF Advance, At
    <3>2. QED
      BY <1>t, <3>1, StepShape
  <2>5. Kept'
    BY <1>t, <1>s, <2>4, RowShape DEF Kept, AppendRound
  <2>6. QED
    BY <2>2, <2>3, <2>5
<1>2. ASSUME NEW v \in Handlers, pc'[v] = "finalize", ctx'[v].reason = "hp_zero"
      PROVE  Settled(ctx[v].hp)'
  <2>1. CASE v # w
    <3>1. Settled(ctx[v].hp) /\ phase = "finished" /\ ctx'[v] = ctx[v]
      BY <1>o, <1>2, <2>1 DEF RowInv, Closing, IInv, Stopping, ClosersStopped
    <3>2. Committing' = {} /\ snapshot' = snapshot /\ Kept'
      BY <1>s, <3>1 DEF Settled
    <3>3. QED
      BY <3>1, <3>2 DEF Settled, Over
  <2>2. CASE v = w /\ Quit(w)
    <3>1. pc[w] = "quit" /\ ctx' = ctx
      BY <1>d, <1>2, <2>2 DEF Quit
    <3>2. QED
      BY <1>2, <2>2, <3>1 DEF RowInv, KnockedOut
  <2>3. CASE v = w /\ Commit(w)
    <3>1. /\ pc[w] = "commit" /\ Over(ctx[w].hp) /\ ctx' = ctx
          /\ UNCHANGED <<round, snapshot, savedRounds>>
      BY <1>d, <1>2, <2>3 DEF Commit, pgVars
    <3>2. w \in Committing /\ snapshot = ctx[w].hp
      BY <3>1 DEF Committing, RowInv, Closing
    <3>3. Committing' = {}
      BY <1>o, <1>2, <2>3, <3>2, OneAtATime DEF Committing
    <3>4. Kept'
      BY <3>1, <3>2 DEF RowInv, Appended, Kept
    <3>5. QED
      BY <2>3, <3>1, <3>2, <3>3, <3>4 DEF Settled, Over
  <2>4. QED
    BY <1>t, <1>2, <2>1, <2>2, <2>3, Arriving
<1>3. ASSUME status' = "finished"
      PROVE  Settled(snapshot)' /\ winner' = MatchWinner(snapshot')
  <2>1. CASE status = "finished" /\ UNCHANGED <<status, winner>>
    <3>1. Settled(snapshot) /\ phase = "finished" /\ winner = MatchWinner(snapshot)
      BY <2>1 DEF RowInv, Closing, IInv, Stopping, ClosedMatchIsStopped
    <3>2. Committing' = {} /\ snapshot' = snapshot /\ Kept'
      BY <1>s, <3>1 DEF Settled
    <3>3. QED
      BY <2>1, <3>1, <3>2 DEF Settled, Over
  <2>2. CASE ~UNCHANGED <<status, winner>>
    <3>1. Finalize(w) /\ CloseRow(w)
      BY <1>t, <2>2, RowShape DEF Finalize
    <3>2. /\ ctx[w].reason = "hp_zero" /\ winner' = MatchWinner(ctx[w].hp)
          /\ pc[w] = "finalize"
      BY <1>3, <3>1 DEF CloseRow, Finalize
    <3>3. w \in Handlers /\ Settled(ctx[w].hp) /\ phase = "finished"
      BY <3>2 DEF RowInv, Closing, IInv, Stopping, ClosersStopped
    <3>4. Committing' = {} /\ snapshot' = snapshot /\ Kept'
      BY <1>s, <3>3 DEF Settled
    <3>5. QED
      BY <3>2, <3>3, <3>4 DEF Settled, Over
  <2>3. QED
    BY <1>3, <2>1, <2>2
<1>4. QED
  BY <1>1, <1>2, <1>3 DEF Closing

-----------------------------------------------------------------------------
LEMMA StepRows ==
  ASSUME IInv, PaceInv, FightInv, RowInv, NEW w \in Handlers, Step(w)
  PROVE  RowInv'
<1>1. TypeOK
  BY DEF IInv
<1>2. QED
  BY <1>1, StepAppends, StepKnocks, StepCloses DEF RowInv

\* What players, timers and crashes begin.
LEMMA WorldRows ==
  ASSUME TypeOK, RowInv, Next, ~\E w \in Handlers : Step(w)
  PROVE  RowInv'
<1> USE DEF pgVars
<1>b. Blank.reason = "hp_zero"
  BY DEF Blank
<1>1. /\ UNCHANGED <<phase, round, combatRound, status, snapshot>>
      /\ \A v \in Handlers :
           \/ pc'[v] = pc[v] /\ ctx'[v] = ctx[v]
           \/ pc'[v] = "idle"
           \/ pc'[v] \in {"readyCount", "ack", "roundReady", "quit",
                          "startRead", "applyRead", "advance"}
  BY WorldRests
<1>2. UNCHANGED <<savedRounds, winner>>
  BY DEF Next, Client, Ready, CombatDone, RoundReady, Surrender, Disconnect, PickJob,
         Reconnect, ExpireLock, ExpireAcks, Crash
<1>3. Committing' \subseteq Committing
  BY <1>1 DEF Committing
<1>4. Appended'
  BY <1>1, <1>2, <1>3 DEF RowInv, Appended, Kept, At
<1>5. Closing'
  <2>1. \A v \in Handlers : pc'[v] \in {"commit", "finalize"} =>
                               pc'[v] = pc[v] /\ ctx'[v] = ctx[v]
    BY <1>1
  <2>2. QED
    BY <1>1, <1>2, <1>3, <2>1 DEF RowInv, Closing, Settled, Kept, Over
<1>6. KnockedOut'
  <2>1. ASSUME NEW w \in WsHandlers, NEW p \in Players, Client(w, p) PROVE KnockedOut'
    <3> DEFINE m == [Blank EXCEPT !.player = p, !.round = round]
               q(why) == [Blank EXCEPT !.player = p, !.round = round, !.expect = phase,
                                       !.reason = why]
    <3>c. m.reason = "hp_zero" /\ \A why : q(why).reason = why
      BY DEF Blank
    <3>1. \/ Begin(w, "readyCount", m) \/ Begin(w, "ack", m) \/ Begin(w, "roundReady", m)
          \/ Begin(w, "quit", q("forfeit")) \/ Begin(w, "quit", q("disconnect"))
      BY <2>1 DEF Client, Ready, CombatDone, RoundReady, Surrender, Disconnect
    <3> HIDE DEF m, q
    <3>2. \A v \in Handlers \ {w} : pc'[v] = pc[v] /\ ctx'[v] = ctx[v]
      BY <3>1 DEF Begin, Goto, TypeOK
    <3>3. \/ pc'[w] \in {"readyCount", "ack", "roundReady"} /\ ctx'[w].reason = "hp_zero"
          \/ pc'[w] = "quit" /\ ctx'[w].reason # "hp_zero"
      BY <3>1, <3>c DEF Begin, Goto, TypeOK, Handlers
    <3>4. QED
      BY <3>2, <3>3 DEF RowInv, KnockedOut
  <2>2. ASSUME NEW w \in JobHandlers, NEW j \in jobs, PickJob(w, j) PROVE KnockedOut'
    <3> DEFINE c == [Blank EXCEPT !.job = j, !.round = j.round]
    <3>1. Begin(w, FirstStep(j), c)
      BY <2>2 DEF PickJob
    <3>2. c.reason = "hp_zero"
      BY DEF Blank
    <3> HIDE DEF c
    <3>3. /\ \A v \in Handlers \ {w} : pc'[v] = pc[v] /\ ctx'[v] = ctx[v]
          /\ pc'[w] = FirstStep(j) /\ ctx'[w].reason = "hp_zero"
      BY <3>1, <3>2 DEF Begin, Goto, TypeOK, Handlers
    <3>4. FirstStep(j) \in {"startRead", "applyRead", "advance"}
      BY DEF FirstStep
    <3>5. QED
      BY <3>3, <3>4 DEF RowInv, KnockedOut
  <2>3. CASE (\E p \in Players : Reconnect(p)) \/ ExpireLock \/ ExpireAcks
    BY <2>3 DEF Reconnect, ExpireLock, ExpireAcks, RowInv, KnockedOut
  <2>4. CASE \E S \in SUBSET Handlers : Crash(S)
    BY <1>b, <2>4 DEF Crash, RowInv, KnockedOut
  <2>5. QED
    BY <2>1, <2>2, <2>3, <2>4 DEF Next
<1>7. QED
  BY <1>4, <1>5, <1>6 DEF RowInv

LEMMA InitRows == Init => RowInv
<1> SUFFICES ASSUME Init PROVE RowInv
  OBVIOUS
<1>1. /\ \A v \in Handlers : pc[v] = "idle" /\ ctx[v] = Blank
      /\ phase = "shop_place" /\ round = 1 /\ combatRound = 0 /\ savedRounds = {}
      /\ status = "in_progress"
  BY DEF Init
<1>2. Appended
  BY <1>1 DEF Appended, Committing
<1>3. KnockedOut /\ Closing
  BY <1>1 DEF KnockedOut, Closing, Blank
<1>4. QED
  BY <1>2, <1>3 DEF RowInv

\* The survivor of a knock-out is the player with hit points left.
LEMMA SurvivorWins ==
  ASSUME NEW h \in [Players -> Nat], Over(h)
  PROVE  \A p \in Players : MatchWinner(h) = p <=> h[p] > 0
<1>1. P1 # P2 /\ None # P1 /\ None # P2 /\ Players = {P1, P2}
  BY PlayersAssumption DEF Players
<1>2. h[P1] \in Nat /\ h[P2] \in Nat /\ (h[P1] = 0 \/ h[P2] = 0)
  BY <1>1 DEF Over
<1>3. QED
  BY <1>1, <1>2 DEF MatchWinner

\* When clients wait for the event of a phase and no handler is a round late,
\* the row of a match that ended by knock-out shows the knock-out and every
\* round of it: although the snapshot, the events and the verdict are three
\* writes, of several handlers, and no transaction holds them together.
THEOREM TheRowAgrees ==
  ASSUME Eager = {}
  PROVE  PromptSpec => []KnockoutRowAgrees
<1>1. IInv /\ PaceInv /\ FightInv /\ RowInv /\ [Next]_vars => RowInv'
  <2> SUFFICES ASSUME IInv, PaceInv, FightInv, RowInv, [Next]_vars PROVE RowInv'
    OBVIOUS
  <2>t. TypeOK
    BY DEF IInv
  <2>1. CASE UNCHANGED vars
    <3>1. UNCHANGED <<phase, round, combatRound, pc, ctx, status, winner, snapshot, savedRounds>>
      BY <2>1 DEF vars, runtimeVars, pgVars
    <3>2. QED
      BY <3>1 DEF RowInv, Appended, KnockedOut, Closing, Settled, Kept, Committing, At, Over,
                  MatchWinner
  <2>2. QED
    BY <2>t, <2>1, StepRows, WorldRows
<1>2. IInv /\ RowInv => KnockoutRowAgrees
  <2> SUFFICES ASSUME IInv, RowInv, status = "finished" PROVE KnockoutRowAgrees
    BY DEF KnockoutRowAgrees
  <2>1. Settled(snapshot) /\ winner = MatchWinner(snapshot)
    BY DEF RowInv, Closing
  <2>2. snapshot \in [Players -> Nat] /\ round \in Nat /\ round >= 1
    BY DEF IInv, TypeOK, Charging
  <2>3. savedRounds = 1..round
    <3>1. 1..(round - 1) \subseteq savedRounds /\ round \in savedRounds
          /\ savedRounds \subseteq 1..round
      BY <2>1 DEF RowInv, Appended, Settled, Kept
    <3>2. \A r \in 1..round : r \in 1..(round - 1) \/ r = round
      BY <2>2
    <3>3. QED
      BY <3>1, <3>2
  <2>4. QED
    BY <2>1, <2>2, <2>3, SurvivorWins DEF KnockoutRowAgrees, Settled
<1>3. PromptSpec => []IInv /\ []FightInv
  BY PromptIsSpec, Invariance, FightHolds, PTL
<1>4. PromptSpec => []PaceInv
  BY PaceHolds
<1>5. PromptSpec => Init /\ [][Next]_vars
  BY PromptIsSpec, PTL DEF Spec
<1>6. QED
  BY <1>1, <1>2, <1>3, <1>4, <1>5, InitRows, PTL
-----------------------------------------------------------------------------
(* The hit points are the sum of the rounds.  What Replay says of a longer *)
(* history is shown by minima: of the histories, or of the rounds of one,  *)
(* that disagree, take the first.                                          *)

Less == {p \in Nat \X Nat : p[1] < p[2]}

LEMMA LessIsWellFounded == IsWellFoundedOn(Less, Nat)
  BY NatLessThanWellFounded DEF Less, OpToRel

\* Every non-empty set of naturals has a least member.
LEMMA LeastOf ==
  ASSUME NEW T \in SUBSET Nat, T # {}
  PROVE  \E m \in T : \A k \in T : m <= k
<1>1. PICK m \in T : \A k \in T : <<k, m>> \notin Less
  BY LessIsWellFounded, WFMin
<1>2. SUFFICES ASSUME NEW k \in T PROVE m <= k
  BY <1>1
<1>3. <<k, m>> \in Nat \X Nat /\ <<k, m>>[1] = k /\ <<k, m>>[2] = m
  OBVIOUS
<1>4. ~(k < m)
  BY <1>1, <1>3 DEF Less
<1>5. QED
  BY <1>4

Charges == [round: Nat, from: Nat, won: Outcomes]

\* The players before the first round, and after a round that left them at s.
Fresh0     == [hp |-> [p \in Players |-> InitialHp], wipe |-> [p \in Players |-> 0]]
Then(won, s) == [hp |-> HpAfter(won, s.hp, s.wipe), wipe |-> WipeAfter(won, s.wipe)]

\* f is the replay of h, round by round.
Replays(f, h) ==
    f = [n \in 0..Len(h) |-> IF n = 0 THEN Fresh0 ELSE Then(h[n].won, f[n-1])]

LEMMA ReplayIs ==
  ASSUME NEW h
  PROVE  Replay(h) = (CHOOSE f : Replays(f, h))[Len(h)]
  BY DEF Replay, Replays, Then, Fresh0

LEMMA ReplayExists ==
  ASSUME NEW h \in Seq(Charges)
  PROVE  \E f : Replays(f, h)
<1> DEFINE T == {n \in Nat : \E g \in Seq(Charges) : Len(g) = n /\ ~\E f : Replays(f, g)}
<1>1. SUFFICES ASSUME T # {} PROVE FALSE
  OBVIOUS
<1>2. PICK n \in T : \A k \in T : n <= k
  BY <1>1, LeastOf
<1>3. PICK g \in Seq(Charges) : Len(g) = n /\ ~\E f : Replays(f, g)
  OBVIOUS
<1>4. n \in Nat
  OBVIOUS
<1>5. CASE n = 0
  <2> DEFINE f == [k \in 0..0 |-> Fresh0]
  <2>1. f = [k \in 0..Len(g) |-> IF k = 0 THEN Fresh0 ELSE Then(g[k].won, f[k-1])]
    BY <1>3, <1>5
  <2>2. QED
    BY <1>3, <2>1 DEF Replays
<1>6. CASE n > 0
  <2> DEFINE b == SubSeq(g, 1, n - 1)
  <2>1. b \in Seq(Charges) /\ Len(b) = n - 1 /\ \A k \in 1..(n-1) : b[k] = g[k]
    BY <1>3, <1>4, <1>6
  <2>2. n - 1 \in Nat /\ n - 1 \notin T
    BY <1>2, <1>4, <1>6
  <2>3. PICK a : Replays(a, b)
    BY <2>1, <2>2
  <2> DEFINE f == [k \in 0..n |-> IF k = n THEN Then(g[n].won, a[n-1]) ELSE a[k]]
  <2>4. \A k \in 0..(n-1) : a[k] = IF k = 0 THEN Fresh0 ELSE Then(b[k].won, a[k-1])
    BY <2>1, <2>3 DEF Replays
  <2>5. ASSUME NEW k \in 0..n
        PROVE  f[k] = IF k = 0 THEN Fresh0 ELSE Then(g[k].won, f[k-1])
    <3>1. CASE k = n
      <4>1. f[n-1] = a[n-1] /\ k # 0
        BY <1>4, <1>6, <3>1
      <4>2. QED
        BY <3>1, <4>1
    <3>2. CASE k # n /\ k # 0
      <4>1. k \in 1..(n-1) /\ k \in 0..(n-1) /\ k - 1 \in 0..n /\ k - 1 # n
        BY <1>4, <3>2
      <4>2. f[k] = a[k] /\ f[k-1] = a[k-1]
        BY <3>2, <4>1
      <4>3. a[k] = Then(b[k].won, a[k-1]) /\ b[k] = g[k]
        BY <2>1, <2>4, <3>2, <4>1
      <4>4. QED
        BY <3>2, <4>2, <4>3
    <3>3. CASE k # n /\ k = 0
      <4>1. f[k] = a[k] /\ a[k] = Fresh0
        BY <1>4, <1>6, <2>4, <3>3
      <4>2. QED
        BY <3>3, <4>1
    <3>4. QED
      BY <3>1, <3>2, <3>3
  <2>6. DOMAIN f = 0..n /\ f = [k \in 0..n |-> f[k]]
    OBVIOUS
  <2> HIDE DEF f
  <2>7. f = [k \in 0..n |-> IF k = 0 THEN Fresh0 ELSE Then(g[k].won, f[k-1])]
    BY <2>5, <2>6
  <2>8. QED
    BY <1>3, <2>7 DEF Replays
<1>7. QED
  BY <1>4, <1>5, <1>6

\* A history and a longer one are replayed alike as far as the first goes.
LEMMA ReplayPrefix ==
  ASSUME NEW h \in Seq(Charges), NEW e \in Charges, NEW f, NEW g,
         Replays(f, h), Replays(g, Append(h, e))
  PROVE  \A k \in 0..Len(h) : f[k] = g[k]
<1> DEFINE T == {k \in 0..Len(h) : f[k] # g[k]}
<1>1. SUFFICES ASSUME T # {} PROVE FALSE
  OBVIOUS
<1>2. PICK n \in T : \A k \in T : n <= k
  <2>1. T \in SUBSET Nat
    OBVIOUS
  <2>2. QED
    BY <1>1, <2>1, LeastOf
<1>3. n \in 0..Len(h) /\ f[n] # g[n] /\ Len(h) \in Nat /\ n \in 0..(Len(h) + 1)
  OBVIOUS
<1>4. f[n] = IF n = 0 THEN Fresh0 ELSE Then(h[n].won, f[n-1])
  BY <1>3 DEF Replays
<1>5. g[n] = IF n = 0 THEN Fresh0 ELSE Then(Append(h, e)[n].won, g[n-1])
  <2>1. PICK b : b = Append(h, e)
    OBVIOUS
  <2>2. Len(b) = Len(h) + 1
    BY <2>1
  <2>3. g = [k \in 0..(Len(h) + 1) |-> IF k = 0 THEN Fresh0 ELSE Then(b[k].won, g[k-1])]
    BY <2>1, <2>2 DEF Replays
  <2>4. QED
    BY <1>3, <2>1, <2>3
<1>6. n # 0
  BY <1>3, <1>4, <1>5
<1>7. n - 1 \in 0..Len(h) /\ n - 1 \notin T /\ n \in 1..Len(h)
  BY <1>2, <1>3, <1>6
<1>8. Append(h, e)[n] = h[n] /\ f[n-1] = g[n-1]
  BY <1>7
<1>9. QED
  BY <1>3, <1>4, <1>5, <1>6, <1>8

\* One more round is one more charge.
LEMMA ReplayStep ==
  ASSUME NEW h \in Seq(Charges), NEW e \in Charges
  PROVE  Replay(Append(h, e)) = Then(e.won, Replay(h))
<1> DEFINE b == Append(h, e)
           f == CHOOSE x : Replays(x, h)
           g == CHOOSE x : Replays(x, b)
<1>1. b \in Seq(Charges) /\ Len(b) = Len(h) + 1 /\ b[Len(h) + 1] = e /\ Len(h) \in Nat
  OBVIOUS
<1>2. Replays(f, h) /\ Replays(g, b)
  BY <1>1, ReplayExists
<1>3. Replay(h) = f[Len(h)] /\ Replay(b) = g[Len(b)]
  BY ReplayIs
<1> HIDE DEF f, g
<1>4. f[Len(h)] = g[Len(h)]
  BY <1>1, <1>2, ReplayPrefix
<1>5. g[Len(b)] = Then(b[Len(b)].won, g[Len(b) - 1])
  BY <1>1, <1>2 DEF Replays
<1>6. QED
  BY <1>1, <1>3, <1>4, <1>5

LEMMA ReplayOfNothing == Replay(<<>>) = Fresh0
<1> DEFINE f == CHOOSE x : Replays(x, <<>>)
<1>1. Replays(f, <<>>)
  <2>1. \E x : Replays(x, <<>>)
    <3>1. <<>> \in Seq(Charges)
      OBVIOUS
    <3>2. QED
      BY <3>1, ReplayExists
  <2>2. QED
    BY <2>1, Zenon
<1>2. Replay(<<>>) = f[0]
  BY ReplayIs
<1> HIDE DEF f
<1>3. f[0] = Fresh0
  BY <1>1 DEF Replays
<1>4. QED
  BY <1>2, <1>3
\* v holds what the hash will be when its round is charged to what it is now.
Carries(v) ==
    /\ ctx[v].hp = HpAfter(ctx[v].won, hp, wipe)
    /\ ctx[v].wipe = WipeAfter(ctx[v].won, wipe)

\* The handlers that may still write the hash.
Bearing(v) ==
    \/ pc[v] = "applyFlip" /\ At("battle", ctx[v].round)
    \/ v \in Committing

SumInv ==
    /\ \A v \in Handlers : Bearing(v) => Carries(v)
    /\ HpIsTheSumOfRounds

\* Steps that leave the hash alone answer for the handlers they move.
LEMMA SumRests ==
  ASSUME FightInv, SumInv, UNCHANGED <<hp, wipe, history>>,
         phase' = "battle" => round' = round /\ phase \in {"shop_place", "battle"},
         \A v \in Handlers :
             \/ pc'[v] = pc[v] /\ ctx'[v] = ctx[v]
             \/ Bearing(v)' => Carries(v)'
  PROVE  SumInv'
<1>1. HpIsTheSumOfRounds'
  BY DEF SumInv, HpIsTheSumOfRounds
<1>2. ASSUME NEW v \in Handlers, Bearing(v)', pc'[v] = pc[v], ctx'[v] = ctx[v]
      PROVE  Carries(v)'
  <2>1. Bearing(v)
    BY <1>2 DEF Bearing, At, Committing, FightInv, ApplyingOwn, Applying
  <2>2. QED
    BY <1>2, <2>1 DEF SumInv, Carries
<1>3. QED
  BY <1>1, <1>2 DEF SumInv

\* The charge: nobody else is about to charge, and no battle is left to end.
LEMMA CommitSums ==
  ASSUME IInv, PaceInv, SumInv, NEW w \in Handlers, Commit(w),
         \A v \in Handlers \ {w} : pc'[v] = pc[v] /\ ctx'[v] = ctx[v]
  PROVE  SumInv'
<1>t. /\ pc \in [Handlers -> Labels] /\ history \in Seq(Charges) /\ ctx[w] \in Contexts
      /\ w \in Committing
  BY DEF IInv, TypeOK, Committing, Commit, Charges
<1>1. PICK e \in Charges : e = [round |-> ctx[w].round, from |-> ctx[w].from, won |-> ctx[w].won]
  BY <1>t DEF Contexts, Charges
<1>2. /\ history' = Append(history, e) /\ e.won = ctx[w].won
      /\ hp' = ctx[w].hp /\ wipe' = ctx[w].wipe
      /\ phase' \in {phase, "finished"} /\ pc'[w] \in {"finalize", "idle"}
  BY <1>t, <1>1 DEF Commit, Charge, Goto, Done
<1>3. ctx[w].round = round /\ phase \in {"resolved", "finished"}
  BY <1>t DEF PaceInv, ChargesPaced, IInv, Charging, ChargesArePast, Past
<1>4. Committing' = {}
  BY <1>2, <1>3 DEF PaceInv, ChargesPaced, Committing, IInv, Charging, OneCharger, Commit
<1>5. \A v \in Handlers : ~Bearing(v)'
  BY <1>2, <1>3, <1>4 DEF Bearing, At
<1>6. Carries(w)
  BY <1>t DEF SumInv, Bearing
<1>7. Replay(history') = Then(e.won, Replay(history))
  BY <1>t, <1>2, ReplayStep
<1>8. hp' = Then(e.won, Replay(history)).hp /\ wipe' = Then(e.won, Replay(history)).wipe
  BY <1>2, <1>6 DEF Carries, Then, SumInv, HpIsTheSumOfRounds
<1>9. HpIsTheSumOfRounds'
  BY <1>7, <1>8 DEF HpIsTheSumOfRounds
<1>10. QED
  BY <1>5, <1>9 DEF SumInv

\* Every step of a handler keeps SumInv.
LEMMA StepSums ==
  ASSUME IInv, PaceInv, FightInv, PreviewInv, SumInv, NEW w \in Handlers, Step(w)
  PROVE  SumInv'
<1>t. TypeOK /\ pc \in [Handlers -> Labels] /\ ctx \in [Handlers -> Contexts] /\ ctx[w] \in Contexts
  BY DEF IInv, TypeOK
<1>o. \A v \in Handlers \ {w} : pc'[v] = pc[v] /\ ctx'[v] = ctx[v]
  BY <1>t, OthersRest
<1>p. /\ \A label : Goto(w, label) => pc'[w] = label
      /\ \A new : Done(w, new) => pc'[w] = "idle"
      /\ \A label : Join(w, label) => pc'[w] = label
  BY <1>t DEF Goto, Done, Join
<1>a. ASSUME UNCHANGED <<hp, wipe, history>>,
             phase' = "battle" => round' = round /\ phase \in {"shop_place", "battle"},
             pc'[w] \notin {"applyFlip", "persist", "commit"}
      PROVE  SumInv'
  BY <1>o, <1>a, SumRests DEF Bearing, Committing
<1> USE DEF runtimeVars, redisVars, pgVars, ghostVars
<1>1. CASE ReadyCount(w) \/ StartRead(w) \/ Ack(w) \/ ApplyRead(w) \/ RoundReadyCount(w)
  <2>1. UNCHANGED <<hp, wipe, history, phase, round>>
    BY <1>1 DEF ReadyCount, StartRead, Ack, ApplyRead, RoundReadyCount
  <2>2. pc'[w] \notin {"applyFlip", "persist", "commit"}
    BY <1>1, <1>p DEF ReadyCount, StartRead, Ack, ApplyRead, RoundReadyCount
  <2>3. TypeOK /\ (phase' = "battle" => round' = round /\ phase \in {"shop_place", "battle"})
    BY <1>t, <2>1
  <2>4. QED
    BY <1>a, <2>1, <2>2, <2>3
<1>2. CASE CombatLock(w) \/ CombatGuard(w) \/ CombatClear(w) \/ CombatCheck(w)
           \/ AppendRound(w) \/ WriteResult(w) \/ SetCombatRound(w)
  <2>1. UNCHANGED <<hp, wipe, history, phase, round>>
    BY <1>2 DEF CombatLock, CombatGuard, CombatClear, CombatCheck, AppendRound, WriteResult,
                SetCombatRound
  <2>2. pc'[w] \notin {"applyFlip", "persist", "commit"}
    BY <1>2, <1>p DEF CombatLock, CombatGuard, CombatClear, CombatCheck, AppendRound,
                      WriteResult, SetCombatRound
  <2>3. QED
    BY <1>a, <2>1, <2>2
<1>3. CASE ScheduleTimeout(w) \/ Release(w) \/ Preview(w) \/ Finalize(w) \/ ScheduleCleanup(w)
           \/ RoundReadySet(w) \/ AdvanceReset(w) \/ AdvanceSchedule(w)
  <2>1. UNCHANGED <<hp, wipe, history, phase, round>>
    BY <1>3 DEF ScheduleTimeout, Release, Preview, Finalize, ScheduleCleanup, RoundReadySet,
                AdvanceReset, AdvanceSchedule
  <2>2. pc'[w] \notin {"applyFlip", "persist", "commit"}
    BY <1>3, <1>p DEF ScheduleTimeout, Release, Preview, Finalize, ScheduleCleanup, Throw,
                      RoundReadySet, AdvanceReset, AdvanceSchedule
  <2>3. QED
    BY <1>a, <2>1, <2>2
<1>4. CASE StartFlip(w) \/ Advance(w) \/ Quit(w)
  <2>1. /\ UNCHANGED <<hp, wipe, history>>
        /\ phase' = "battle" => round' = round /\ phase \in {"shop_place", "battle"}
    BY <1>4 DEF StartFlip, Advance, Quit, At
  <2>2. pc'[w] \notin {"applyFlip", "persist", "commit"}
    BY <1>4, <1>p DEF StartFlip, Advance, Quit
  <2>3. QED
    BY <1>a, <2>1, <2>2
<1>5. CASE ApplyResult(w)
  <2>1. UNCHANGED <<hp, wipe, history, phase, round>> /\ pc[w] = "applyResult"
    BY <1>5 DEF ApplyResult
  <2>2. CASE pc'[w] = "idle"
    BY <1>a, <2>1, <2>2
  <2>3. CASE pc'[w] # "idle"
    <3>1. /\ pc'[w] = "applyFlip"
          /\ ctx' = [ctx EXCEPT
                ![w].hp   = HpAfter(result.won, ctx[w].hp, ctx[w].wipe),
                ![w].wipe = WipeAfter(result.won, ctx[w].wipe),
                ![w].won  = result.won,
                ![w].from = result.round]
      BY <1>5, <1>p, <2>3 DEF ApplyResult
    <3>2. /\ ctx'[w].hp = HpAfter(result.won, ctx[w].hp, ctx[w].wipe)
          /\ ctx'[w].wipe = WipeAfter(result.won, ctx[w].wipe)
          /\ ctx'[w].won = result.won /\ ctx'[w].round = ctx[w].round
      BY <1>t, <3>1 DEF Contexts
    <3>3. Bearing(w)' => Carries(w)'
      <4>1. SUFFICES ASSUME Bearing(w)' PROVE Carries(w)'
        OBVIOUS
      <4>2. At("battle", ctx[w].round)
        BY <2>1, <3>1, <3>2, <4>1 DEF Bearing, At, Committing
      <4>3. ctx[w].hp = hp /\ ctx[w].wipe = wipe
        BY <2>1, <4>2 DEF PreviewInv, Told, Paying, Fresh
      <4>4. QED
        BY <2>1, <3>2, <4>3 DEF Carries
    <3>4. QED
      BY <1>o, <2>1, <3>3, SumRests
  <2>4. QED
    BY <2>2, <2>3
<1>6. CASE ApplyFlip(w)
  <2>1. UNCHANGED <<hp, wipe, history, round>> /\ pc[w] = "applyFlip"
        /\ phase' \in {phase, "resolved"}
    BY <1>6 DEF ApplyFlip
  <2>2. CASE pc'[w] = "idle"
    BY <1>a, <2>1, <2>2
  <2>3. CASE pc'[w] # "idle"
    <3>1. pc'[w] = "persist" /\ ctx' = ctx /\ At("battle", ctx[w].round)
      BY <1>6, <1>p, <2>3 DEF ApplyFlip
    <3>2. Bearing(w)
      BY <2>1, <3>1 DEF Bearing
    <3>3. Carries(w)'
      BY <2>1, <3>1, <3>2 DEF SumInv, Carries
    <3>4. QED
      BY <1>o, <2>1, <3>3, SumRests
  <2>4. QED
    BY <2>2, <2>3
<1>7. CASE Persist(w)
  <2>1. UNCHANGED <<hp, wipe, history, phase, round>> /\ pc[w] = "persist"
    BY <1>7 DEF Persist
  <2>2. CASE pc'[w] = "idle"
    BY <1>a, <2>1, <2>2
  <2>3. CASE pc'[w] # "idle"
    <3>1. ctx' = ctx
      BY <1>7, <1>p, <2>3 DEF Persist, Throw
    <3>2. Bearing(w)
      BY <2>1 DEF Bearing, Committing
    <3>3. Carries(w)'
      BY <2>1, <3>1, <3>2 DEF SumInv, Carries
    <3>4. QED
      BY <1>o, <2>1, <3>3, SumRests
  <2>4. QED
    BY <2>2, <2>3
<1>8. CASE Commit(w)
  BY <1>8, <1>o, CommitSums
<1>9. QED
  BY <1>1, <1>2, <1>3, <1>4, <1>5, <1>6, <1>7, <1>8 DEF Step

LEMMA NextSums ==
  IInv /\ PaceInv /\ FightInv /\ PreviewInv /\ SumInv /\ [Next]_vars => SumInv'
<1> SUFFICES ASSUME IInv, PaceInv, FightInv, PreviewInv, SumInv, [Next]_vars PROVE SumInv'
  OBVIOUS
<1>t. TypeOK
  BY DEF IInv
<1>1. ASSUME Next, ~\E w \in Handlers : Step(w) PROVE SumInv'
  <2>1. /\ UNCHANGED <<phase, round, hp, wipe, history>>
        /\ \A v \in Handlers :
              \/ pc'[v] = pc[v] /\ ctx'[v] = ctx[v]
              \/ pc'[v] \notin {"applyFlip", "persist", "commit"}
    BY <1>t, <1>1, WorldRests
  <2>2. QED
    BY <2>1, SumRests DEF Bearing, Committing
<1>2. CASE UNCHANGED vars
  <2>1. UNCHANGED <<phase, round, hp, wipe, history, pc, ctx>>
    BY <1>2 DEF vars, runtimeVars, ghostVars
  <2>2. QED
    BY <2>1, SumRests
<1>3. QED
  BY <1>1, <1>2, StepSums

LEMMA InitSums == Init => SumInv
<1> SUFFICES ASSUME Init PROVE SumInv
  OBVIOUS
<1>1. \A v \in Handlers : ~Bearing(v)
  BY DEF Init, Bearing, Committing
<1>2. HpIsTheSumOfRounds
  BY ReplayOfNothing DEF Init, HpIsTheSumOfRounds, Fresh0
<1>3. QED
  BY <1>1, <1>2 DEF SumInv

\* When clients wait for the event of a phase and no handler is a round late,
\* no charge is lost: the hit points and wipe indices in the hash are what the
\* rounds charged so far add up to, although applyDamageAndAdvance writes what
\* it computed from a copy it read three steps before.
THEOREM NoChargeIsLost ==
  ASSUME Eager = {}
  PROVE  PromptSpec => []HpIsTheSumOfRounds
<1>1. SumInv => HpIsTheSumOfRounds
  BY DEF SumInv
<1>2. PromptSpec => []IInv /\ []FightInv
  BY PromptIsSpec, Invariance, FightHolds, PTL
<1>3. PromptSpec => []PaceInv
  BY PaceHolds
<1>4. PromptSpec => Init /\ [][Next]_vars
  BY PromptIsSpec, PTL DEF Spec
<1>5. QED
  BY <1>1, <1>2, <1>3, <1>4, InitShows, NextShows, InitSums, NextSums, PTL
=============================================================================
