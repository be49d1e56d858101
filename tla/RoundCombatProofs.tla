--------------------------- MODULE RoundCombatProofs ---------------------------
(***************************************************************************)
(* Theorems about the battle of a round: whose result is charged, what the *)
(* players are told of it, and who will end it.                            *)
(***************************************************************************)
EXTENDS RoundOrchestratorProofs

-----------------------------------------------------------------------------
(* How the steps of a handler look from outside.                           *)

\* A step of w moves no other handler; w keeps its round, or returns.
LEMMA OthersRest ==
  ASSUME TypeOK, NEW w \in Handlers, Step(w)
  PROVE  /\ \A v \in Handlers \ {w} : pc'[v] = pc[v] /\ ctx'[v] = ctx[v]
         /\ pc[w] # "idle"
         /\ \/ pc'[w] = "idle" /\ ctx'[w] = Blank
            \/ pc'[w] # "idle" /\ ctx'[w].round = ctx[w].round /\ ctx'[w].job = ctx[w].job
<1>t. /\ pc \in [Handlers -> Labels] /\ ctx \in [Handlers -> Contexts]
      /\ ctx[w] \in Contexts
  BY DEF TypeOK
<1>d. ASSUME NEW new, Done(w, new)
      PROVE  /\ \A v \in Handlers \ {w} : pc'[v] = pc[v] /\ ctx'[v] = ctx[v]
             /\ pc'[w] = "idle" /\ ctx'[w] = Blank
  BY <1>t, <1>d DEF Done, Goto
<1>g. ASSUME NEW label \in Labels \ {"idle"}, Goto(w, label), ctx' = ctx
      PROVE  /\ \A v \in Handlers \ {w} : pc'[v] = pc[v] /\ ctx'[v] = ctx[v]
             /\ pc'[w] # "idle" /\ ctx'[w].round = ctx[w].round /\ ctx'[w].job = ctx[w].job
  BY <1>t, <1>g DEF Goto
<1>j. ASSUME NEW label \in Labels \ {"idle"}, Join(w, label)
      PROVE  /\ \A v \in Handlers \ {w} : pc'[v] = pc[v] /\ ctx'[v] = ctx[v]
             /\ pc'[w] # "idle" /\ ctx'[w].round = ctx[w].round /\ ctx'[w].job = ctx[w].job
  BY <1>t, <1>j DEF Goto, Join, Contexts
<1> USE DEF Labels
<1>1. CASE StartRead(w) \/ CombatClear(w) \/ ApplyRead(w) \/ ApplyResult(w)
  BY <1>t, <1>d, <1>1 DEF StartRead, CombatClear, ApplyRead, ApplyResult, Goto, Contexts
<1>2. CASE ReadyCount(w) \/ Ack(w) \/ RoundReadyCount(w)
  BY <1>d, <1>j, <1>2 DEF ReadyCount, Ack, RoundReadyCount
<1>3. CASE StartFlip(w) \/ CombatLock(w) \/ CombatGuard(w) \/ CombatCheck(w) \/ AppendRound(w)
  BY <1>d, <1>g, <1>3 DEF StartFlip, CombatLock, CombatGuard, CombatCheck, AppendRound
<1>4. CASE WriteResult(w) \/ SetCombatRound(w) \/ ScheduleTimeout(w) \/ Release(w) \/ Preview(w)
  BY <1>d, <1>g, <1>4 DEF WriteResult, SetCombatRound, ScheduleTimeout, Release, Preview
<1>5. CASE ApplyFlip(w) \/ Persist(w) \/ Commit(w) \/ Finalize(w) \/ ScheduleCleanup(w)
  BY <1>d, <1>g, <1>5 DEF ApplyFlip, Persist, Commit, Finalize, ScheduleCleanup, Throw
<1>6. CASE RoundReadySet(w) \/ Advance(w) \/ AdvanceReset(w) \/ AdvanceSchedule(w) \/ Quit(w)
  BY <1>d, <1>g, <1>6 DEF RoundReadySet, Advance, AdvanceReset, AdvanceSchedule, Quit
<1>7. QED
  BY <1>1, <1>2, <1>3, <1>4, <1>5, <1>6 DEF Step

-----------------------------------------------------------------------------
(* One handler fights a round, and only its own result is charged.         *)

FightLabels == {"combatLock", "combatGuard", "combatClear", "combatCheck",
                "append", "writeResult", "setCombatRound"}

\* The handlers whose battle is not yet recorded, and those that have read
\* that it is and go on to charge it.
InFight  == {w \in Handlers : pc[w] \in FightLabels}
Applying == {w \in Handlers : pc[w] \in {"applyResult", "applyFlip"}}

\* The battle of the round is recorded: nobody touches its result any more.
Recorded == InFight = {} /\ result.round = round

OneFight ==
    /\ \A w \in InFight : ctx[w].round = round /\ phase \in {"battle", "finished"}
    /\ \A v, w \in InFight : v = w
    /\ \A w \in Handlers : pc[w] = "setCombatRound" => result.round = round

CombatKnown ==
    /\ combatRound \in 0..round
    /\ phase = "shop_place" => combatRound # round
    /\ phase = "battle" /\ combatRound = round => Recorded

ApplyingOwn ==
    \A w \in Applying :
        /\ ctx[w].round \in 0..round
        /\ ctx[w].round = round => phase # "shop_place"
        /\ At("battle", ctx[w].round) =>
              Recorded /\ (pc[w] = "applyFlip" => ctx[w].from = round)

ChargedOwn ==
    /\ \A w \in Committing : ctx[w].from = ctx[w].round
    /\ DamageFromOwnCombat

FightInv == OneFight /\ CombatKnown /\ ApplyingOwn /\ ChargedOwn

\* The variables FightInv speaks of, but for the handlers.
fightVars == <<phase, round, combatRound, result, history>>

\* Where a handler has to do with the battle or the charge.
Near == FightLabels \union {"applyResult", "applyFlip", "persist", "commit"}

\* Handlers that go elsewhere, while the hash and the result stay what they
\* are, are no danger.
LEMMA AwayKeeps ==
  ASSUME TypeOK, FightInv, UNCHANGED fightVars,
         \A v \in Handlers : (pc'[v] = pc[v] /\ ctx'[v] = ctx[v]) \/ pc'[v] \notin Near
  PROVE  FightInv'
<1> USE DEF Near
<1>1. InFight' \subseteq InFight /\ \A v \in InFight' : ctx'[v] = ctx[v]
  BY DEF InFight
<1>2. Applying' \subseteq Applying /\ \A v \in Applying' : ctx'[v] = ctx[v] /\ pc'[v] = pc[v]
  BY DEF Applying
<1>3. Committing' \subseteq Committing /\ \A v \in Committing' : ctx'[v] = ctx[v]
  BY DEF Committing
<1>4. \A v \in Handlers : pc'[v] = "setCombatRound" => pc[v] = "setCombatRound"
  BY DEF FightLabels
<1>5. Recorded => Recorded'
  BY <1>1 DEF Recorded, fightVars
<1>6. OneFight'
  BY <1>1, <1>4 DEF FightInv, OneFight, fightVars
<1>7. CombatKnown' /\ ApplyingOwn'
  BY <1>2, <1>5 DEF FightInv, CombatKnown, ApplyingOwn, At, fightVars
<1>8. ChargedOwn'
  BY <1>3 DEF FightInv, ChargedOwn, DamageFromOwnCombat, fightVars
<1>9. QED
  BY <1>6, <1>7, <1>8 DEF FightInv

\* The handler that fights goes on: only the result may change, and it is the
\* one of the round when the round is about to be recorded.
LEMMA FightOnKeeps ==
  ASSUME TypeOK, FightInv, NEW w \in InFight,
         UNCHANGED <<phase, round, combatRound, history>>,
         \A v \in Handlers \ {w} : pc'[v] = pc[v] /\ ctx'[v] = ctx[v],
         pc'[w] \in FightLabels, ctx'[w].round = ctx[w].round,
         pc'[w] = "setCombatRound" => result'.round = round
  PROVE  FightInv'
<1>0. w \in Handlers
  BY DEF InFight
<1>1. InFight' = InFight /\ \A v \in Handlers : v # w => v \notin InFight
  BY <1>0 DEF InFight, FightInv, OneFight
<1>2. Applying' \subseteq Applying /\ \A v \in Applying' : ctx'[v] = ctx[v]
  BY <1>0 DEF Applying, FightLabels
<1>3. Committing' \subseteq Committing /\ \A v \in Committing' : ctx'[v] = ctx[v]
  BY <1>0 DEF Committing, FightLabels
<1>4. OneFight'
  <2>1. \A v \in Handlers : pc'[v] = "setCombatRound" => v = w
    BY <1>1 DEF InFight, FightLabels
  <2>2. \A v \in InFight' : ctx'[v].round = round' /\ phase' \in {"battle", "finished"}
    BY <1>0, <1>1 DEF FightInv, OneFight
  <2>3. QED
    BY <1>1, <2>1, <2>2 DEF FightInv, OneFight
<1>5. ~(phase = "battle" /\ combatRound = round)
  BY DEF FightInv, CombatKnown, Recorded
<1>6. CombatKnown'
  BY <1>5 DEF FightInv, CombatKnown
<1>7. ApplyingOwn'
  BY <1>2 DEF FightInv, ApplyingOwn, At, Recorded
<1>8. ChargedOwn'
  BY <1>3 DEF FightInv, ChargedOwn, DamageFromOwnCombat
<1>9. QED
  BY <1>4, <1>6, <1>7, <1>8 DEF FightInv

\* The flip to "battle" makes w the one that fights: the rounds fought before
\* are other ones.
LEMMA StartFlipFights ==
  ASSUME IInv, FightInv, NEW w \in Handlers,
         At("shop_place", ctx[w].round), phase' = "battle", pc'[w] = "combatLock",
         \A v \in Handlers \ {w} : pc'[v] = pc[v] /\ ctx'[v] = ctx[v],
         ctx'[w].round = ctx[w].round,
         UNCHANGED <<round, combatRound, result, history>>
  PROVE  FightInv'
<1>1. InFight = {}
  BY DEF FightInv, OneFight, At
<1>2. InFight' = {w}
  BY <1>1 DEF InFight, FightLabels
<1>3. Applying' \subseteq Applying /\ \A v \in Applying' : ctx'[v] = ctx[v]
  BY DEF Applying
<1>4. Committing' \subseteq Committing /\ \A v \in Committing' : ctx'[v] = ctx[v]
  BY DEF Committing
<1>5. \A v \in Handlers : pc'[v] # "setCombatRound"
  BY <1>1 DEF InFight, FightLabels
<1>6. OneFight'
  BY <1>2, <1>5 DEF OneFight, At
<1>7. CombatKnown'
  BY DEF FightInv, CombatKnown, At
<1>8. ApplyingOwn'
  BY <1>3 DEF FightInv, ApplyingOwn, At
<1>9. ChargedOwn'
  BY <1>4 DEF FightInv, ChargedOwn, DamageFromOwnCombat
<1>10. QED
  BY <1>6, <1>7, <1>8, <1>9 DEF FightInv

\* combatRound is written last: from then on the result is not touched.
LEMMA SetCombatRoundFights ==
  ASSUME TypeOK, FightInv, NEW w \in Handlers, SetCombatRound(w)
  PROVE  FightInv'
<1>0. /\ w \in InFight /\ pc'[w] = "scheduleTimeout" /\ combatRound' = ctx[w].round
      /\ ctx' = ctx /\ UNCHANGED <<phase, round, result, history>>
      /\ \A v \in Handlers \ {w} : pc'[v] = pc[v]
  BY DEF SetCombatRound, Goto, TypeOK, InFight, FightLabels, redisVars, ghostVars
<1>1. ctx[w].round = round /\ result.round = round /\ round \in Nat
  BY <1>0 DEF FightInv, OneFight, SetCombatRound, TypeOK
<1>2. InFight' = {}
  BY <1>0 DEF InFight, FightLabels, FightInv, OneFight
<1>3. OneFight'
  BY <1>0, <1>2 DEF OneFight, InFight, FightLabels
<1>4. phase # "shop_place"
  BY <1>0 DEF FightInv, OneFight
<1>5. CombatKnown'
  BY <1>0, <1>1, <1>2, <1>4 DEF CombatKnown, Recorded
<1>6. ApplyingOwn'
  BY <1>0, <1>1, <1>2 DEF FightInv, ApplyingOwn, Applying, At, Recorded
<1>7. ChargedOwn'
  BY <1>0 DEF FightInv, ChargedOwn, Committing, DamageFromOwnCombat
<1>8. QED
  BY <1>3, <1>5, <1>6, <1>7 DEF FightInv

\* Whoever finds the round recorded reads its own result, or one of a later
\* round, with which its compare-and-set will fail.
LEMMA ApplyReadFights ==
  ASSUME TypeOK, FightInv, NEW w \in Handlers, ApplyRead(w), pc'[w] = "applyResult",
         \A v \in Handlers \ {w} : pc'[v] = pc[v] /\ ctx'[v] = ctx[v],
         ctx'[w].round = ctx[w].round
  PROVE  FightInv'
<1>0. UNCHANGED fightVars
  BY DEF ApplyRead, fightVars, runtimeVars, redisVars, ghostVars
<1>1. At("battle", ctx[w].round) /\ combatRound = ctx[w].round /\ pc[w] = "applyRead"
  BY DEF ApplyRead, Done, Goto, TypeOK
<1>2. Recorded
  BY <1>1 DEF FightInv, CombatKnown, At
<1>3. InFight' = InFight /\ \A v \in InFight : ctx'[v] = ctx[v]
  BY <1>1 DEF InFight, FightLabels
<1>4. Recorded'
  BY <1>0, <1>2, <1>3 DEF Recorded, fightVars
<1>5. OneFight'
  BY <1>0, <1>3 DEF FightInv, OneFight, fightVars
<1>6. CombatKnown'
  BY <1>0, <1>4 DEF FightInv, CombatKnown, fightVars
<1>7. ApplyingOwn'
  <2> SUFFICES ASSUME NEW v \in Applying'
               PROVE  /\ ctx'[v].round \in 0..round
                      /\ ctx'[v].round = round => phase # "shop_place"
                      /\ At("battle", ctx'[v].round) =>
                            Recorded /\ (pc'[v] = "applyFlip" => ctx'[v].from = round)
    BY <1>0, <1>4 DEF ApplyingOwn, At, fightVars
  <2>1. CASE v = w
    BY <1>1, <1>2, <2>1 DEF FightInv, CombatKnown, At
  <2>2. CASE v # w
    BY <2>2 DEF FightInv, ApplyingOwn, Applying
  <2>3. QED
    BY <2>1, <2>2
<1>8. ChargedOwn'
  BY <1>0, <1>1 DEF FightInv, ChargedOwn, Committing, DamageFromOwnCombat, fightVars
<1>9. QED
  BY <1>5, <1>6, <1>7, <1>8 DEF FightInv

LEMMA ApplyResultFights ==
  ASSUME TypeOK, FightInv, NEW w \in Handlers, ApplyResult(w), pc'[w] = "applyFlip",
         \A v \in Handlers \ {w} : pc'[v] = pc[v] /\ ctx'[v] = ctx[v],
         ctx'[w].round = ctx[w].round
  PROVE  FightInv'
<1>0. UNCHANGED fightVars /\ pc[w] = "applyResult"
  BY DEF ApplyResult, fightVars, runtimeVars, redisVars, ghostVars
<1>1. ctx' = [ctx EXCEPT ![w].hp   = HpAfter(result.won, ctx[w].hp, ctx[w].wipe),
                         ![w].wipe = WipeAfter(result.won, ctx[w].wipe),
                         ![w].won  = result.won,
                         ![w].from = result.round]
  BY DEF ApplyResult, Done, Goto, TypeOK
<1>2. ctx'[w].from = result.round
  BY <1>1 DEF TypeOK, Contexts
<1>3. InFight' = InFight /\ \A v \in InFight : ctx'[v] = ctx[v]
  BY <1>0 DEF InFight, FightLabels
<1>4. Recorded => Recorded'
  BY <1>0, <1>3 DEF Recorded, fightVars
<1>5. OneFight'
  BY <1>0, <1>3 DEF FightInv, OneFight, fightVars
<1>6. CombatKnown'
  BY <1>0, <1>4 DEF FightInv, CombatKnown, fightVars
<1>7. ApplyingOwn'
  <2> SUFFICES ASSUME NEW v \in Applying'
               PROVE  /\ ctx'[v].round \in 0..round
                      /\ ctx'[v].round = round => phase # "shop_place"
                      /\ At("battle", ctx'[v].round) =>
                            Recorded /\ (pc'[v] = "applyFlip" => ctx'[v].from = round)
    BY <1>0, <1>4 DEF ApplyingOwn, At, fightVars
  <2>1. v \in Applying /\ ctx'[v].round = ctx[v].round
    BY <1>0 DEF Applying
  <2>2. CASE v = w
    BY <1>2, <2>1, <2>2 DEF FightInv, ApplyingOwn, Recorded
  <2>3. CASE v # w
    BY <2>1, <2>3 DEF FightInv, ApplyingOwn, Applying
  <2>4. QED
    BY <2>2, <2>3
<1>8. ChargedOwn'
  BY <1>0 DEF FightInv, ChargedOwn, Committing, DamageFromOwnCombat, fightVars
<1>9. QED
  BY <1>5, <1>6, <1>7, <1>8 DEF FightInv

\* The compare-and-set of the charge admits only a result of the round.
LEMMA ApplyFlipFights ==
  ASSUME TypeOK, FightInv, NEW w \in Handlers, pc[w] = "applyFlip",
         At("battle", ctx[w].round), phase' = "resolved", pc'[w] = "persist",
         \A v \in Handlers \ {w} : pc'[v] = pc[v] /\ ctx'[v] = ctx[v],
         ctx' = ctx, UNCHANGED <<round, combatRound, result, history>>
  PROVE  FightInv'
<1>1. InFight = {} /\ ctx[w].from = ctx[w].round
  BY DEF FightInv, ApplyingOwn, Applying, At, Recorded
<1>2. InFight' = {}
  BY <1>1 DEF InFight, FightLabels
<1>3. Committing' = Committing \union {w} /\ Applying' \subseteq Applying
  BY DEF Committing, Applying
<1>4. OneFight' /\ CombatKnown'
  BY <1>2 DEF FightInv, OneFight, CombatKnown, InFight, FightLabels
<1>5. ApplyingOwn'
  BY <1>3 DEF FightInv, ApplyingOwn, At
<1>6. ChargedOwn'
  BY <1>1, <1>3 DEF FightInv, ChargedOwn, DamageFromOwnCombat
<1>7. QED
  BY <1>4, <1>5, <1>6 DEF FightInv

LEMMA PersistFights ==
  ASSUME TypeOK, FightInv, NEW w \in Handlers, pc[w] = "persist", pc'[w] = "commit",
         \A v \in Handlers \ {w} : pc'[v] = pc[v] /\ ctx'[v] = ctx[v],
         ctx' = ctx, UNCHANGED fightVars
  PROVE  FightInv'
<1>1. Committing' = Committing /\ Applying' = Applying /\ InFight' = InFight
  BY DEF Committing, Applying, InFight, FightLabels
<1>2. OneFight' /\ CombatKnown'
  BY <1>1 DEF FightInv, OneFight, CombatKnown, Recorded, fightVars
<1>3. ApplyingOwn' /\ ChargedOwn'
  BY <1>1 DEF FightInv, ApplyingOwn, Applying, ChargedOwn, DamageFromOwnCombat, At, Recorded, fightVars
<1>4. QED
  BY <1>2, <1>3 DEF FightInv

\* What is charged becomes history; combatRound may be cleared at any time.
LEMMA CommitFights ==
  ASSUME IInv, FightInv, NEW w \in Handlers, Commit(w),
         \A v \in Handlers \ {w} : pc'[v] = pc[v] /\ ctx'[v] = ctx[v]
  PROVE  FightInv'
<1> DEFINE e == [round |-> ctx[w].round, from |-> ctx[w].from, won |-> ctx[w].won]
<1>1. /\ w \in Committing /\ history' = Append(history, e) /\ e.from = e.round
      /\ phase' \in {phase, "finished"} /\ combatRound' \in {combatRound, 0}
      /\ pc'[w] \in {"finalize", "idle"} /\ UNCHANGED <<round, result>>
  BY DEF Commit, Charge, Committing, Goto, Done, IInv, TypeOK, redisVars, FightInv, ChargedOwn
<1>2. /\ DOMAIN history' = DOMAIN history \union {Len(history) + 1}
      /\ Len(history) + 1 \notin DOMAIN history
      /\ \A j \in DOMAIN history : history'[j] = history[j]
      /\ history'[Len(history) + 1] = e
  BY <1>1 DEF IInv, TypeOK
<1>3. round \in Nat /\ round >= 1
  BY DEF IInv, TypeOK, Charging
<1>4. InFight' = InFight /\ \A v \in InFight : ctx'[v] = ctx[v]
  BY <1>1 DEF InFight, FightLabels, Committing
<1>5. Applying' = Applying /\ \A v \in Applying : ctx'[v] = ctx[v] /\ pc'[v] = pc[v]
  BY <1>1 DEF Applying, Committing
<1>6. Committing' \subseteq Committing /\ \A v \in Committing' : ctx'[v] = ctx[v]
  BY <1>1 DEF Committing
<1>7. \A v \in Handlers : pc'[v] = "setCombatRound" => pc[v] = "setCombatRound"
  BY <1>1
<1> HIDE DEF e
<1>8. OneFight'
  BY <1>1, <1>4, <1>7 DEF FightInv, OneFight
<1>9. CombatKnown'
  BY <1>1, <1>3, <1>4 DEF FightInv, CombatKnown, Recorded
<1>10. ApplyingOwn'
  BY <1>1, <1>4, <1>5 DEF FightInv, ApplyingOwn, At, Recorded
<1>11. ChargedOwn'
  BY <1>1, <1>2, <1>6 DEF FightInv, ChargedOwn, DamageFromOwnCombat
<1>12. QED
  BY <1>8, <1>9, <1>10, <1>11 DEF FightInv

\* The flips to planning and to the end, and the cleared flags of a new round.
LEMMA TurnFights ==
  ASSUME IInv, FightInv, NEW w \in Handlers,
         \/ Advance(w) /\ pc'[w] = "advanceReset"
         \/ AdvanceReset(w)
         \/ Quit(w) /\ pc'[w] = "finalize",
         \A v \in Handlers \ {w} : pc'[v] = pc[v] /\ ctx'[v] = ctx[v]
  PROVE  FightInv'
<1>1. /\ pc'[w] \in {"advanceReset", "advanceSchedule", "finalize"}
      /\ UNCHANGED <<result, history>>
      /\ \/ phase = "resolved" /\ phase' = "shop_place" /\ round' = round + 1
            /\ UNCHANGED combatRound
         \/ combatRound' = 0 /\ UNCHANGED <<phase, round>>
         \/ phase' = "finished" /\ UNCHANGED <<round, combatRound>>
  BY DEF Advance, AdvanceReset, Quit, Goto, Done, At, IInv, TypeOK, redisVars, ghostVars
<1>2. round \in Nat /\ round >= 1
  BY DEF IInv, TypeOK, Charging
<1>3. InFight' \subseteq InFight /\ \A v \in InFight' : ctx'[v] = ctx[v]
  BY <1>1 DEF InFight, FightLabels
<1>4. Applying' \subseteq Applying /\ \A v \in Applying' : ctx'[v] = ctx[v] /\ pc'[v] = pc[v]
  BY <1>1 DEF Applying
<1>5. Committing' \subseteq Committing /\ \A v \in Committing' : ctx'[v] = ctx[v]
  BY <1>1 DEF Committing
<1>6. \A v \in Handlers : pc'[v] = "setCombatRound" => pc[v] = "setCombatRound" /\ v \in InFight
  BY <1>1 DEF InFight, FightLabels
<1>7. OneFight'
  BY <1>1, <1>3, <1>6 DEF FightInv, OneFight
<1>8. CombatKnown'
  BY <1>1, <1>2, <1>3 DEF FightInv, CombatKnown, Recorded
<1>9. ApplyingOwn'
  BY <1>1, <1>2, <1>3, <1>4 DEF FightInv, ApplyingOwn, At, Recorded
<1>10. ChargedOwn'
  BY <1>1, <1>5 DEF FightInv, ChargedOwn, DamageFromOwnCombat
<1>11. QED
  BY <1>7, <1>8, <1>9, <1>10 DEF FightInv

\* Every step of a handler keeps FightInv.
LEMMA StepFights ==
  ASSUME IInv, FightInv, NEW w \in Handlers, Step(w)
  PROVE  FightInv'
<1>t. TypeOK
  BY DEF IInv
<1>o. /\ \A v \in Handlers \ {w} : pc'[v] = pc[v] /\ ctx'[v] = ctx[v]
      /\ pc'[w] = "idle" \/ ctx'[w].round = ctx[w].round
  BY <1>t, OthersRest
<1>p. /\ pc \in [Handlers -> Labels]
      /\ \A label : Goto(w, label) => pc'[w] = label
      /\ \A new : Done(w, new) => pc'[w] = "idle"
      /\ \A label : Join(w, label) => pc'[w] = label
  BY <1>t DEF TypeOK, Goto, Done, Join
<1>a. ASSUME UNCHANGED fightVars, pc'[w] \notin Near PROVE FightInv'
  BY <1>t, <1>o, <1>a, AwayKeeps
<1> USE DEF runtimeVars, redisVars, pgVars, ghostVars, fightVars, Near, FightLabels
<1>1. CASE ReadyCount(w) \/ StartRead(w) \/ ScheduleTimeout(w) \/ Release(w) \/ Preview(w)
  BY <1>1, <1>p, <1>a DEF ReadyCount, StartRead, ScheduleTimeout, Release, Preview
<1>2. CASE Ack(w) \/ Finalize(w) \/ ScheduleCleanup(w) \/ AdvanceSchedule(w)
  BY <1>2, <1>p, <1>a DEF Ack, Finalize, ScheduleCleanup, AdvanceSchedule, Throw
<1>3. CASE RoundReadySet(w) \/ RoundReadyCount(w)
  BY <1>3, <1>p, <1>a DEF RoundReadySet, RoundReadyCount
<1>4. CASE StartFlip(w)
  <2>1. CASE pc'[w] = "idle"
    BY <1>4, <1>p, <1>a, <2>1 DEF StartFlip
  <2>2. CASE pc'[w] # "idle"
    BY <1>4, <1>p, <1>o, <2>2, StartFlipFights DEF StartFlip
  <2>3. QED
    BY <2>1, <2>2
<1>5. CASE CombatLock(w) \/ CombatGuard(w) \/ CombatClear(w) \/ CombatCheck(w)
           \/ AppendRound(w) \/ WriteResult(w)
  <2>1. CASE pc'[w] \in {"idle", "abandon"}
    BY <1>5, <1>p, <1>a, <2>1 DEF CombatLock, CombatGuard, CombatClear, CombatCheck,
                                   AppendRound, WriteResult
  <2>2. CASE pc'[w] \notin {"idle", "abandon"}
    <3>1. /\ w \in InFight /\ pc'[w] \in FightLabels
          /\ UNCHANGED <<phase, round, combatRound, history>>
      BY <1>5, <1>p, <2>2 DEF InFight, CombatLock, CombatGuard, CombatClear, CombatCheck,
                              AppendRound, WriteResult
    <3>2. ctx[w].round = round
      BY <3>1 DEF FightInv, OneFight
    <3>3. pc'[w] = "setCombatRound" => result'.round = round
      BY <1>5, <1>p, <2>2, <3>2 DEF CombatLock, CombatGuard, CombatClear, CombatCheck,
                                    AppendRound, WriteResult
    <3>4. QED
      BY <1>t, <1>o, <2>2, <3>1, <3>3, FightOnKeeps
  <2>3. QED
    BY <2>1, <2>2
<1>6. CASE SetCombatRound(w)
  BY <1>6, <1>t, SetCombatRoundFights
<1>7. CASE ApplyRead(w)
  <2>1. CASE pc'[w] = "idle"
    BY <1>7, <1>a, <2>1 DEF ApplyRead
  <2>2. CASE pc'[w] # "idle"
    BY <1>7, <1>t, <1>p, <1>o, <2>2, ApplyReadFights DEF ApplyRead
  <2>3. QED
    BY <2>1, <2>2
<1>8. CASE ApplyResult(w)
  <2>1. CASE pc'[w] = "idle"
    BY <1>8, <1>a, <2>1 DEF ApplyResult
  <2>2. CASE pc'[w] # "idle"
    BY <1>8, <1>t, <1>p, <1>o, <2>2, ApplyResultFights DEF ApplyResult
  <2>3. QED
    BY <2>1, <2>2
<1>9. CASE ApplyFlip(w)
  <2>1. CASE pc'[w] = "idle"
    BY <1>9, <1>p, <1>a, <2>1 DEF ApplyFlip
  <2>2. CASE pc'[w] # "idle"
    BY <1>9, <1>t, <1>p, <1>o, <2>2, ApplyFlipFights DEF ApplyFlip
  <2>3. QED
    BY <2>1, <2>2
<1>10. CASE Persist(w)
  <2>1. CASE pc'[w] = "idle"
    BY <1>10, <1>a, <2>1 DEF Persist
  <2>2. CASE pc'[w] # "idle"
    BY <1>10, <1>t, <1>p, <1>o, <2>2, PersistFights DEF Persist, Throw
  <2>3. QED
    BY <2>1, <2>2
<1>11. CASE Commit(w)
  BY <1>11, <1>o, CommitFights
<1>12. CASE Advance(w) \/ AdvanceReset(w) \/ Quit(w)
  <2>1. CASE pc'[w] = "idle"
    BY <1>12, <1>p, <1>a, <2>1 DEF Advance, AdvanceReset, Quit
  <2>2. CASE pc'[w] # "idle"
    BY <1>12, <1>p, <1>o, <2>2, TurnFights DEF Advance, AdvanceReset, Quit
  <2>3. QED
    BY <2>1, <2>2
<1>13. QED
  BY <1>1, <1>2, <1>3, <1>4, <1>5, <1>6, <1>7, <1>8, <1>9, <1>10, <1>11, <1>12 DEF Step

\* What a message, a job or a crash does to the handlers: some begin, with a
\* context that says no more than the round, or become idle.
LEMMA WorldRests ==
  ASSUME TypeOK, Next, ~\E w \in Handlers : Step(w)
  PROVE  /\ UNCHANGED <<phase, round, combatRound, hp, wipe, result, history, status,
                       snapshot, preview>>
         /\ \A v \in Handlers :
              \/ pc'[v] = pc[v] /\ ctx'[v] = ctx[v]
              \/ pc'[v] = "idle"
              \/ pc'[v] \in {"readyCount", "ack", "roundReady", "quit",
                             "startRead", "applyRead", "advance"}
<1> USE DEF runtimeVars, redisVars, pgVars, ghostVars
<1>1. ASSUME NEW w \in WsHandlers, NEW p \in Players, Client(w, p)
      PROVE  /\ UNCHANGED <<phase, round, combatRound, hp, wipe, result, history, status,
                           snapshot, preview>>
             /\ \A v \in Handlers :
                  \/ pc'[v] = pc[v] /\ ctx'[v] = ctx[v]
                  \/ pc'[v] \in {"readyCount", "ack", "roundReady", "quit"}
  BY <1>1 DEF Client, Ready, CombatDone, RoundReady, Surrender, Disconnect, Begin, Goto,
              TypeOK, Handlers
<1>2. ASSUME NEW w \in JobHandlers, NEW j \in jobs, PickJob(w, j)
      PROVE  /\ UNCHANGED <<phase, round, combatRound, hp, wipe, result, history, status,
                           snapshot, preview>>
             /\ \A v \in Handlers :
                  \/ pc'[v] = pc[v] /\ ctx'[v] = ctx[v]
                  \/ pc'[v] \in {"startRead", "applyRead", "advance"}
  BY <1>2 DEF PickJob, FirstStep, Begin, Goto, TypeOK, Handlers
<1>3. ASSUME NEW p \in Players, Reconnect(p)
      PROVE  /\ UNCHANGED <<phase, round, combatRound, hp, wipe, result, history, status,
                           snapshot, preview>>
             /\ UNCHANGED <<pc, ctx>>
  BY <1>3 DEF Reconnect
<1>4. ASSUME ExpireLock \/ ExpireAcks
      PROVE  /\ UNCHANGED <<phase, round, combatRound, hp, wipe, result, history, status,
                           snapshot, preview>>
             /\ UNCHANGED <<pc, ctx>>
  BY <1>4 DEF ExpireLock, ExpireAcks
<1>5. ASSUME NEW S \in SUBSET Handlers, Crash(S)
      PROVE  /\ UNCHANGED <<phase, round, combatRound, hp, wipe, result, history, status,
                           snapshot, preview>>
             /\ \A v \in Handlers :
                   (pc'[v] = pc[v] /\ ctx'[v] = ctx[v]) \/ pc'[v] = "idle"
  BY <1>5 DEF Crash
<1>6. QED
  BY <1>1, <1>2, <1>3, <1>4, <1>5 DEF Next

LEMMA NextFights == IInv /\ FightInv /\ [Next]_vars => FightInv'
<1> SUFFICES ASSUME IInv, FightInv, [Next]_vars PROVE FightInv'
  OBVIOUS
<1>t. TypeOK
  BY DEF IInv
<1>1. ASSUME Next, ~\E w \in Handlers : Step(w) PROVE FightInv'
  BY <1>1, <1>t, WorldRests, AwayKeeps DEF fightVars, Near, FightLabels
<1>2. CASE UNCHANGED vars
  BY <1>2, <1>t, AwayKeeps DEF vars, fightVars, runtimeVars, redisVars, ghostVars
<1>3. QED
  BY <1>1, <1>2, StepFights

LEMMA InitFights == Init => FightInv
<1> SUFFICES ASSUME Init PROVE FightInv
  OBVIOUS
<1>1. InFight = {} /\ Applying = {} /\ Committing = {} /\ DOMAIN history = {}
  BY DEF Init, InFight, FightLabels, Applying, Committing
<1>2. \A w \in Handlers : pc[w] # "setCombatRound"
  BY DEF Init
<1>3. QED
  BY <1>1, <1>2 DEF Init, FightInv, OneFight, CombatKnown, ApplyingOwn, ChargedOwn,
                    DamageFromOwnCombat

LEMMA FightHolds == Spec => []FightInv
  BY InitFights, NextFights, Invariance, PTL DEF Spec

\* The damage of a round is computed from the battle of that round, although
\* the key of the result names no round and the result is read after the hash.
THEOREM ChargedFromOwnCombat == Spec => []DamageFromOwnCombat
<1>1. FightInv => DamageFromOwnCombat
  BY DEF FightInv, ChargedOwn
<1>2. QED
  BY <1>1, FightHolds, PTL

-----------------------------------------------------------------------------
(* No handler is a whole round late (PromptSpec) and clients wait for the   *)
(* event of a phase: then every round is charged before anyone hears that   *)
(* it is over, and before the next one is planned.                          *)

\* The round has not been charged yet.
Owed == Len(history) = round - 1

SummaryLabels == {"roundReady", "roundReadyCount", "advance"}

\* r is a round whose summary the players have been shown.
Summed(r) ==
    /\ r \in 0..round
    /\ r = round => phase \in {"resolved", "finished"}
                    /\ (phase = "resolved" => Len(history) = round)

ChargesPaced ==
    /\ phase \in {"shop_place", "battle"} => Owed
    /\ phase = "resolved" /\ announced => Len(history) = round
    /\ \A w \in Committing : ctx[w].round = round /\ Owed

SummariesPaced ==
    \A w \in Handlers : pc[w] \in SummaryLabels =>
        /\ Summed(ctx[w].round)
        /\ pc[w] # "advance" /\ phase \in {"battle", "resolved"} => ctx[w].round = round

JobsPaced ==
    \A j \in jobs : j.type # "none" /\ (j.type = "round_ready_timeout" => Summed(j.round))

PaceInv == ChargesPaced /\ SummariesPaced /\ JobsPaced

\* Steps that leave the phase and the charges alone and say nothing new of a
\* summary.
LEMMA PaceRests ==
  ASSUME TypeOK, PaceInv, UNCHANGED <<phase, round, history>>,
         phase = "resolved" /\ announced' => announced \/ Len(history) = round,
         \A j \in jobs' \ jobs :
             j.type # "none" /\ (j.type = "round_ready_timeout" => Summed(j.round)),
         \A v \in Handlers :
             \/ pc'[v] = pc[v] /\ ctx'[v] = ctx[v]
             \/ pc'[v] \notin SummaryLabels \union {"persist", "commit"}
             \/ /\ pc'[v] \in SummaryLabels /\ Summed(ctx'[v].round)
                /\ pc'[v] # "advance" /\ phase \in {"battle", "resolved"} =>
                      ctx'[v].round = round
             \/ pc[v] = "persist" /\ pc'[v] = "commit" /\ ctx'[v] = ctx[v]
  PROVE  PaceInv'
<1>1. \A r : Summed(r) => Summed(r)'
  BY DEF Summed
<1>2. Committing' \subseteq Committing /\ \A v \in Committing' : ctx'[v] = ctx[v]
  BY DEF Committing, SummaryLabels
<1>3. ChargesPaced'
  BY <1>2 DEF PaceInv, ChargesPaced, Owed
<1>4. SummariesPaced'
  BY <1>1 DEF PaceInv, SummariesPaced, SummaryLabels
<1>5. JobsPaced'
  BY <1>1 DEF PaceInv, JobsPaced
<1>6. QED
  BY <1>3, <1>4, <1>5 DEF PaceInv

\* The four flips.  Only the flip to "battle" needs the timing assumption: it
\* leaves no handler that could still speak of an earlier summary.
LEMMA FlipPaces ==
  ASSUME IInv, PaceInv, NEW w \in Handlers,
         \A v \in Handlers \ {w} : pc'[v] = pc[v] /\ ctx'[v] = ctx[v],
         ctx' = ctx, jobs' = jobs, history' = history,
         \/ /\ phase = "shop_place" /\ phase' = "battle" /\ round' = round
            /\ pc'[w] = "combatLock" /\ Stragglers = {}
         \/ /\ phase = "battle" /\ ctx[w].round = round /\ round' = round
            /\ phase' = "resolved" /\ announced' = FALSE /\ pc'[w] = "persist"
         \/ /\ phase = "resolved" /\ ctx[w].round = round /\ pc[w] = "advance"
            /\ phase' = "shop_place" /\ round' = round + 1 /\ pc'[w] = "advanceReset"
         \/ phase' = "finished" /\ round' = round /\ pc'[w] = "finalize"
  PROVE  PaceInv'
<1>t. round \in Nat /\ Len(history) \in Nat
  BY DEF IInv, TypeOK
<1>1. CASE phase' = "battle"
  <2>1. /\ phase = "shop_place" /\ phase' = "battle" /\ round' = round
        /\ pc'[w] = "combatLock" /\ Stragglers = {}
    BY <1>1
  <2>2. \A r : Summed(r) => Summed(r)'
    BY <2>1 DEF Summed
  <2>3. Committing' \subseteq Committing
    BY <2>1 DEF Committing
  <2>4. ChargesPaced'
    BY <2>1, <2>3 DEF PaceInv, ChargesPaced, Owed
  <2>5. SummariesPaced'
    <3> SUFFICES ASSUME NEW v \in Handlers, pc'[v] \in SummaryLabels
                 PROVE  FALSE
      BY DEF SummariesPaced
    <3>1. pc'[v] = pc[v]
      BY <2>1 DEF SummaryLabels
    <3>2. Summed(ctx[v].round) /\ ~(ctx[v].round < round)
      BY <2>1, <3>1 DEF Stragglers, PaceInv, SummariesPaced, SummaryLabels
    <3>3. QED
      BY <1>t, <2>1, <3>2 DEF Summed
  <2>6. QED
    BY <2>2, <2>4, <2>5 DEF PaceInv, JobsPaced
<1>2. CASE phase' = "resolved"
  <2>1. /\ phase = "battle" /\ ctx[w].round = round /\ round' = round
        /\ announced' = FALSE /\ pc'[w] = "persist"
    BY <1>2
  <2>2. \A r : Summed(r) => r < round
    BY <1>t, <2>1 DEF Summed
  <2>3. \A r : Summed(r) => Summed(r)'
    BY <2>1, <2>2, <1>t DEF Summed
  <2>4. Committing' = Committing \union {w}
    BY <2>1 DEF Committing
  <2>5. ChargesPaced'
    BY <1>2, <2>1, <2>4 DEF PaceInv, ChargesPaced, Owed
  <2>6. SummariesPaced'
    BY <2>1, <2>3 DEF PaceInv, SummariesPaced, SummaryLabels
  <2>7. QED
    BY <2>3, <2>5, <2>6 DEF PaceInv, JobsPaced
<1>3. CASE phase' = "shop_place"
  <2>1. /\ phase = "resolved" /\ ctx[w].round = round /\ pc[w] = "advance"
        /\ round' = round + 1 /\ pc'[w] = "advanceReset"
    BY <1>3
  <2>2. Len(history) = round
    BY <2>1 DEF PaceInv, SummariesPaced, SummaryLabels, Summed
  <2>3. \A r : Summed(r) => Summed(r)'
    <3> SUFFICES ASSUME NEW r, Summed(r) PROVE Summed(r)'
      OBVIOUS
    <3>1. r \in 0..round' /\ r # round'
      BY <1>t, <2>1 DEF Summed
    <3>2. QED
      BY <3>1 DEF Summed
  <2>4. Committing = {} /\ Committing' = {}
    BY <1>t, <2>1, <2>2 DEF PaceInv, ChargesPaced, Committing, Owed
  <2>5. ChargesPaced'
    BY <1>3, <1>t, <2>1, <2>2, <2>4 DEF ChargesPaced, Owed
  <2>6. SummariesPaced'
    BY <1>3, <2>1, <2>3 DEF PaceInv, SummariesPaced, SummaryLabels
  <2>7. QED
    BY <2>3, <2>5, <2>6 DEF PaceInv, JobsPaced
<1>4. CASE phase' = "finished"
  <2>1. round' = round /\ pc'[w] = "finalize"
    BY <1>4
  <2>2. \A r : Summed(r) => Summed(r)'
    BY <1>4, <2>1 DEF Summed
  <2>3. Committing' \subseteq Committing
    BY <2>1 DEF Committing
  <2>4. ChargesPaced'
    BY <1>4, <2>1, <2>3 DEF PaceInv, ChargesPaced, Owed
  <2>5. SummariesPaced'
    BY <1>4, <2>1, <2>2 DEF PaceInv, SummariesPaced, SummaryLabels
  <2>6. QED
    BY <2>2, <2>4, <2>5 DEF PaceInv, JobsPaced
<1>5. QED
  BY <1>1, <1>2, <1>3, <1>4

\* The charge of the round: no other handler is about to charge it.
LEMMA CommitPaces ==
  ASSUME IInv, PaceInv, NEW w \in Handlers, Commit(w),
         \A v \in Handlers \ {w} : pc'[v] = pc[v] /\ ctx'[v] = ctx[v]
  PROVE  PaceInv'
<1>1. /\ w \in Committing /\ Len(history') = Len(history) + 1 /\ jobs' \subseteq jobs
      /\ phase' \in {phase, "finished"} /\ pc'[w] \in {"finalize", "idle"}
      /\ round' = round
  BY DEF Commit, Charge, Committing, Goto, Done, IInv, TypeOK
<1>2. ctx[w].round = round /\ Owed /\ phase \in {"resolved", "finished"}
  BY <1>1 DEF PaceInv, ChargesPaced, IInv, Charging, ChargesArePast, Past
<1>3. Len(history') = round
  BY <1>1, <1>2 DEF Owed, IInv, TypeOK
<1>4. Committing' = {}
  BY <1>1, <1>2 DEF PaceInv, ChargesPaced, Committing, IInv, Charging, OneCharger
<1>5. \A r : Summed(r) => Summed(r)'
  BY <1>1, <1>2, <1>3 DEF Summed
<1>6. ChargesPaced'
  BY <1>1, <1>2, <1>3, <1>4 DEF ChargesPaced
<1>7. SummariesPaced'
  BY <1>1, <1>2, <1>5 DEF PaceInv, SummariesPaced, SummaryLabels
<1>8. JobsPaced'
  BY <1>1, <1>5 DEF PaceInv, JobsPaced
<1>9. QED
  BY <1>6, <1>7, <1>8 DEF PaceInv

LEMMA StepPaces ==
  ASSUME IInv, PaceInv, NEW w \in Handlers, Step(w), NoStraggler
  PROVE  PaceInv'
<1>t. TypeOK
  BY DEF IInv
<1>o. /\ \A v \in Handlers \ {w} : pc'[v] = pc[v] /\ ctx'[v] = ctx[v]
      /\ pc'[w] = "idle" \/ ctx'[w].round = ctx[w].round
  BY <1>t, OthersRest
<1>p. /\ pc \in [Handlers -> Labels]
      /\ \A label : Goto(w, label) => pc'[w] = label
      /\ \A new : Done(w, new) => pc'[w] = "idle" /\ jobs' \subseteq jobs \union new
      /\ \A label : Join(w, label) => pc'[w] = label /\ jobs' = jobs
  BY <1>t DEF TypeOK, Goto, Done, Join
<1>d. Done(w, {}) => pc'[w] = "idle" /\ jobs' \subseteq jobs
  BY <1>t DEF TypeOK, Done, Goto
<1>a. ASSUME UNCHANGED <<phase, round, history>>,
             phase = "resolved" /\ announced' => announced,
             jobs' \subseteq jobs, pc'[w] \notin {"roundReady", "roundReadyCount", "advance",
                                                 "persist", "commit"}
      PROVE  PaceInv'
  <2>1. pc'[w] \notin SummaryLabels \union {"persist", "commit"}
    BY <1>a DEF SummaryLabels
  <2>2. \A j \in jobs' \ jobs : FALSE
    BY <1>a
  <2>3. QED
    BY <1>t, <1>o, <1>a, <2>1, <2>2, PaceRests
<1> USE DEF runtimeVars, redisVars, pgVars, worldVars, ghostVars
<1>1. CASE ReadyCount(w) \/ StartRead(w) \/ Release(w) \/ Preview(w) \/ Ack(w) \/ Finalize(w)
  <2>1. UNCHANGED <<phase, round, history, announced>>
    BY <1>1 DEF ReadyCount, StartRead, Release, Preview, Ack, Finalize
  <2>2. /\ jobs' \subseteq jobs
        /\ pc'[w] \in {"idle", "startRead", "startFlip", "preview", "applyRead",
                       "cleanup"}
    <3>1. ReadyCount(w) \/ StartRead(w) \/ Release(w) => <2>2!1 /\ <2>2!2
      BY <1>p, <1>d DEF ReadyCount, StartRead, Release
    <3>2. Preview(w) \/ Ack(w) \/ Finalize(w) => <2>2!1 /\ <2>2!2
      BY <1>p, <1>d DEF Preview, Ack, Finalize, Throw
    <3>3. QED
      BY <1>1, <3>1, <3>2
  <2>3. QED
    BY <1>a, <2>1, <2>2
<1>2. CASE CombatLock(w)
  <2>1. /\ UNCHANGED <<phase, round, history>> /\ jobs' \subseteq jobs
        /\ pc'[w] \in {"idle", "combatGuard"}
    BY <1>2, <1>p, <1>d DEF CombatLock
  <2>2. phase = "resolved" /\ announced' => announced
    BY <1>2 DEF CombatLock, Announce, At
  <2>3. QED
    BY <1>a, <2>1, <2>2
<1>3. CASE CombatGuard(w) \/ CombatClear(w) \/ CombatCheck(w) \/ AppendRound(w)
           \/ WriteResult(w) \/ SetCombatRound(w) \/ ApplyRead(w) \/ ApplyResult(w)
           \/ AdvanceReset(w)
  <2>1. UNCHANGED <<phase, round, history, announced>>
    BY <1>3 DEF CombatGuard, CombatClear, CombatCheck, AppendRound, WriteResult,
                SetCombatRound, ApplyRead, ApplyResult, AdvanceReset
  <2>2. /\ jobs' \subseteq jobs
        /\ pc'[w] \in {"idle", "abandon", "combatClear", "combatCheck", "append",
                       "writeResult", "setCombatRound", "scheduleTimeout", "applyResult",
                       "applyFlip", "advanceSchedule"}
    <3>1. CombatGuard(w) \/ CombatClear(w) \/ CombatCheck(w) => <2>2!1 /\ <2>2!2
      BY <1>p DEF CombatGuard, CombatClear, CombatCheck
    <3>2. AppendRound(w) \/ WriteResult(w) \/ SetCombatRound(w) => <2>2!1 /\ <2>2!2
      BY <1>p DEF AppendRound, WriteResult, SetCombatRound
    <3>3. ApplyRead(w) \/ ApplyResult(w) \/ AdvanceReset(w) => <2>2!1 /\ <2>2!2
      BY <1>p, <1>d DEF ApplyRead, ApplyResult, AdvanceReset
    <3>4. QED
      BY <1>3, <3>1, <3>2, <3>3
  <2>3. QED
    BY <1>a, <2>1, <2>2
<1>4. CASE ScheduleTimeout(w) \/ ScheduleCleanup(w) \/ AdvanceSchedule(w)
  <2>1. /\ UNCHANGED <<phase, round, history>> /\ pc'[w] \in {"release", "idle"}
    BY <1>4, <1>p DEF ScheduleTimeout, ScheduleCleanup, AdvanceSchedule
  <2>2. phase = "resolved" /\ announced' => announced
    BY <1>4, <1>t DEF ScheduleTimeout, ScheduleCleanup, AdvanceSchedule, Announce, At
  <2>3. \A j \in jobs' \ jobs :
           j.type \in {"combat_done_timeout", "match_cleanup", "phase_start"}
    BY <1>4, <1>p DEF ScheduleTimeout, ScheduleCleanup, AdvanceSchedule, Job, CleanupJob
  <2>4. QED
    BY <1>t, <1>o, <2>1, <2>2, <2>3, PaceRests DEF SummaryLabels
<1> USE DEF SummaryLabels
<1>5. CASE Persist(w)
  <2>1. /\ UNCHANGED <<phase, round, history, announced>> /\ jobs' \subseteq jobs
        /\ pc'[w] = "idle" \/ (pc[w] = "persist" /\ pc'[w] = "commit" /\ ctx' = ctx)
    BY <1>5, <1>p DEF Persist, Throw
  <2>2. QED
    BY <1>t, <1>o, <2>1, PaceRests
<1>6. CASE RoundReadySet(w) \/ RoundReadyCount(w)
  <2>1. /\ UNCHANGED <<phase, round, history>> /\ pc[w] \in SummaryLabels \ {"advance"}
        /\ pc'[w] \in {"idle", "roundReadyCount", "advance"}
    BY <1>6, <1>p DEF RoundReadySet, RoundReadyCount
  <2>2. /\ Summed(ctx[w].round)
        /\ phase \in {"battle", "resolved"} => ctx[w].round = round
    BY <2>1 DEF PaceInv, SummariesPaced
  <2>3. phase = "resolved" /\ announced' => announced \/ Len(history) = round
    BY <2>2 DEF Summed
  <2>4. \A j \in jobs' \ jobs : j = Job("round_ready_timeout", ctx[w].round)
    BY <1>6, <1>p DEF RoundReadySet, RoundReadyCount
  <2>5. \A j \in jobs' \ jobs :
           j.type # "none" /\ (j.type = "round_ready_timeout" => Summed(j.round))
    BY <2>2, <2>4 DEF Job
  <2>6. QED
    BY <1>t, <1>o, <2>1, <2>2, <2>3, <2>5, PaceRests
<1>7. CASE StartFlip(w) \/ ApplyFlip(w) \/ Advance(w) \/ Quit(w)
  <2>1. CASE pc'[w] = "idle"
    <3>1. UNCHANGED <<phase, round, history, announced>>
      BY <1>7, <1>p, <2>1 DEF StartFlip, ApplyFlip, Advance, Quit
    <3>2. jobs' \subseteq jobs
      BY <1>7, <1>d, <2>1 DEF StartFlip, ApplyFlip, Advance, Quit
    <3>3. QED
      BY <1>a, <2>1, <3>1, <3>2
  <2>2. CASE pc'[w] # "idle"
    <3>1. ctx' = ctx /\ jobs' = jobs /\ history' = history
      BY <1>7, <1>p, <2>2 DEF StartFlip, ApplyFlip, Advance, Quit
    <3>2. StartFlip(w) => /\ phase = "shop_place" /\ phase' = "battle" /\ round' = round
                          /\ pc'[w] = "combatLock" /\ Stragglers = {}
      BY <1>p, <2>2 DEF StartFlip, At, NoStraggler
    <3>3. ApplyFlip(w) => /\ phase = "battle" /\ ctx[w].round = round /\ round' = round
                          /\ phase' = "resolved" /\ announced' = FALSE /\ pc'[w] = "persist"
      BY <1>p, <2>2 DEF ApplyFlip, At
    <3>4. Advance(w) => /\ phase = "resolved" /\ ctx[w].round = round /\ pc[w] = "advance"
                        /\ phase' = "shop_place" /\ round' = round + 1
                        /\ pc'[w] = "advanceReset"
      BY <1>p, <2>2 DEF Advance, At
    <3>5. Quit(w) => phase' = "finished" /\ round' = round /\ pc'[w] = "finalize"
      BY <1>p, <2>2 DEF Quit
    <3>6. QED
      BY <1>7, <1>o, <3>1, <3>2, <3>3, <3>4, <3>5, FlipPaces
  <2>3. QED
    BY <2>1, <2>2
<1>8. CASE Commit(w)
  BY <1>8, <1>o, CommitPaces
<1>9. QED
  BY <1>1, <1>2, <1>3, <1>4, <1>5, <1>6, <1>7, <1>8 DEF Step

\* What players, timers and crashes begin.
LEMMA WorldPaces ==
  ASSUME Eager = {}, IInv, PaceInv, Next, ~\E w \in Handlers : Step(w)
  PROVE  PaceInv'
<1>t. TypeOK
  BY DEF IInv
<1>r. UNCHANGED <<phase, round, history>>
  BY <1>t, WorldRests
<1> USE DEF runtimeVars, redisVars, pgVars, worldVars, ghostVars, SummaryLabels
<1>1. ASSUME NEW w \in WsHandlers, NEW p \in Players, Client(w, p) PROVE PaceInv'
  <2>w. w \in Handlers
    BY DEF Handlers
  <2>1. announced' = announced /\ jobs' = jobs
    BY <1>1 DEF Client, Ready, CombatDone, RoundReady, Surrender, Disconnect
  <2>2. \A v \in Handlers \ {w} : pc'[v] = pc[v] /\ ctx'[v] = ctx[v]
    BY <1>1, <1>t, <2>w DEF Client, Ready, CombatDone, RoundReady, Surrender, Disconnect,
                            Begin, Goto, TypeOK
  <2>3. CASE RoundReady(w, p)
    <3>1. phase = "resolved" /\ announced /\ pc'[w] = "roundReady"
      BY <2>3, <1>t, <2>w DEF RoundReady, Message, Begin, Goto, TypeOK
    <3>2. ctx'[w].round = round
      BY <2>3, <1>t, <2>w DEF RoundReady, Begin, TypeOK, Blank
    <3>3. Summed(ctx'[w].round)
      BY <1>t, <3>1, <3>2 DEF Summed, PaceInv, ChargesPaced, TypeOK
    <3>4. QED
      BY <1>t, <1>r, <2>1, <2>2, <3>1, <3>2, <3>3, PaceRests
  <2>4. CASE ~RoundReady(w, p)
    <3>1. pc'[w] \in {"readyCount", "ack", "quit"}
      BY <1>1, <1>t, <2>w, <2>4 DEF Client, Ready, CombatDone, Surrender, Disconnect, Begin,
                                    Goto, TypeOK
    <3>2. QED
      BY <1>t, <1>r, <2>1, <2>2, <3>1, PaceRests
  <2>5. QED
    BY <2>3, <2>4
<1>2. ASSUME NEW w \in JobHandlers, NEW j \in jobs, PickJob(w, j) PROVE PaceInv'
  <2>w. w \in Handlers
    BY DEF Handlers
  <2>1. announced' = announced /\ jobs' = jobs
    BY <1>2 DEF PickJob
  <2>2. /\ \A v \in Handlers \ {w} : pc'[v] = pc[v] /\ ctx'[v] = ctx[v]
        /\ pc'[w] = FirstStep(j)
    BY <1>2, <1>t, <2>w DEF PickJob, Begin, Goto, TypeOK
  <2>3. ctx'[w].round = j.round
    BY <1>2, <1>t, <2>w DEF PickJob, Begin, TypeOK, Blank
  <2>4. pc'[w] \in SummaryLabels => pc'[w] = "advance" /\ j.type = "round_ready_timeout"
    BY <1>2, <1>t, <2>2 DEF PickJob, FirstStep, PaceInv, JobsPaced, TypeOK, Jobs, JobTypes
  <2>5. pc'[w] \in SummaryLabels => Summed(ctx'[w].round)
    BY <2>3, <2>4 DEF PaceInv, JobsPaced
  <2>6. pc'[w] \notin {"persist", "commit"}
    BY <2>2 DEF FirstStep
  <2>7. QED
    BY <1>t, <1>r, <2>1, <2>2, <2>4, <2>5, <2>6, PaceRests
<1>3. CASE \E p \in Players : Reconnect(p)
  BY <1>3, <1>t, <1>r, PaceRests DEF Reconnect
<1>4. CASE ExpireLock \/ ExpireAcks
  BY <1>4, <1>t, <1>r, PaceRests DEF ExpireLock, ExpireAcks
<1>5. CASE \E S \in SUBSET Handlers : Crash(S)
  <2>1. /\ announced' = announced /\ jobs' = jobs
        /\ \A v \in Handlers : (pc'[v] = pc[v] /\ ctx'[v] = ctx[v]) \/ pc'[v] = "idle"
    BY <1>5 DEF Crash
  <2>2. QED
    BY <1>t, <1>r, <2>1, PaceRests
<1>6. QED
  BY <1>1, <1>2, <1>3, <1>4, <1>5 DEF Next

LEMMA InitPaces == Init => PaceInv
<1> SUFFICES ASSUME Init PROVE PaceInv
  OBVIOUS
<1>1. Committing = {} /\ Len(history) = 0
  BY DEF Init, Committing
<1>2. QED
  BY <1>1 DEF Init, PaceInv, ChargesPaced, Owed, SummariesPaced, SummaryLabels, JobsPaced, Job

\* PromptSpec is Spec with fewer steps.
LEMMA PromptIsSpec == PromptSpec => Spec
<1>1. [Next /\ NoStraggler]_vars => [Next]_vars
  OBVIOUS
<1>2. QED
  BY <1>1, PTL DEF PromptSpec, Spec

LEMMA PaceHolds ==
  ASSUME Eager = {}
  PROVE  PromptSpec => []PaceInv
<1>1. IInv /\ PaceInv /\ [Next /\ NoStraggler]_vars => PaceInv'
  <2> SUFFICES ASSUME IInv, PaceInv, [Next /\ NoStraggler]_vars PROVE PaceInv'
    OBVIOUS
  <2>1. CASE Next /\ NoStraggler
    BY <2>1, StepPaces, WorldPaces
  <2>2. CASE UNCHANGED vars
    BY <2>2, PaceRests DEF vars, IInv, runtimeVars, worldVars, ghostVars
  <2>3. QED
    BY <2>1, <2>2
<1>2. PromptSpec => []IInv
  BY PromptIsSpec, Invariance, PTL
<1>3. QED
  BY <1>1, <1>2, InitPaces, PTL DEF PromptSpec

\* When clients wait for the event of a phase and no handler is a round late,
\* a round that was fought is charged before the players hear that it is over
\* and before the next one begins: for any number of handlers, crashes of
\* replicas and failed calls.
THEOREM RoundsAreCharged ==
  ASSUME Eager = {}
  PROVE  PromptSpec => []EveryRoundCharged
<1>1. PaceInv => EveryRoundCharged
  BY DEF PaceInv, ChargesPaced, Owed, EveryRoundCharged
<1>2. QED
  BY <1>1, PaceHolds, PTL
=============================================================================
