----------------------- MODULE RoundOrchestratorProofs -----------------------
(***************************************************************************)
(* Theorems about RoundOrchestrator: what holds for every number of        *)
(* handlers, rounds, crashes and faults.                                   *)
(***************************************************************************)
EXTENDS RoundOrchestrator, TLAPS

-----------------------------------------------------------------------------
(* The operators on hit points and contexts keep their types.              *)

\* The wipe index never leaves 0..5 (Math.min in damageFor).
LEMMA WipeAfterType ==
  ASSUME NEW won, NEW idx \in [Players -> 0..5]
  PROVE  WipeAfter(won, idx) \in [Players -> 0..5]
  BY SMT DEF WipeAfter, MaxWipe

\* Hit points stay natural numbers (Math.max in resolveRound).
LEMMA HpAfterType ==
  ASSUME NEW won, NEW idx \in [Players -> 0..5], NEW h \in [Players -> Nat]
  PROVE  HpAfter(won, h, idx) \in [Players -> Nat]
<1> DEFINE i == WipeAfter(won, idx)
<1>1. i \in [Players -> 0..5]
  BY WipeAfterType
<1>2. ASSUME NEW p \in Players PROVE Damage(won, idx)[p] \in Nat
  <2>1. Damage(won, idx)[p] = CASE won = None        -> TieDamage
                                [] won = Opponent(p) -> 5 * i[p]
                                [] OTHER             -> 0
    BY DEF Damage
  <2> HIDE DEF i
  <2>2. 5 * i[p] \in Nat
    BY <1>1, SMT
  <2>3. QED
    BY <2>1, <2>2, SMT DEF TieDamage
<1>3. QED
  BY <1>2, SMT DEF HpAfter

\* An empty context is a context.
LEMMA BlankType == Blank \in Contexts
  BY SMT DEF Blank, Contexts, NoJob, Job, Jobs, JobTypes, Outcomes, Phases, Reasons

\* A context of a message, of a player who leaves and of a job.
LEMMA NewContextType ==
  ASSUME NEW p \in Players, NEW r \in Nat, NEW ph \in Phases, NEW j \in Jobs,
         NEW why \in Reasons
  PROVE  /\ [Blank EXCEPT !.player = p, !.round = r] \in Contexts
         /\ [Blank EXCEPT !.player = p, !.round = r, !.expect = ph,
                          !.reason = why] \in Contexts
         /\ [Blank EXCEPT !.job = j, !.round = r] \in Contexts
<1> DEFINE m == [Blank EXCEPT !.player = p]
           n == [m EXCEPT !.round = r]
           o == [n EXCEPT !.expect = ph]
           k == [Blank EXCEPT !.job = j]
<1>1. m \in Contexts
  BY BlankType DEF Contexts, Outcomes
<1>2. k \in Contexts
  BY BlankType DEF Contexts
<1> HIDE DEF m, k
<1>3. n \in Contexts /\ [k EXCEPT !.round = r] \in Contexts
  BY <1>1, <1>2 DEF Contexts
<1> HIDE DEF n
<1>4. o \in Contexts
  BY <1>3 DEF Contexts
<1> HIDE DEF o
<1>5. [o EXCEPT !.reason = why] \in Contexts
  BY <1>4 DEF Contexts
<1>6. QED
  BY <1>3, <1>5 DEF k, m, n, o

\* What a handler keeps of the hash, of a battle and of its result.
LEMMA ContextReadType ==
  ASSUME ctx \in [Handlers -> Contexts], NEW w \in Handlers,
         NEW h \in [Players -> Nat], NEW i \in [Players -> 0..5]
  PROVE  [ctx EXCEPT ![w].hp = h, ![w].wipe = i] \in [Handlers -> Contexts]
<1> DEFINE c == [ctx EXCEPT ![w].hp = h]
<1>1. c \in [Handlers -> Contexts]
  BY DEF Contexts
<1> HIDE DEF c
<1>2. [c EXCEPT ![w].wipe = i] \in [Handlers -> Contexts]
  BY <1>1 DEF Contexts
<1>3. QED
  BY <1>2 DEF c

LEMMA ContextWonType ==
  ASSUME ctx \in [Handlers -> Contexts], NEW w \in Handlers, NEW won \in Outcomes
  PROVE  [ctx EXCEPT ![w].won = won] \in [Handlers -> Contexts]
  BY DEF Contexts

LEMMA ContextResultType ==
  ASSUME ctx \in [Handlers -> Contexts], NEW w \in Handlers,
         NEW h \in [Players -> Nat], NEW i \in [Players -> 0..5],
         NEW won \in Outcomes, NEW r \in Nat
  PROVE  [ctx EXCEPT ![w].hp = h, ![w].wipe = i, ![w].won = won, ![w].from = r]
            \in [Handlers -> Contexts]
<1> DEFINE d == [ctx EXCEPT ![w].hp = h, ![w].wipe = i]
           e == [d EXCEPT ![w].won = won]
<1>1. d \in [Handlers -> Contexts]
  BY ContextReadType
<1> HIDE DEF d
<1>2. e \in [Handlers -> Contexts]
  BY <1>1 DEF Contexts
<1> HIDE DEF e
<1>3. [e EXCEPT ![w].from = r] \in [Handlers -> Contexts]
  BY <1>2 DEF Contexts
<1>4. QED
  BY <1>3 DEF d, e

-----------------------------------------------------------------------------
(* The inductive invariant.                                                *)

\* A handler that still has to act for a player knows for which: without
\* this TypeOK is not inductive.
SenderKnown ==
    \A w \in Handlers :
        pc[w] \in {"ack", "roundReady", "quit"} => ctx[w].player \in Players

\* The battle of r was taken out of the phase "battle".
Past(r) ==
    /\ r \in 1..round
    /\ r = round => phase \in {"resolved", "finished"}

\* A round is charged, or about to be, only when its battle is past; no two
\* handlers are about to charge the same round, nor one that was charged.
ChargesArePast ==
    /\ \A i \in DOMAIN history : Past(history[i].round)
    /\ \A w \in Committing : Past(ctx[w].round)

OneCharger ==
    /\ \A w \in Committing : \A i \in DOMAIN history :
          history[i].round # ctx[w].round
    /\ \A v, w \in Committing : ctx[v].round = ctx[w].round => v = w

\* A handler on its way to close the row has stopped the match.
ClosersStopped ==
    \A w \in Handlers : pc[w] \in {"finalize", "cleanup"} => phase = "finished"

Stopping == ClosersStopped /\ ClosedMatchIsStopped

Charging == ChargesArePast /\ OneCharger /\ DamageOnce /\ round >= 1

IInv == TypeOK /\ SenderKnown /\ Stopping /\ Charging /\ RatedOnce

-----------------------------------------------------------------------------
(* Type correctness.                                                       *)

\* The part of TypeOK that every step of a handler touches.
HandlersOK ==
    /\ pc \in [Handlers -> Labels]
    /\ ctx \in [Handlers -> Contexts]
    /\ jobs \subseteq Jobs

\* A step of a handler that touches nothing else keeps the rest.
LEMMA RestType ==
  ASSUME TypeOK, HandlersOK',
         UNCHANGED <<runtimeVars, redisVars, pgVars, worldVars, ghostVars>>
  PROVE  TypeOK'
  BY DEF TypeOK, HandlersOK, runtimeVars, redisVars, pgVars, worldVars, ghostVars

\* The ways a handler moves on keep that part.
LEMMA GotoType ==
  ASSUME HandlersOK, NEW w \in Handlers, NEW label \in Labels, Goto(w, label)
  PROVE  pc' \in [Handlers -> Labels]
  BY DEF HandlersOK, Goto

LEMMA BeginType ==
  ASSUME HandlersOK, NEW w \in Handlers, NEW label \in Labels,
         NEW c \in Contexts, Begin(w, label, c), UNCHANGED jobs
  PROVE  HandlersOK'
  BY GotoType DEF HandlersOK, Begin

LEMMA JoinType ==
  ASSUME HandlersOK, NEW w \in Handlers, NEW label \in Labels, Join(w, label)
  PROVE  HandlersOK'
<1>1. ctx' \in [Handlers -> Contexts]
  BY DEF HandlersOK, Join, Contexts, Outcomes
<1>2. QED
  BY <1>1, GotoType DEF HandlersOK, Join

LEMMA DoneType ==
  ASSUME HandlersOK, NEW w \in Handlers, NEW new \in SUBSET Jobs, Done(w, new)
  PROVE  HandlersOK'
<1>1. pc' \in [Handlers -> Labels]
  BY GotoType DEF Done, Labels
<1>2. ctx' \in [Handlers -> Contexts]
  BY BlankType DEF Done, HandlersOK
<1>3. jobs' \subseteq Jobs
  BY DEF Done, HandlersOK
<1>4. QED
  BY <1>1, <1>2, <1>3 DEF HandlersOK

LEMMA MoveType ==
  ASSUME HandlersOK, NEW w \in Handlers, NEW label \in Labels, Goto(w, label),
         UNCHANGED <<ctx, jobs>>
  PROVE  HandlersOK'
  BY GotoType DEF HandlersOK

\* The jobs the handlers add are jobs.
LEMMA JobsType ==
  /\ {} \subseteq Jobs /\ {CleanupJob} \subseteq Jobs
  /\ \A r \in Nat : /\ {Job("phase_start", r)} \subseteq Jobs
                    /\ {Job("combat_done_timeout", r)} \subseteq Jobs
                    /\ {Job("round_ready_timeout", r)} \subseteq Jobs
  BY DEF CleanupJob, Job, Jobs, JobTypes

\* A context says a round, a player and a reason of their kinds.
LEMMA ContextFields ==
  ASSUME HandlersOK, NEW w \in Handlers
  PROVE  /\ ctx[w].round \in Nat /\ ctx[w].from \in Nat
         /\ ctx[w].hp \in [Players -> Nat] /\ ctx[w].wipe \in [Players -> 0..5]
         /\ ctx[w].won \in Outcomes /\ ctx[w].player \in Outcomes
         /\ ctx[w].expect \in Phases /\ ctx[w].job \in Jobs
  BY DEF HandlersOK, Contexts

LEMMA InitType == Init => TypeOK
<1> SUFFICES ASSUME Init PROVE TypeOK
  OBVIOUS
<1>1. jobs \subseteq Jobs
  BY JobsType DEF Init
<1>2. ctx \in [Handlers -> Contexts]
  BY BlankType DEF Init
<1>3. history \in Seq([round: Nat, from: Nat, won: Outcomes])
  BY DEF Init
<1>4. QED
  BY <1>1, <1>2, <1>3, BoundsAssumption
     DEF Init, TypeOK, Phases, NoResult, Outcomes, Labels

\* Every step of a handler keeps the types.
LEMMA StepType ==
  ASSUME TypeOK, SenderKnown, NEW w \in Handlers, Step(w)
  PROVE  TypeOK'
<1>h. HandlersOK
  BY DEF TypeOK, HandlersOK
<1>f. /\ ctx[w].round \in Nat /\ ctx[w].from \in Nat
      /\ ctx[w].hp \in [Players -> Nat] /\ ctx[w].wipe \in [Players -> 0..5]
      /\ ctx[w].won \in Outcomes /\ ctx[w].player \in Outcomes
  BY <1>h, ContextFields
<1> USE DEF runtimeVars, redisVars, pgVars, worldVars, ghostVars
<1>1. CASE ReadyCount(w)
  <2>1. HandlersOK'
    BY <1>1, <1>h, JoinType, DoneType, JobsType DEF ReadyCount, Labels
  <2>2. QED
    BY <1>1, <1>f, <2>1 DEF ReadyCount, TypeOK, HandlersOK
<1>2. CASE StartRead(w)
  <2>1. HandlersOK'
    <3>1. CASE Done(w, {})
      BY <3>1, <1>h, DoneType, JobsType
    <3>2. CASE ~Done(w, {})
      <4>0. ctx' = [ctx EXCEPT ![w].hp = hp, ![w].wipe = wipe]
        BY <3>2, <1>2 DEF StartRead
      <4>1. ctx' \in [Handlers -> Contexts]
        BY <4>0, ContextReadType, Zenon DEF TypeOK
      <4>2. pc' \in [Handlers -> Labels] /\ UNCHANGED jobs
        BY <3>2, <1>2, <1>h, GotoType DEF StartRead, Labels
      <4>3. QED
        BY <4>1, <4>2, <1>h DEF HandlersOK
    <3>3. QED
      BY <3>1, <3>2
  <2>2. QED
    BY <1>2, <1>f, <2>1 DEF StartRead, TypeOK, HandlersOK
<1>3. CASE StartFlip(w)
  <2>1. HandlersOK'
    BY <1>3, <1>h, MoveType, DoneType, JobsType DEF StartFlip, Labels
  <2>2. QED
    BY <1>3, <1>f, <2>1 DEF StartFlip, TypeOK, HandlersOK, Phases
<1>4. CASE CombatLock(w)
  <2>1. HandlersOK'
    BY <1>4, <1>h, MoveType, DoneType, JobsType DEF CombatLock, Labels
  <2>2. QED
    BY <1>4, <1>f, <2>1 DEF CombatLock, Announce, TypeOK, HandlersOK
<1>5. CASE CombatGuard(w)
  <2>1. HandlersOK'
    BY <1>5, <1>h, MoveType DEF CombatGuard, Labels
  <2>2. QED
    BY <1>5, <1>f, <2>1 DEF CombatGuard, TypeOK, HandlersOK
<1>6. CASE CombatClear(w)
  <2>1. HandlersOK'
    <3>1. ctx' \in [Handlers -> Contexts]
      BY <1>6, ContextWonType, BoundsAssumption DEF CombatClear, TypeOK
    <3>2. pc' \in [Handlers -> Labels] /\ UNCHANGED jobs
      BY <1>6, <1>h, GotoType DEF CombatClear, Labels
    <3>3. QED
      BY <3>1, <3>2, <1>h DEF HandlersOK
  <2>2. QED
    BY <1>6, <1>f, <2>1 DEF CombatClear, TypeOK, HandlersOK, NoResult, Outcomes
<1>7. CASE CombatCheck(w)
  <2>1. HandlersOK'
    BY <1>7, <1>h, MoveType DEF CombatCheck, Labels
  <2>2. QED
    BY <1>7, <1>f, <2>1 DEF CombatCheck, TypeOK, HandlersOK
<1>8. CASE AppendRound(w)
  <2>1. HandlersOK'
    BY <1>8, <1>h, MoveType DEF AppendRound, Labels
  <2>2. QED
    <3>1. savedRounds' \subseteq Nat
      BY <1>8, <1>f, Zenon DEF AppendRound, TypeOK
    <3>2. faults' \in Nat
      BY <1>8 DEF AppendRound, TypeOK
    <3>3. QED
      BY <1>8, <2>1, <3>1, <3>2 DEF AppendRound, TypeOK, HandlersOK
<1>9. CASE WriteResult(w)
  <2>1. HandlersOK'
    BY <1>9, <1>h, MoveType DEF WriteResult, Labels
  <2>2. QED
    BY <1>9, <1>f, <2>1 DEF WriteResult, TypeOK, HandlersOK
<1>10. CASE SetCombatRound(w)
  <2>1. HandlersOK'
    BY <1>10, <1>h, MoveType DEF SetCombatRound, Labels
  <2>2. QED
    BY <1>10, <1>f, <2>1 DEF SetCombatRound, TypeOK, HandlersOK
<1>11. CASE ScheduleTimeout(w)
  <2>1. HandlersOK'
    BY <1>11, <1>h, <1>f, GotoType, JobsType DEF ScheduleTimeout, HandlersOK, Labels
  <2>2. QED
    BY <1>11, <1>f, <2>1 DEF ScheduleTimeout, TypeOK, HandlersOK
<1>12. CASE Release(w)
  <2>1. HandlersOK'
    BY <1>12, <1>h, MoveType, DoneType, JobsType DEF Release, ReleaseOwnedLock, Labels
  <2>2. QED
    BY <1>12, <1>f, <2>1 DEF Release, ReleaseOwnedLock, TypeOK, HandlersOK
<1>13. CASE Preview(w)
  <2>1. HandlersOK'
    BY <1>13, <1>h, DoneType, JobsType DEF Preview
  <2>2. QED
    <3>1. HpAfter(result.won, ctx[w].hp, ctx[w].wipe) \in [Players -> Nat]
      BY <1>f, HpAfterType DEF TypeOK
    <3>2. preview' \in [round: Nat, hp: [Players -> Nat]]
      BY <1>13, <1>f, <3>1 DEF Preview, TypeOK
    <3>3. QED
      BY <1>13, <2>1, <3>2 DEF Preview, TypeOK, HandlersOK
<1>14. CASE Ack(w)
  <2>1. HandlersOK'
    BY <1>14, <1>h, JoinType, DoneType, JobsType DEF Ack, Labels
  <2>2. QED
    BY <1>14, <1>f, <2>1 DEF Ack, SenderKnown, TypeOK, HandlersOK
<1>15. CASE ApplyRead(w)
  <2>1. HandlersOK'
    <3>1. CASE Done(w, {})
      BY <3>1, <1>h, DoneType, JobsType
    <3>2. CASE ~Done(w, {})
      <4>0. ctx' = [ctx EXCEPT ![w].hp = hp, ![w].wipe = wipe]
        BY <3>2, <1>15 DEF ApplyRead
      <4>1. ctx' \in [Handlers -> Contexts]
        BY <4>0, ContextReadType, Zenon DEF TypeOK
      <4>2. pc' \in [Handlers -> Labels] /\ UNCHANGED jobs
        BY <3>2, <1>15, <1>h, GotoType DEF ApplyRead, Labels
      <4>3. QED
        BY <4>1, <4>2, <1>h DEF HandlersOK
    <3>3. QED
      BY <3>1, <3>2
  <2>2. QED
    BY <1>15, <1>f, <2>1 DEF ApplyRead, TypeOK, HandlersOK
<1>16. CASE ApplyResult(w)
  <2>1. HandlersOK'
    <3>1. CASE Done(w, {})
      BY <3>1, <1>h, DoneType, JobsType
    <3>2. CASE ~Done(w, {})
      <4>1. /\ HpAfter(result.won, ctx[w].hp, ctx[w].wipe) \in [Players -> Nat]
            /\ WipeAfter(result.won, ctx[w].wipe) \in [Players -> 0..5]
            /\ result.won \in Outcomes /\ result.round \in Nat
        BY <1>f, HpAfterType, WipeAfterType DEF TypeOK
      <4>2. ctx' \in [Handlers -> Contexts]
        <5>1. ctx' = [ctx EXCEPT
                        ![w].hp   = HpAfter(result.won, ctx[w].hp, ctx[w].wipe),
                        ![w].wipe = WipeAfter(result.won, ctx[w].wipe),
                        ![w].won  = result.won,
                        ![w].from = result.round]
          BY <3>2, <1>16 DEF ApplyResult
        <5>2. QED
          BY <5>1, <4>1, <1>h, ContextResultType, Zenon DEF HandlersOK
      <4>3. pc' \in [Handlers -> Labels] /\ UNCHANGED jobs
        BY <3>2, <1>16, <1>h, GotoType DEF ApplyResult, Labels
      <4>4. QED
        BY <4>2, <4>3, <1>h DEF HandlersOK
    <3>3. QED
      BY <3>1, <3>2
  <2>2. UNCHANGED <<runtimeVars, redisVars, pgVars, worldVars, ghostVars>>
    BY <1>16 DEF ApplyResult
  <2>3. QED
    BY <2>1, <2>2, RestType
<1>17. CASE ApplyFlip(w)
  <2>1. HandlersOK'
    BY <1>17, <1>h, MoveType, DoneType, JobsType DEF ApplyFlip, Labels
  <2>2. QED
    BY <1>17, <1>f, <2>1 DEF ApplyFlip, TypeOK, HandlersOK, Phases
<1>18. CASE Persist(w)
  <2>1. HandlersOK'
    BY <1>18, <1>h, MoveType, DoneType, JobsType DEF Persist, Labels, Throw
  <2>2. snapshot' \in [Players -> Nat] /\ faults' \in Nat
    BY <1>18, <1>f DEF Persist, TypeOK, Throw
  <2>3. UNCHANGED <<runtimeVars, redisVars, status, winner, savedRounds, ratings, online,
                    announced, crashes, ghostVars>>
    BY <1>18 DEF Persist
  <2>4. QED
    BY <2>1, <2>2, <2>3 DEF TypeOK, HandlersOK, runtimeVars, redisVars, ghostVars
<1>19. CASE Commit(w)
  <2>1. HandlersOK'
    BY <1>19, <1>h, MoveType, DoneType, JobsType DEF Commit, Charge, Labels
  <2>2. QED
    <3>1. history' \in Seq([round: Nat, from: Nat, won: Outcomes])
      BY <1>19, <1>f DEF Commit, Charge, TypeOK
    <3>2. phase' \in Phases /\ ready' \subseteq Players /\ combatRound' \in Nat
      BY <1>19 DEF Commit, Charge, TypeOK, Phases
    <3>3. announced' \in BOOLEAN
      BY <1>19, Zenon DEF Commit, Charge, Announce, TypeOK
    <3>4. QED
      BY <1>19, <1>f, <2>1, <3>1, <3>2, <3>3 DEF Commit, Charge, TypeOK, HandlersOK
<1>20. CASE Finalize(w)
  <2>1. HandlersOK'
    BY <1>20, <1>h, MoveType, DoneType, JobsType DEF Finalize, CloseRow, Labels, Throw
  <2>2. QED
    <3>1. MatchWinner(ctx[w].hp) \in Outcomes /\ Opponent(ctx[w].player) \in Outcomes
      BY DEF MatchWinner, Opponent, Outcomes, Players
    <3>2. winner' \in Outcomes /\ ratings' \in Nat /\ faults' \in Nat
          /\ status' \in {"in_progress", "finished", "forfeited"}
      BY <1>20, <3>1 DEF Finalize, CloseRow, TypeOK, Throw
    <3>3. QED
      BY <1>20, <2>1, <3>2 DEF Finalize, CloseRow, TypeOK, HandlersOK
<1>21. CASE ScheduleCleanup(w)
  <2>1. HandlersOK'
    BY <1>21, <1>h, DoneType, JobsType DEF ScheduleCleanup
  <2>2. QED
    BY <1>21, <1>f, <2>1 DEF ScheduleCleanup, TypeOK, HandlersOK
<1>22. CASE RoundReadySet(w)
  <2>1. HandlersOK'
    BY <1>22, <1>h, MoveType DEF RoundReadySet, Labels
  <2>2. QED
    BY <1>22, <1>f, <2>1 DEF RoundReadySet, SenderKnown, TypeOK, HandlersOK
<1>23. CASE RoundReadyCount(w)
  <2>1. HandlersOK'
    BY <1>23, <1>h, JoinType, DoneType, JobsType, <1>f DEF RoundReadyCount, Labels
  <2>2. QED
    BY <1>23, <1>f, <2>1 DEF RoundReadyCount, TypeOK, HandlersOK
<1>24. CASE Advance(w)
  <2>1. HandlersOK'
    BY <1>24, <1>h, MoveType, DoneType, JobsType DEF Advance, Labels
  <2>2. QED
    <3>1. phase' \in Phases /\ round' \in Nat
      BY <1>24 DEF Advance, TypeOK, Phases
    <3>2. announced' \in BOOLEAN
      BY <1>24, Zenon DEF Advance, TypeOK
    <3>3. QED
      BY <1>24, <2>1, <3>1, <3>2 DEF Advance, TypeOK, HandlersOK
<1>25. CASE AdvanceReset(w)
  <2>1. HandlersOK'
    BY <1>25, <1>h, MoveType DEF AdvanceReset, Labels
  <2>2. QED
    BY <1>25, <1>f, <2>1 DEF AdvanceReset, TypeOK, HandlersOK
<1>26. CASE AdvanceSchedule(w)
  <2>1. HandlersOK'
    BY <1>26, <1>h, DoneType, JobsType, <1>f DEF AdvanceSchedule
  <2>2. QED
    BY <1>26, <1>f, <2>1 DEF AdvanceSchedule, Announce, TypeOK, HandlersOK
<1>27. CASE Quit(w)
  <2>1. HandlersOK'
    BY <1>27, <1>h, MoveType, DoneType, JobsType DEF Quit, Labels
  <2>2. QED
    BY <1>27, <1>f, <2>1 DEF Quit, TypeOK, HandlersOK, Phases
<1>28. QED
  BY <1>1, <1>2, <1>3, <1>4, <1>5, <1>6, <1>7, <1>8, <1>9, <1>10, <1>11, <1>12, <1>13, <1>14, <1>15, <1>16, <1>17, <1>18, <1>19, <1>20, <1>21, <1>22, <1>23, <1>24, <1>25, <1>26, <1>27 DEF Step

\* So do the messages of the clients, the jobs and the environment.
LEMMA WorldType ==
  ASSUME TypeOK, Next, ~\E w \in Handlers : Step(w)
  PROVE  TypeOK'
<1>h. HandlersOK
  BY DEF TypeOK, HandlersOK
<1> USE DEF runtimeVars, redisVars, pgVars, worldVars, ghostVars
<1>1. ASSUME NEW w \in WsHandlers, NEW p \in Players, Client(w, p)
      PROVE  TypeOK'
  <2>w. w \in Handlers
    BY DEF Handlers
  <2>c. /\ [Blank EXCEPT !.player = p, !.round = round] \in Contexts
        /\ [Blank EXCEPT !.player = p, !.round = round, !.expect = phase,
                         !.reason = "forfeit"] \in Contexts
        /\ [Blank EXCEPT !.player = p, !.round = round, !.expect = phase,
                         !.reason = "disconnect"] \in Contexts
    <3>1. NoJob \in Jobs
      BY DEF NoJob, Job, Jobs, JobTypes
    <3>2. "forfeit" \in Reasons /\ "disconnect" \in Reasons
      BY DEF Reasons
    <3>3. round \in Nat /\ phase \in Phases
      BY DEF TypeOK
    <3>4. QED
      BY <3>1, <3>2, <3>3, NewContextType
  <2>1. ASSUME NEW flag \in BOOLEAN, Ready(w, p, flag) PROVE TypeOK'
    <3>1. HandlersOK'
      BY <2>1, <2>w, <2>c, <1>h, BeginType DEF Ready, Labels
    <3>2. QED
      BY <2>1, <3>1 DEF Ready, TypeOK, HandlersOK
  <2>2. CASE CombatDone(w, p)
    <3>1. HandlersOK'
      BY <2>2, <2>w, <2>c, <1>h, BeginType DEF CombatDone, Labels
    <3>2. QED
      BY <2>2, <3>1 DEF CombatDone, TypeOK, HandlersOK
  <2>3. CASE RoundReady(w, p)
    <3>1. HandlersOK'
      BY <2>3, <2>w, <2>c, <1>h, BeginType DEF RoundReady, Labels
    <3>2. QED
      BY <2>3, <3>1 DEF RoundReady, TypeOK, HandlersOK
  <2>4. CASE Surrender(w, p)
    <3>1. HandlersOK'
      BY <2>4, <2>w, <2>c, <1>h, BeginType DEF Surrender, Labels
    <3>2. QED
      BY <2>4, <3>1 DEF Surrender, TypeOK, HandlersOK
  <2>5. CASE Disconnect(w, p)
    <3>1. HandlersOK'
      BY <2>5, <2>w, <2>c, <1>h, BeginType DEF Disconnect, Labels
    <3>2. QED
      BY <2>5, <3>1 DEF Disconnect, TypeOK, HandlersOK
  <2>6. QED
    BY <1>1, <2>1, <2>2, <2>3, <2>4, <2>5 DEF Client
<1>2. ASSUME NEW w \in JobHandlers, NEW j \in jobs, PickJob(w, j)
      PROVE  TypeOK'
  <2>1. w \in Handlers /\ j \in Jobs /\ j.round \in Nat
    BY <1>h DEF Handlers, HandlersOK, Jobs
  <2>2. [Blank EXCEPT !.job = j, !.round = j.round] \in Contexts
    BY <2>1, NewContextType, PlayersAssumption DEF Players, Phases, Reasons
  <2>3. FirstStep(j) \in Labels
    BY DEF FirstStep, Labels
  <2>4. HandlersOK'
    BY <1>2, <2>1, <2>2, <2>3, <1>h, BeginType DEF PickJob
  <2>5. QED
    BY <1>2, <2>4 DEF PickJob, TypeOK, HandlersOK
<1>3. ASSUME NEW p \in Players, Reconnect(p) PROVE TypeOK'
  BY <1>3 DEF Reconnect, TypeOK
<1>4. CASE ExpireLock
  BY <1>4 DEF ExpireLock, TypeOK
<1>5. CASE ExpireAcks
  BY <1>5 DEF ExpireAcks, TypeOK
<1>6. ASSUME NEW S \in SUBSET Handlers, Crash(S) PROVE TypeOK'
  <2>1. pc' \in [Handlers -> Labels]
    BY <1>6, <1>h DEF Crash, HandlersOK, Labels
  <2>2. ctx' \in [Handlers -> Contexts]
    BY <1>6, <1>h, BlankType DEF Crash, HandlersOK
  <2>3. QED
    BY <1>6, <2>1, <2>2 DEF Crash, TypeOK
<1>7. QED
  BY <1>1, <1>2, <1>3, <1>4, <1>5, <1>6 DEF Next

-----------------------------------------------------------------------------
(* The steps that the invariant has nothing to fear from.                  *)

matchVars == <<phase, round, history, status, winner, ratings>>

\* Only w moves, to a step at which nothing is owed to the invariant.
Quiet(w) ==
    /\ UNCHANGED matchVars
    /\ \A v \in Handlers \ {w} : pc'[v] = pc[v] /\ ctx'[v] = ctx[v]
    /\ pc'[w] \notin {"persist", "commit", "finalize", "cleanup"}
    /\ pc'[w] \in {"ack", "roundReady", "quit"} => ctx'[w].player \in Players

LEMMA QuietGoto ==
  ASSUME TypeOK, NEW w \in Handlers, NEW label, Goto(w, label),
         UNCHANGED matchVars,
         \A v \in Handlers \ {w} : ctx'[v] = ctx[v],
         label \notin {"persist", "commit", "finalize", "cleanup", "ack",
                       "roundReady", "quit"}
  PROVE  Quiet(w)
  BY DEF Quiet, Goto, TypeOK

LEMMA QuietDone ==
  ASSUME TypeOK, NEW w \in Handlers, NEW new, Done(w, new), UNCHANGED matchVars
  PROVE  Quiet(w)
<1>1. \A v \in Handlers \ {w} : ctx'[v] = ctx[v]
  BY DEF Done, TypeOK
<1>2. QED
  BY <1>1, QuietGoto DEF Done

LEMMA QuietJoin ==
  ASSUME TypeOK, NEW w \in Handlers, NEW label, Join(w, label),
         UNCHANGED matchVars,
         label \notin {"persist", "commit", "finalize", "cleanup", "ack",
                       "roundReady", "quit"}
  PROVE  Quiet(w)
<1>1. \A v \in Handlers \ {w} : ctx'[v] = ctx[v]
  BY DEF Join, TypeOK
<1>2. QED
  BY <1>1, QuietGoto DEF Join

LEMMA QuietBegin ==
  ASSUME TypeOK, NEW w \in Handlers, NEW label, NEW c, Begin(w, label, c),
         UNCHANGED matchVars,
         label \notin {"persist", "commit", "finalize", "cleanup"},
         label \in {"ack", "roundReady", "quit"} => c.player \in Players
  PROVE  Quiet(w)
  BY DEF Quiet, Begin, Goto, TypeOK

\* Quiet steps keep the parts of the invariant.
LEMMA QuietKeeps ==
  ASSUME IInv, NEW w \in Handlers, Quiet(w)
  PROVE  SenderKnown' /\ Stopping' /\ Charging' /\ RatedOnce'
<1> USE DEF IInv, Quiet, matchVars
<1>1. SenderKnown'
  BY DEF SenderKnown
<1>2. Stopping'
  BY DEF Stopping, ClosersStopped, ClosedMatchIsStopped
<1>3. /\ Committing' \subseteq Committing
      /\ \A v \in Committing' : ctx'[v] = ctx[v]
  BY DEF Committing
<1>4. ChargesArePast'
  BY <1>3 DEF Charging, ChargesArePast, Past
<1>5. OneCharger'
  BY <1>3 DEF Charging, OneCharger
<1>6. DamageOnce' /\ round' >= 1 /\ RatedOnce'
  BY DEF Charging, DamageOnce, RatedOnce
<1>7. QED
  BY <1>1, <1>2, <1>4, <1>5, <1>6 DEF Charging

\* The steps of a handler that are not quiet: those that write the phase, the
\* round, the damage or the row of the match, or lead there.
Loud(w) ==
    \/ StartFlip(w) \/ ApplyFlip(w) \/ Persist(w) \/ Commit(w)
    \/ Finalize(w) \/ Advance(w) \/ Quit(w)

LEMMA QuietStep ==
  ASSUME TypeOK, NEW w \in Handlers, Step(w), ~Loud(w)
  PROVE  Quiet(w)
<1> USE DEF runtimeVars, redisVars, pgVars, worldVars, ghostVars, matchVars
<1>1. CASE ReadyCount(w)
  BY <1>1, QuietDone, QuietJoin DEF ReadyCount
<1>2. CASE StartRead(w)
  <2>1. CASE Done(w, {})
    BY <1>2, <2>1, QuietDone DEF StartRead
  <2>2. CASE ~Done(w, {})
    <3>1. \A v \in Handlers \ {w} : ctx'[v] = ctx[v]
      BY <1>2, <2>2 DEF StartRead, TypeOK
    <3>2. QED
      BY <1>2, <2>2, <3>1, QuietGoto DEF StartRead
  <2>3. QED
    BY <2>1, <2>2
<1>3. CASE CombatLock(w)
  BY <1>3, QuietDone, QuietGoto DEF CombatLock
<1>4. CASE CombatGuard(w)
  BY <1>4, QuietGoto DEF CombatGuard
<1>5. CASE CombatClear(w)
  <2>1. CASE Done(w, {})
    BY <1>5, <2>1, QuietDone DEF CombatClear
  <2>2. CASE ~Done(w, {})
    <3>1. \A v \in Handlers \ {w} : ctx'[v] = ctx[v]
      BY <1>5, <2>2 DEF CombatClear, TypeOK
    <3>2. QED
      BY <1>5, <2>2, <3>1, QuietGoto DEF CombatClear
  <2>3. QED
    BY <2>1, <2>2
<1>6. CASE CombatCheck(w)
  BY <1>6, QuietGoto DEF CombatCheck
<1>7. CASE AppendRound(w)
  BY <1>7, QuietGoto DEF AppendRound
<1>8. CASE WriteResult(w)
  BY <1>8, QuietGoto DEF WriteResult
<1>9. CASE SetCombatRound(w)
  BY <1>9, QuietGoto DEF SetCombatRound
<1>10. CASE ScheduleTimeout(w)
  BY <1>10, QuietGoto DEF ScheduleTimeout
<1>11. CASE Release(w)
  BY <1>11, QuietDone, QuietGoto DEF Release, ReleaseOwnedLock
<1>12. CASE Preview(w)
  BY <1>12, QuietDone DEF Preview
<1>13. CASE Ack(w)
  BY <1>13, QuietDone, QuietJoin DEF Ack
<1>14. CASE ApplyRead(w)
  <2>1. CASE Done(w, {})
    BY <1>14, <2>1, QuietDone DEF ApplyRead
  <2>2. CASE ~Done(w, {})
    <3>1. \A v \in Handlers \ {w} : ctx'[v] = ctx[v]
      BY <1>14, <2>2 DEF ApplyRead, TypeOK
    <3>2. QED
      BY <1>14, <2>2, <3>1, QuietGoto DEF ApplyRead
  <2>3. QED
    BY <2>1, <2>2
<1>15. CASE ApplyResult(w)
  <2>1. CASE Done(w, {})
    BY <1>15, <2>1, QuietDone DEF ApplyResult
  <2>2. CASE ~Done(w, {})
    <3>1. \A v \in Handlers \ {w} : ctx'[v] = ctx[v]
      BY <1>15, <2>2 DEF ApplyResult, TypeOK
    <3>2. QED
      BY <1>15, <2>2, <3>1, QuietGoto DEF ApplyResult
  <2>3. QED
    BY <2>1, <2>2
<1>16. CASE ScheduleCleanup(w)
  BY <1>16, QuietDone DEF ScheduleCleanup
<1>17. CASE RoundReadySet(w)
  BY <1>17, QuietGoto DEF RoundReadySet
<1>18. CASE RoundReadyCount(w)
  BY <1>18, QuietDone, QuietJoin DEF RoundReadyCount
<1>19. CASE AdvanceReset(w)
  BY <1>19, QuietGoto DEF AdvanceReset
<1>20. CASE AdvanceSchedule(w)
  BY <1>20, QuietDone DEF AdvanceSchedule
<1>21. QED
  BY <1>1, <1>2, <1>3, <1>4, <1>5, <1>6, <1>7, <1>8, <1>9, <1>10, <1>11, <1>12, <1>13, <1>14, <1>15, <1>16, <1>17, <1>18, <1>19, <1>20 DEF Step, Loud

\* A message or a job begins quietly; what else the world does moves no handler
\* except that a crash sends some back to "idle".
LEMMA QuietWorld ==
  ASSUME TypeOK, Next, ~\E w \in Handlers : Step(w)
  PROVE  \/ \E w \in Handlers : Quiet(w)
         \/ /\ UNCHANGED matchVars
            /\ \A v \in Handlers :
                  (pc'[v] = pc[v] /\ ctx'[v] = ctx[v]) \/ pc'[v] = "idle"
<1> USE DEF runtimeVars, redisVars, pgVars, worldVars, ghostVars, matchVars
<1>1. ASSUME NEW w \in WsHandlers, NEW p \in Players, Client(w, p)
      PROVE  \E v \in Handlers : Quiet(v)
  <2>w. w \in Handlers
    BY DEF Handlers
  <2> DEFINE msg == [Blank EXCEPT !.player = p, !.round = round]
             out(why) == [Blank EXCEPT !.player = p, !.round = round,
                                       !.expect = phase, !.reason = why]
  <2>c. msg.player = p /\ out("forfeit").player = p /\ out("disconnect").player = p
    BY DEF Blank
  <2>b. /\ CombatDone(w, p) => Begin(w, "ack", msg)
        /\ RoundReady(w, p) => Begin(w, "roundReady", msg)
        /\ Surrender(w, p)  => Begin(w, "quit", out("forfeit"))
        /\ Disconnect(w, p) => Begin(w, "quit", out("disconnect"))
    BY DEF CombatDone, RoundReady, Surrender, Disconnect
  <2> HIDE DEF msg, out
  <2>1. ASSUME NEW flag \in BOOLEAN, Ready(w, p, flag) PROVE Quiet(w)
    BY <2>1, <2>w, QuietBegin DEF Ready
  <2>2. CASE CombatDone(w, p)
    <3>1. UNCHANGED matchVars
      BY <2>2 DEF CombatDone
    <3>2. QED
      BY <2>2, <2>w, <2>b, <2>c, <3>1, QuietBegin
  <2>3. CASE RoundReady(w, p)
    <3>1. UNCHANGED matchVars
      BY <2>3 DEF RoundReady
    <3>2. QED
      BY <2>3, <2>w, <2>b, <2>c, <3>1, QuietBegin
  <2>4. CASE Surrender(w, p)
    <3>1. UNCHANGED matchVars
      BY <2>4 DEF Surrender
    <3>2. QED
      BY <2>4, <2>w, <2>b, <2>c, <3>1, QuietBegin
  <2>5. CASE Disconnect(w, p)
    <3>1. UNCHANGED matchVars
      BY <2>5 DEF Disconnect
    <3>2. QED
      BY <2>5, <2>w, <2>b, <2>c, <3>1, QuietBegin
  <2>6. QED
    BY <1>1, <2>w, <2>1, <2>2, <2>3, <2>4, <2>5 DEF Client
<1>2. ASSUME NEW w \in JobHandlers, NEW j \in jobs, PickJob(w, j)
      PROVE  \E v \in Handlers : Quiet(v)
  <2>1. w \in Handlers
    BY DEF Handlers
  <2>2. FirstStep(j) \in {"startRead", "applyRead", "advance"}
    BY DEF FirstStep
  <2>3. Quiet(w)
    BY <1>2, <2>1, <2>2, QuietBegin DEF PickJob
  <2>4. QED
    BY <2>1, <2>3
<1>3. ASSUME NEW p \in Players, Reconnect(p)
      PROVE  UNCHANGED matchVars /\ UNCHANGED <<pc, ctx>>
  BY <1>3 DEF Reconnect
<1>4. ASSUME ExpireLock \/ ExpireAcks
      PROVE  UNCHANGED matchVars /\ UNCHANGED <<pc, ctx>>
  BY <1>4 DEF ExpireLock, ExpireAcks
<1>5. ASSUME NEW S \in SUBSET Handlers, Crash(S)
      PROVE  /\ UNCHANGED matchVars
             /\ \A v \in Handlers :
                   (pc'[v] = pc[v] /\ ctx'[v] = ctx[v]) \/ pc'[v] = "idle"
  BY <1>5 DEF Crash
<1>6. QED
  BY <1>1, <1>2, <1>3, <1>4, <1>5 DEF Next

-----------------------------------------------------------------------------
(* The loud steps keep the invariant.  A step whose compare-and-set fails,  *)
(* or whose call to PostgreSQL throws, is quiet.                            *)

\* w moves to label, and no other handler moves.
Moves(w, label) ==
    /\ pc'[w] = label
    /\ \A v \in Handlers \ {w} : pc'[v] = pc[v] /\ ctx'[v] = ctx[v]

LEMMA StartFlipKeeps ==
  ASSUME IInv, NEW w \in Handlers, StartFlip(w), ~Quiet(w)
  PROVE  SenderKnown' /\ Stopping' /\ Charging' /\ RatedOnce'
<1>1. ASSUME Done(w, {}), UNCHANGED matchVars PROVE FALSE
  BY <1>1, QuietDone DEF IInv
<1>2. /\ phase = "shop_place" /\ phase' = "battle"
      /\ Moves(w, "combatLock")
      /\ UNCHANGED <<round, history, status, winner, ratings>>
  BY <1>1 DEF StartFlip, At, Goto, Moves, matchVars, IInv, TypeOK,
              pgVars
<1>3. Committing' \subseteq Committing /\ \A v \in Committing' : ctx'[v] = ctx[v]
  BY <1>2 DEF Committing, Moves
<1>4. SenderKnown'
  BY <1>2 DEF SenderKnown, Moves, IInv
<1>5. Stopping'
  BY <1>2 DEF Stopping, ClosersStopped, ClosedMatchIsStopped, Moves, IInv
<1>6. Charging'
  BY <1>2, <1>3 DEF Charging, ChargesArePast, OneCharger, DamageOnce, Past, IInv
<1>7. QED
  BY <1>2, <1>4, <1>5, <1>6 DEF RatedOnce, IInv

\* The one handler whose flip succeeds becomes the one to charge the round.
LEMMA ApplyFlipKeeps ==
  ASSUME IInv, NEW w \in Handlers, ApplyFlip(w), ~Quiet(w)
  PROVE  SenderKnown' /\ Stopping' /\ Charging' /\ RatedOnce'
<1>1. ASSUME Done(w, {}), UNCHANGED matchVars PROVE FALSE
  BY <1>1, QuietDone DEF IInv
<1>2. /\ phase = "battle" /\ round = ctx[w].round /\ phase' = "resolved"
      /\ Moves(w, "persist") /\ ctx' = ctx
      /\ UNCHANGED <<round, history, status, winner, ratings>>
  BY <1>1 DEF ApplyFlip, At, Goto, Moves, matchVars, IInv, TypeOK, pgVars, ghostVars
<1>3. /\ Committing' \subseteq Committing \union {w}
      /\ \A v \in Committing : ctx[v].round # round
      /\ \A j \in DOMAIN history : history[j].round # round
  BY <1>2 DEF Committing, Moves, IInv, Charging, ChargesArePast, Past
<1>4. SenderKnown'
  BY <1>2 DEF SenderKnown, Moves, IInv
<1>5. Stopping'
  BY <1>2 DEF Stopping, ClosersStopped, ClosedMatchIsStopped, Moves, IInv
<1>6. ChargesArePast'
  BY <1>2, <1>3 DEF Charging, ChargesArePast, Past, IInv, TypeOK
<1>7. OneCharger'
  BY <1>2, <1>3 DEF Charging, OneCharger, IInv
<1>8. QED
  BY <1>2, <1>4, <1>5, <1>6, <1>7 DEF Charging, DamageOnce, RatedOnce, IInv

LEMMA PersistKeeps ==
  ASSUME IInv, NEW w \in Handlers, Persist(w), ~Quiet(w)
  PROVE  SenderKnown' /\ Stopping' /\ Charging' /\ RatedOnce'
<1>1. ASSUME Done(w, {}), UNCHANGED matchVars PROVE FALSE
  BY <1>1, QuietDone DEF IInv
<1>2. /\ pc[w] = "persist" /\ Moves(w, "commit") /\ ctx' = ctx
      /\ UNCHANGED matchVars
  BY <1>1 DEF Persist, Throw, At, Goto, Moves, matchVars, IInv, TypeOK,
              runtimeVars, ghostVars
<1>3. Committing' = Committing
  BY <1>2 DEF Committing, Moves
<1>4. SenderKnown'
  BY <1>2 DEF SenderKnown, Moves, IInv
<1>5. Stopping'
  BY <1>2 DEF Stopping, ClosersStopped, ClosedMatchIsStopped, Moves, matchVars, IInv
<1>6. Charging'
  BY <1>2, <1>3 DEF Charging, ChargesArePast, OneCharger, DamageOnce, Past,
                    matchVars, IInv
<1>7. QED
  BY <1>2, <1>4, <1>5, <1>6 DEF RatedOnce, matchVars, IInv

LEMMA AdvanceKeeps ==
  ASSUME IInv, NEW w \in Handlers, Advance(w), ~Quiet(w)
  PROVE  SenderKnown' /\ Stopping' /\ Charging' /\ RatedOnce'
<1>1. ASSUME Done(w, {}), UNCHANGED matchVars PROVE FALSE
  BY <1>1, QuietDone DEF IInv
<1>2. /\ phase = "resolved" /\ phase' = "shop_place" /\ round' = round + 1
      /\ Moves(w, "advanceReset")
      /\ UNCHANGED <<history, status, winner, ratings>>
  BY <1>1 DEF Advance, At, Goto, Moves, matchVars, IInv, TypeOK, pgVars, ghostVars
<1>3. Committing' \subseteq Committing /\ \A v \in Committing' : ctx'[v] = ctx[v]
  BY <1>2 DEF Committing, Moves
<1>4. SenderKnown'
  BY <1>2 DEF SenderKnown, Moves, IInv
<1>5. Stopping'
  BY <1>2 DEF Stopping, ClosersStopped, ClosedMatchIsStopped, Moves, IInv
<1>6. \A r : Past(r) => Past(r)'
  BY <1>2 DEF Past, IInv, TypeOK
<1>7. ChargesArePast'
  BY <1>2, <1>3, <1>6 DEF Charging, ChargesArePast, IInv
<1>8. OneCharger' /\ DamageOnce'
  BY <1>2, <1>3 DEF Charging, OneCharger, DamageOnce, IInv
<1>10. round' >= 1
  BY <1>2 DEF Charging, IInv, TypeOK
<1>9. QED
  BY <1>2, <1>4, <1>5, <1>7, <1>8, <1>10 DEF Charging, RatedOnce, IInv

LEMMA QuitKeeps ==
  ASSUME IInv, NEW w \in Handlers, Quit(w), ~Quiet(w)
  PROVE  SenderKnown' /\ Stopping' /\ Charging' /\ RatedOnce'
<1>1. ASSUME Done(w, {}), UNCHANGED matchVars PROVE FALSE
  BY <1>1, QuietDone DEF IInv
<1>2. /\ phase' = "finished" /\ Moves(w, "finalize")
      /\ UNCHANGED <<round, history, status, winner, ratings>>
  BY <1>1 DEF Quit, At, Goto, Moves, matchVars, IInv, TypeOK,
              pgVars, ghostVars
<1>3. Committing' \subseteq Committing /\ \A v \in Committing' : ctx'[v] = ctx[v]
  BY <1>2 DEF Committing, Moves
<1>4. SenderKnown'
  BY <1>2 DEF SenderKnown, Moves, IInv
<1>5. Stopping'
  BY <1>2 DEF Stopping, ClosersStopped, ClosedMatchIsStopped
<1>6. Charging'
  BY <1>2, <1>3 DEF Charging, ChargesArePast, OneCharger, DamageOnce, Past, IInv
<1>7. QED
  BY <1>2, <1>4, <1>5, <1>6 DEF RatedOnce, IInv

\* Whoever closes the row has stopped the match, and finds it open.
LEMMA FinalizeKeeps ==
  ASSUME IInv, NEW w \in Handlers, Finalize(w), ~Quiet(w)
  PROVE  SenderKnown' /\ Stopping' /\ Charging' /\ RatedOnce'
<1>1. ASSUME Done(w, {}), UNCHANGED matchVars PROVE FALSE
  BY <1>1, QuietDone DEF IInv
<1>2. /\ pc[w] = "finalize" /\ Moves(w, "cleanup")
      /\ UNCHANGED <<phase, round, history>>
      /\ \/ /\ status = "in_progress"
            /\ ratings' = IF winner' = None THEN ratings ELSE ratings + 1
            /\ status' # "in_progress"
         \/ UNCHANGED <<status, winner, ratings>>
  BY <1>1 DEF Finalize, CloseRow, Throw, Goto, Moves, matchVars, IInv, TypeOK, runtimeVars,
              ghostVars
<1>3. Committing' \subseteq Committing /\ \A v \in Committing' : ctx'[v] = ctx[v]
  BY <1>2 DEF Committing, Moves
<1>4. SenderKnown'
  BY <1>2 DEF SenderKnown, Moves, IInv
<1>5. Stopping'
  BY <1>2 DEF Stopping, ClosersStopped, ClosedMatchIsStopped, Moves, IInv
<1>6. Charging'
  BY <1>2, <1>3 DEF Charging, ChargesArePast, OneCharger, DamageOnce, Past, IInv
<1>7. RatedOnce'
  BY <1>2 DEF RatedOnce, IInv
<1>8. QED
  BY <1>4, <1>5, <1>6, <1>7

\* The round of the handler that commits was charged by nobody else.
LEMMA CommitKeeps ==
  ASSUME IInv, NEW w \in Handlers, Commit(w)
  PROVE  SenderKnown' /\ Stopping' /\ Charging' /\ RatedOnce'
<1> DEFINE e == [round |-> ctx[w].round, from |-> ctx[w].from, won |-> ctx[w].won]
<1>1. /\ w \in Committing /\ history' = Append(history, e)
      /\ phase' \in {phase, "finished"}
      /\ pc'[w] = "finalize" => phase' = "finished"
      /\ pc'[w] \in {"finalize", "idle"}
      /\ \A v \in Handlers \ {w} : pc'[v] = pc[v] /\ ctx'[v] = ctx[v]
      /\ UNCHANGED <<round, status, winner, ratings>>
  BY DEF Commit, Charge, Committing, Goto, Done, IInv, TypeOK, pgVars
<1>2. /\ DOMAIN history' = DOMAIN history \union {Len(history) + 1}
      /\ Len(history) + 1 \notin DOMAIN history
      /\ \A j \in DOMAIN history : history'[j] = history[j]
      /\ history'[Len(history) + 1].round = ctx[w].round
  BY <1>1 DEF IInv, TypeOK
<1>3. /\ Committing' = Committing \ {w}
      /\ \A v \in Committing' : ctx'[v] = ctx[v]
  BY <1>1 DEF Committing
<1> HIDE DEF e
<1>4. SenderKnown'
  BY <1>1 DEF SenderKnown, IInv
<1>5. Stopping'
  BY <1>1 DEF Stopping, ClosersStopped, ClosedMatchIsStopped, IInv
<1>6. \A r : Past(r) => Past(r)'
  BY <1>1 DEF Past
<1>7. ChargesArePast'
  BY <1>1, <1>2, <1>3, <1>6 DEF Charging, ChargesArePast, IInv
<1>8. OneCharger' /\ DamageOnce'
  BY <1>1, <1>2, <1>3 DEF Charging, OneCharger, DamageOnce, IInv
<1>9. QED
  BY <1>1, <1>4, <1>5, <1>7, <1>8 DEF Charging, RatedOnce, IInv

-----------------------------------------------------------------------------
(* The theorems.                                                           *)

LEMMA InitInv == Init => IInv
<1> SUFFICES ASSUME Init PROVE IInv
  OBVIOUS
<1>1. TypeOK
  BY InitType
<1>2. SenderKnown /\ Stopping
  BY DEF Init, SenderKnown, Stopping, ClosersStopped, ClosedMatchIsStopped
<1>3. DOMAIN history = {} /\ Committing = {} /\ round = 1
  BY DEF Init, Committing
<1>4. Charging
  BY <1>3 DEF Charging, ChargesArePast, OneCharger, DamageOnce
<1>5. RatedOnce
  BY DEF Init, RatedOnce
<1>6. QED
  BY <1>1, <1>2, <1>4, <1>5 DEF IInv

LEMMA LoudKeeps ==
  ASSUME IInv, NEW w \in Handlers, Loud(w)
  PROVE  SenderKnown' /\ Stopping' /\ Charging' /\ RatedOnce'
<1>1. CASE Quiet(w)
  BY <1>1, QuietKeeps
<1>2. CASE ~Quiet(w)
  BY <1>2, StartFlipKeeps, ApplyFlipKeeps, PersistKeeps, CommitKeeps,
     FinalizeKeeps, AdvanceKeeps, QuitKeeps DEF Loud
<1>3. QED
  BY <1>1, <1>2

\* When no handler moves except to "idle" the invariant is kept.
LEMMA IdleKeeps ==
  ASSUME IInv, UNCHANGED matchVars,
         \A v \in Handlers : (pc'[v] = pc[v] /\ ctx'[v] = ctx[v]) \/ pc'[v] = "idle"
  PROVE  SenderKnown' /\ Stopping' /\ Charging' /\ RatedOnce'
<1> USE DEF IInv, matchVars
<1>1. Committing' \subseteq Committing /\ \A v \in Committing' : ctx'[v] = ctx[v]
  BY DEF Committing
<1>2. SenderKnown' /\ Stopping'
  BY DEF SenderKnown, Stopping, ClosersStopped, ClosedMatchIsStopped
<1>3. Charging'
  BY <1>1 DEF Charging, ChargesArePast, OneCharger, DamageOnce, Past
<1>4. QED
  BY <1>2, <1>3 DEF RatedOnce

LEMMA NextKeeps == IInv /\ [Next]_vars => IInv'
<1> SUFFICES ASSUME IInv, [Next]_vars PROVE IInv'
  OBVIOUS
<1>t. TypeOK /\ SenderKnown
  BY DEF IInv
<1>1. ASSUME NEW w \in Handlers, Step(w) PROVE IInv'
  <2>1. TypeOK'
    BY <1>1, <1>t, StepType
  <2>2. SenderKnown' /\ Stopping' /\ Charging' /\ RatedOnce'
    BY <1>1, <1>t, QuietStep, QuietKeeps, LoudKeeps
  <2>3. QED
    BY <2>1, <2>2 DEF IInv
<1>2. ASSUME Next, ~\E w \in Handlers : Step(w) PROVE IInv'
  <2>1. TypeOK'
    BY <1>2, <1>t, WorldType
  <2>2. SenderKnown' /\ Stopping' /\ Charging' /\ RatedOnce'
    BY <1>2, <1>t, QuietWorld, QuietKeeps, IdleKeeps
  <2>3. QED
    BY <2>1, <2>2 DEF IInv
<1>3. CASE UNCHANGED vars
  <2> USE <1>3 DEF vars, runtimeVars, redisVars, pgVars, worldVars, ghostVars
  <2>1. TypeOK'
    BY <1>t DEF TypeOK
  <2>2. SenderKnown' /\ Stopping' /\ Charging' /\ RatedOnce'
    BY IdleKeeps DEF matchVars
  <2>3. QED
    BY <2>1, <2>2 DEF IInv
<1>4. QED
  BY <1>1, <1>2, <1>3

\* The inductive invariant holds in every behaviour, whatever the number of
\* handlers, crashes and failing calls.
THEOREM Invariance == Spec => []IInv
  BY InitInv, NextKeeps, PTL DEF Spec

\* Every variable keeps its type: hit points never go below zero and the wipe
\* index never above five.
THEOREM TypeCorrect == Spec => []TypeOK
<1>1. IInv => TypeOK
  BY DEF IInv
<1>2. QED
  BY <1>1, Invariance, PTL

\* No round is charged twice, however many acknowledgements and timeouts run
\* applyDamageAndAdvance for it.
THEOREM ChargedOnce == Spec => []DamageOnce
<1>1. IInv => DamageOnce
  BY DEF IInv, Charging
<1>2. QED
  BY <1>1, Invariance, PTL

\* A row that is closed in PostgreSQL belongs to a match stopped in Redis.
THEOREM ClosedIsStopped == Spec => []ClosedMatchIsStopped
<1>1. IInv => ClosedMatchIsStopped
  BY DEF IInv, Stopping
<1>2. QED
  BY <1>1, Invariance, PTL

\* Ratings move exactly once for a match with a winner and never for a draw.
THEOREM RatingsMoveOnce == Spec => []RatedOnce
<1>1. IInv => RatedOnce
  BY DEF IInv
<1>2. QED
  BY <1>1, Invariance, PTL

-----------------------------------------------------------------------------
(* The orchestrator implements MatchLifecycle.                             *)

ChargedRounds == {history[i].round : i \in DOMAIN history}
Verdict == IF status = "in_progress" THEN <<>> ELSE <<winner>>

\* What each kind of step does to the life of the match.
LEMMA LoudImplements ==
  ASSUME IInv, NEW w \in Handlers, Loud(w), ~Quiet(w)
  PROVE  /\ \/ Lifecycle!Next
            \/ UNCHANGED <<phase, round, ChargedRounds, Verdict>>
         /\ phase = "finished" => phase' = "finished"
         /\ status # "in_progress" => UNCHANGED <<status, winner, ratings>>
<1>d. ASSUME Done(w, {}), UNCHANGED matchVars PROVE FALSE
  BY <1>d, QuietDone DEF IInv
<1> USE DEF matchVars, pgVars, ghostVars, runtimeVars
<1>1. CASE StartFlip(w)
  <2>1. /\ phase = "shop_place" /\ phase' = "battle"
        /\ UNCHANGED <<round, history, status, winner, ratings>>
    BY <1>1, <1>d DEF StartFlip, At
  <2>2. Lifecycle!Fight
    BY <2>1 DEF Lifecycle!Fight
  <2>3. QED
    BY <2>1, <2>2 DEF Lifecycle!Next
<1>2. CASE ApplyFlip(w)
  <2>1. /\ phase = "battle" /\ phase' = "resolved"
        /\ UNCHANGED <<round, history, status, winner, ratings>>
    BY <1>2, <1>d DEF ApplyFlip, At
  <2>2. Lifecycle!Score
    BY <2>1 DEF Lifecycle!Score
  <2>3. QED
    BY <2>1, <2>2 DEF Lifecycle!Next
<1>3. CASE Persist(w)
  BY <1>3 DEF Persist, Throw, ChargedRounds, Verdict
<1>4. CASE Advance(w)
  <2>1. /\ phase = "resolved" /\ phase' = "shop_place" /\ round' = round + 1
        /\ UNCHANGED <<history, status, winner, ratings>>
    BY <1>4, <1>d DEF Advance, At
  <2>2. Lifecycle!NextTurn
    BY <2>1 DEF Lifecycle!NextTurn
  <2>3. QED
    BY <2>1, <2>2 DEF Lifecycle!Next
<1>5. CASE Quit(w)
  <2>1. /\ phase' = "finished"
        /\ UNCHANGED <<round, history, status, winner, ratings>>
    BY <1>5, <1>d DEF Quit
  <2>2. Lifecycle!Stop \/ UNCHANGED <<phase, round, ChargedRounds, Verdict>>
    BY <2>1 DEF Lifecycle!Stop, ChargedRounds, Verdict
  <2>3. QED
    BY <2>1, <2>2 DEF Lifecycle!Next
<1>6. CASE Finalize(w)
  <2>1. phase = "finished"
    BY <1>6 DEF Finalize, CloseRow, IInv, Stopping, ClosersStopped
  <2>2. /\ UNCHANGED <<phase, round, history>>
        /\ \/ status = "in_progress" /\ status' # "in_progress" /\ winner' \in Outcomes
           \/ UNCHANGED <<status, winner, ratings>>
    <3>1. MatchWinner(ctx[w].hp) \in Outcomes /\ Opponent(ctx[w].player) \in Outcomes
      BY DEF MatchWinner, Opponent, Outcomes, Players
    <3>2. QED
      BY <1>6, <3>1 DEF Finalize, CloseRow, Throw
  <2>3. CASE status = "in_progress" /\ status' # "in_progress" /\ winner' \in Outcomes
    <3>1. Lifecycle!Close
      BY <2>1, <2>2, <2>3 DEF Lifecycle!Close
    <3>2. QED
      BY <2>1, <2>2, <2>3, <3>1 DEF Lifecycle!Next
  <2>4. CASE UNCHANGED <<status, winner, ratings>>
    BY <2>2, <2>4 DEF ChargedRounds, Verdict
  <2>5. QED
    BY <2>2, <2>3, <2>4
<1>7. CASE Commit(w)
  <2> DEFINE e == [round |-> ctx[w].round, from |-> ctx[w].from, won |-> ctx[w].won]
  <2>r. PICK r : r = ctx[w].round
    OBVIOUS
  <2>1. /\ w \in Committing /\ history' = Append(history, e)
        /\ phase' \in {phase, "finished"}
        /\ UNCHANGED <<round, status, winner, ratings>>
    BY <1>7 DEF Commit, Charge, Committing
  <2>2. /\ DOMAIN history' = DOMAIN history \union {Len(history) + 1}
        /\ Len(history) + 1 \notin DOMAIN history
        /\ \A j \in DOMAIN history : history'[j] = history[j]
        /\ history'[Len(history) + 1].round = r
    BY <2>1, <2>r DEF IInv, TypeOK
  <2>3. ChargedRounds' = ChargedRounds \union {r}
    BY <2>2 DEF ChargedRounds
  <2>4. Past(r) /\ r \notin ChargedRounds
    BY <2>1, <2>r DEF IInv, Charging, ChargesArePast, OneCharger, ChargedRounds, Past
  <2>5. r \in 1..round /\ Lifecycle!Fought(r)
    BY <2>4 DEF Past, Lifecycle!Fought, IInv, TypeOK
  <2>6. Lifecycle!Charge(r)
    BY <2>1, <2>3, <2>4, <2>5 DEF Lifecycle!Charge, ChargedRounds
  <2>7. Lifecycle!Next
    BY <2>5, <2>6 DEF Lifecycle!Next
  <2>8. QED
    BY <2>1, <2>7
<1>8. QED
  BY <1>1, <1>2, <1>3, <1>4, <1>5, <1>6, <1>7 DEF Loud

LEMMA NextImplements ==
  ASSUME IInv, [Next]_vars
  PROVE  /\ \/ Lifecycle!Next
            \/ UNCHANGED <<phase, round, ChargedRounds, Verdict>>
         /\ phase = "finished" => phase' = "finished"
         /\ status # "in_progress" => UNCHANGED <<status, winner, ratings>>
<1>t. TypeOK
  BY DEF IInv
<1>1. ASSUME UNCHANGED matchVars
      PROVE  /\ UNCHANGED <<phase, round, ChargedRounds, Verdict>>
             /\ UNCHANGED <<phase, status, winner, ratings>>
  BY <1>1 DEF matchVars, ChargedRounds, Verdict
<1>2. ASSUME NEW w \in Handlers, Quiet(w) PROVE UNCHANGED matchVars
  BY <1>2 DEF Quiet
<1>3. CASE UNCHANGED vars
  BY <1>1, <1>3 DEF vars, runtimeVars, pgVars, ghostVars, matchVars
<1>4. ASSUME NEW w \in Handlers, Step(w), ~UNCHANGED matchVars
      PROVE  Loud(w) /\ ~Quiet(w)
  BY <1>4, <1>2, <1>t, QuietStep
<1>5. ASSUME Next, ~\E w \in Handlers : Step(w) PROVE UNCHANGED matchVars
  BY <1>5, <1>2, <1>t, QuietWorld
<1>6. QED
  BY <1>1, <1>3, <1>4, <1>5, LoudImplements

\* Nothing reopens a finished match or changes the outcome of a closed one.
THEOREM ClosedForGood == Spec => ClosedStaysClosed
<1>1. IInv /\ [Next]_vars =>
        [/\ phase = "finished" => phase' = "finished"
         /\ status # "in_progress" => UNCHANGED <<status, winner, ratings>>]_vars
  BY NextImplements
<1>2. QED
  BY <1>1, Invariance, PTL DEF Spec, ClosedStaysClosed

\* Every behaviour of the replicas, with their crashes, failures and races, is
\* a life of a match: planned and fought round by round, each round charged at
\* most once and after it was fought, one verdict and only after the end.
THEOREM Implementation == Spec => ImplementsLifecycle
<1>1. Init => Lifecycle!Init
  BY DEF Init, Lifecycle!Init
<1>2. IInv /\ [Next]_vars => [Lifecycle!Next]_(Lifecycle!lifeVars)
  BY NextImplements DEF Lifecycle!lifeVars, ChargedRounds, Verdict
<1>3. QED
  BY <1>1, <1>2, Invariance, PTL DEF Spec, ImplementsLifecycle, Lifecycle!Spec
=============================================================================
