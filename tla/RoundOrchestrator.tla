------------------------- MODULE RoundOrchestrator -------------------------
(***************************************************************************)
(* The round orchestrator of one match: match.runtime.adapter.ts,          *)
(* combat.coordinator.ts, the round processors of queue.processors.ts and  *)
(* MatchService.finalize.  Several replicas run handlers for the same      *)
(* match at once; what they share is the Redis hash match:<id>:runtime, a  *)
(* few Redis keys, the BullMQ queues and the row of the match in           *)
(* PostgreSQL.  A handler is a sequence of steps, one for each await that  *)
(* reads or writes shared state; between two steps every other handler may *)
(* run, the process may crash and a call to PostgreSQL may fail.           *)
(*                                                                         *)
(* Rosters, gold and the shop are not here: in this module the two fields  *)
(* p1State and p2State of the hash are their "hp" only.                    *)
(***************************************************************************)
EXTENDS Naturals, Sequences, FiniteSets

CONSTANTS
    P1, P2,        \* the two players of the match
    None,          \* nobody: no lock owner, no winner (the code's null)
    WsHandlers,    \* WebSocket messages that can be in progress at once
    JobHandlers,   \* BullMQ jobs that can be in progress at once
    Wins,          \* bound: the outcomes a battle may have
    InitialHp,     \* hit points a player starts with (100 in the code)
    MaxRound,      \* bound: no round after this one is started
    MaxCrashes,    \* bound: how many times running handlers are killed
    MaxFaults,     \* bound: how many PostgreSQL calls fail
    Eager,         \* players whose client acts on a phase before it is told
    Flaky          \* players whose socket may drop

Players  == {P1, P2}
Handlers == WsHandlers \union JobHandlers
Outcomes == Players \union {None}
Phases   == {"shop_place", "battle", "resolved", "finished"}

ASSUME PlayersAssumption == P1 # P2 /\ None \notin Players
ASSUME HandlersAssumption ==
    None \notin Handlers /\ WsHandlers \intersect JobHandlers = {}
ASSUME BoundsAssumption ==
    /\ Wins \subseteq Outcomes
    /\ InitialHp \in Nat \ {0}
    /\ MaxRound \in Nat /\ MaxCrashes \in Nat /\ MaxFaults \in Nat
    /\ Eager \subseteq Players /\ Flaky \subseteq Players

VARIABLES
    \* the hash match:<id>:runtime
    phase, round,
    ready,         \* the players whose flag readyP1/readyP2 is '1'
    combatRound,   \* 0 stands for ''
    hp, wipe,
    \* other Redis keys of the match
    combatLock,    \* combat-lock:<id>, its owner
    acks,          \* match:<id>:combat-done, the players in it
    result,        \* match:<id>:combat-result
    \* BullMQ: jobs that are delayed, waiting or being processed
    jobs,
    \* PostgreSQL
    status, winner,
    snapshot,      \* hp in matches.p1State and p2State
    savedRounds,   \* rows of match_rounds
    ratings,       \* how many times the players' ratings were moved
    \* the handlers, and what the players and the network do
    pc, ctx,
    online,        \* players with an open socket
    announced,     \* the phase and round in the hash have been published
    crashes, faults,
    \* history, read by no handler
    pressed,       \* who sent match:ready in this planning phase
    history,       \* the rounds whose damage was committed, in that order
    preview        \* the damage preview published last

runtimeVars == <<phase, round, ready, combatRound, hp, wipe>>
redisVars   == <<combatLock, acks, result>>
pgVars      == <<status, winner, snapshot, savedRounds, ratings>>
worldVars   == <<online, announced, crashes, faults>>
ghostVars   == <<pressed, history, preview>>
vars == <<runtimeVars, redisVars, jobs, pgVars, pc, ctx, worldVars, ghostVars>>

-----------------------------------------------------------------------------
(* Data.                                                                   *)

JobTypes == {"phase_start", "combat_done_timeout", "round_ready_timeout",
             "match_cleanup", "none"}
Jobs     == [type: JobTypes, round: Nat]
Job(t, r)  == [type |-> t, round |-> r]
NoJob      == Job("none", 0)
CleanupJob == Job("match_cleanup", 0)

NoResult == [round |-> 0, won |-> None]

Reasons == {"hp_zero", "forfeit", "disconnect"}

Labels == {"idle", "readyCount", "startRead", "startFlip", "combatLock",
           "combatGuard", "combatClear", "combatCheck", "append",
           "writeResult", "setCombatRound", "scheduleTimeout", "release",
           "abandon", "preview", "ack", "applyRead", "applyResult",
           "applyFlip", "persist", "commit", "finalize", "cleanup",
           "roundReady", "roundReadyCount", "advance", "advanceReset",
           "advanceSchedule", "quit"}

(* The local variables of a handler.  "from" is the round whose combat the *)
(* result was computed from: the key of the result does not tell, and no   *)
(* handler reads it.                                                       *)
Contexts ==
    [job: Jobs, player: Outcomes, round: Nat, expect: Phases,
     hp: [Players -> Nat], wipe: [Players -> 0..5],
     won: Outcomes, from: Nat, reason: Reasons]

Blank ==
    [job |-> NoJob, player |-> None, round |-> 0, expect |-> "shop_place",
     hp |-> [p \in Players |-> 0], wipe |-> [p \in Players |-> 0],
     won |-> None, from |-> 0, reason |-> "hp_zero"]

Opponent(p) == IF p = P1 THEN P2 ELSE P1

TieDamage == 5
MaxWipe   == 5

WipeAfter(won, idx) ==
    [p \in Players |-> IF won # Opponent(p) THEN idx[p]
                       ELSE IF idx[p] < MaxWipe THEN idx[p] + 1 ELSE MaxWipe]

Damage(won, idx) ==
    [p \in Players |-> CASE won = None        -> TieDamage
                         [] won = Opponent(p) -> 5 * WipeAfter(won, idx)[p]
                         [] OTHER             -> 0]

\* A slip: the loser is charged for the index before this loss.
HpAfterOldIndex(won, h, idx) ==
    [p \in Players |-> LET d == IF won = Opponent(p) THEN 5 * idx[p]
                                ELSE Damage(won, idx)[p]
                       IN  IF h[p] > d THEN h[p] - d ELSE 0]

\* A slip: hit points are not stopped at zero.
HpAfterUnclamped(won, h, idx) ==
    [p \in Players |-> h[p] - Damage(won, idx)[p]]

HpAfter(won, h, idx) ==
    [p \in Players |-> LET d == Damage(won, idx)[p]
                       IN  IF h[p] > d THEN h[p] - d ELSE 0]

Over(h) == \E p \in Players : h[p] = 0

\* A slip: the survivor is looked up before the draw is considered.
MatchWinnerNoDraw(h) == IF h[P1] = 0 THEN P2 ELSE P1

MatchWinner(h) ==
    IF h[P1] = 0 /\ h[P2] = 0 THEN None ELSE IF h[P1] = 0 THEN P2 ELSE P1

-----------------------------------------------------------------------------
Init ==
    /\ phase = "shop_place" /\ round = 1
    /\ ready = {} /\ combatRound = 0
    /\ hp = [p \in Players |-> InitialHp]
    /\ wipe = [p \in Players |-> 0]
    /\ combatLock = None /\ acks = {} /\ result = NoResult
    /\ jobs = {Job("phase_start", 1)}
    /\ status = "in_progress" /\ winner = None
    /\ snapshot = [p \in Players |-> InitialHp]
    /\ savedRounds = {} /\ ratings = 0
    /\ pc = [w \in Handlers |-> "idle"]
    /\ ctx = [w \in Handlers |-> Blank]
    /\ online = Players /\ announced = TRUE
    /\ crashes = 0 /\ faults = 0
    /\ pressed = {} /\ history = <<>>
    /\ preview = [round |-> 0, hp |-> [p \in Players |-> 0]]

(* How a handler moves on.                                                 *)
Goto(w, label) == pc' = [pc EXCEPT ![w] = label]

Begin(w, label, c) ==
    /\ pc[w] = "idle"
    /\ Goto(w, label)
    /\ ctx' = [ctx EXCEPT ![w] = c]

\* ... and forgets whose message it was: the steps that follow do not ask.
Join(w, label) ==
    /\ Goto(w, label)
    /\ ctx' = [ctx EXCEPT ![w].player = None]
    /\ UNCHANGED jobs

\* The handler returns; a job that returns leaves its queue.
Done(w, new) ==
    /\ Goto(w, "idle")
    /\ ctx' = [ctx EXCEPT ![w] = Blank]
    /\ jobs' = (jobs \ {ctx[w].job}) \union new

\* A call to PostgreSQL fails and the handler throws: nothing retries it.
Throw(w) ==
    /\ faults < MaxFaults /\ faults' = faults + 1
    /\ Done(w, {})

\* What phase_flip.lua compares.
At(ph, r) == phase = ph /\ round = r

\* What a published game:match:phase event of (ph, r) tells the clients.
Announce(ph, r) == announced' = (announced \/ At(ph, r))

\* A message of p that the current phase and round accept.
Message(w, p, ph) ==
    /\ w \in WsHandlers
    /\ phase = ph
    /\ p \in online /\ (announced \/ p \in Eager)

-----------------------------------------------------------------------------
(* match:ready.  The write is one run of action_log.lua, which checks the  *)
(* phase and the round again; the flags are counted by a later read.       *)
Ready(w, p, flag) ==
    /\ Message(w, p, "shop_place")
    /\ Begin(w, "readyCount", [Blank EXCEPT !.player = p, !.round = round])
    /\ ready' = IF flag THEN ready \union {p} ELSE ready \ {p}
    /\ pressed' = IF flag THEN pressed \union {p} ELSE pressed
    /\ UNCHANGED <<phase, round, combatRound, hp, wipe, redisVars, jobs, pgVars,
                   worldVars, history, preview>>

ReadyCount(w) ==
    /\ pc[w] = "readyCount"
    /\ \/ /\ ready = Players
          /\ Join(w, "startRead")
       \/ /\ ready # Players
          /\ Done(w, {})
    /\ UNCHANGED <<runtimeVars, redisVars, pgVars, worldVars, ghostVars>>

(* tryStartCombat: the snapshot read first feeds the damage preview.       *)
StartRead(w) ==
    /\ pc[w] = "startRead"
    /\ \/ /\ At("shop_place", ctx[w].round)
          /\ ctx' = [ctx EXCEPT ![w].hp = hp, ![w].wipe = wipe]
          /\ Goto(w, "startFlip")
          /\ UNCHANGED jobs
       \/ /\ ~At("shop_place", ctx[w].round)
          /\ Done(w, {})
    /\ UNCHANGED <<runtimeVars, redisVars, pgVars, worldVars, ghostVars>>

\* A slip: the phase is set without the CAS.
StartFlipNoCas(w) ==
    /\ pc[w] = "startFlip"
    /\ phase' = "battle" /\ announced' = FALSE /\ pressed' = {}
    /\ Goto(w, "combatLock")
    /\ UNCHANGED <<ctx, jobs, round, ready, combatRound, hp, wipe, redisVars,
                   pgVars, online, crashes, faults, history, preview>>

StartFlip(w) ==
    /\ pc[w] = "startFlip"
    /\ \/ /\ At("shop_place", ctx[w].round)
          /\ phase' = "battle" /\ announced' = FALSE /\ pressed' = {}
          /\ Goto(w, "combatLock")
          /\ UNCHANGED <<ctx, jobs>>
       \/ /\ ~At("shop_place", ctx[w].round)
          /\ Done(w, {})
          /\ UNCHANGED <<phase, announced, pressed>>
    /\ UNCHANGED <<round, ready, combatRound, hp, wipe, redisVars, pgVars,
                   online, crashes, faults, history, preview>>

(* The battle phase is published; then runCombat begins with SET NX EX.    *)
CombatLock(w) ==
    /\ pc[w] = "combatLock"
    /\ Announce("battle", ctx[w].round)
    /\ \/ /\ combatLock = None
          /\ combatLock' = w
          /\ Goto(w, "combatGuard")
          /\ UNCHANGED <<ctx, jobs>>
       \/ /\ combatLock # None
          /\ Done(w, {})
          /\ UNCHANGED combatLock
    /\ UNCHANGED <<runtimeVars, acks, result, pgVars, online, crashes, faults,
                   ghostVars>>

CombatGuard(w) ==
    /\ pc[w] = "combatGuard"
    /\ IF At("battle", ctx[w].round) /\ combatRound # ctx[w].round
       THEN Goto(w, "combatClear") ELSE Goto(w, "abandon")
    /\ UNCHANGED <<runtimeVars, redisVars, jobs, pgVars, ctx, worldVars, ghostVars>>

(* The acks and the result of the round before are deleted, then the       *)
(* engine decides the battle: its outcome is free here.                    *)
CombatClear(w) ==
    /\ pc[w] = "combatClear"
    /\ acks' = {} /\ result' = NoResult
    /\ \E won \in Wins : ctx' = [ctx EXCEPT ![w].won = won]
    /\ Goto(w, "combatCheck")
    /\ UNCHANGED <<runtimeVars, combatLock, jobs, pgVars, worldVars, ghostVars>>

CombatCheck(w) ==
    /\ pc[w] = "combatCheck"
    /\ IF At("battle", ctx[w].round) THEN Goto(w, "append") ELSE Goto(w, "abandon")
    /\ UNCHANGED <<runtimeVars, redisVars, jobs, pgVars, ctx, worldVars, ghostVars>>

(* appendRoundEvents is awaited before the result is written: when it      *)
(* throws, the lock is released and nothing else happens.                  *)
AppendRound(w) ==
    /\ pc[w] = "append"
    /\ \/ /\ savedRounds' = savedRounds \union {ctx[w].round}
          /\ Goto(w, "writeResult")
          /\ UNCHANGED faults
       \/ /\ faults < MaxFaults /\ faults' = faults + 1
          /\ Goto(w, "abandon")
          /\ UNCHANGED savedRounds
    /\ UNCHANGED <<runtimeVars, redisVars, jobs, ctx, status, winner, snapshot,
                   ratings, online, announced, crashes, ghostVars>>

WriteResult(w) ==
    /\ pc[w] = "writeResult"
    /\ result' = [round |-> ctx[w].round, won |-> ctx[w].won]
    /\ Goto(w, "setCombatRound")
    /\ UNCHANGED <<runtimeVars, combatLock, acks, jobs, pgVars, ctx, worldVars,
                   ghostVars>>

SetCombatRound(w) ==
    /\ pc[w] = "setCombatRound"
    /\ combatRound' = ctx[w].round
    /\ Goto(w, "scheduleTimeout")
    /\ UNCHANGED <<phase, round, ready, hp, wipe, redisVars, jobs, pgVars, ctx,
                   worldVars, ghostVars>>

\* A slip: the second acknowledgement is left to end the battle.
ScheduleTimeoutNone(w) ==
    /\ pc[w] = "scheduleTimeout"
    /\ Goto(w, "release")
    /\ UNCHANGED <<runtimeVars, redisVars, jobs, pgVars, ctx, worldVars, ghostVars>>

ScheduleTimeout(w) ==
    /\ pc[w] = "scheduleTimeout"
    /\ jobs' = jobs \union {Job("combat_done_timeout", ctx[w].round)}
    /\ Goto(w, "release")
    /\ UNCHANGED <<runtimeVars, redisVars, pgVars, ctx, worldVars, ghostVars>>

\* A slip: the lock is left to its TTL.
ReleaseOwnedLockNever(w) == combatLock' = combatLock

\* Compare and delete.
ReleaseOwnedLock(w) ==
    combatLock' = IF combatLock = w THEN None ELSE combatLock

(* The finally clause of runCombat.                                        *)
Release(w) ==
    /\ pc[w] \in {"release", "abandon"}
    /\ ReleaseOwnedLock(w)
    /\ \/ /\ pc[w] = "release"
          /\ Goto(w, "preview")
          /\ UNCHANGED <<ctx, jobs>>
       \/ /\ pc[w] = "abandon"
          /\ Done(w, {})
    /\ UNCHANGED <<runtimeVars, acks, result, pgVars, worldVars, ghostVars>>

(* publishDamagePreview, from the snapshot tryStartCombat read.            *)
Preview(w) ==
    /\ pc[w] = "preview"
    /\ preview' = IF result = NoResult THEN preview
                  ELSE [round |-> ctx[w].round,
                        hp |-> HpAfter(result.won, ctx[w].hp, ctx[w].wipe)]
    /\ Done(w, {})
    /\ UNCHANGED <<runtimeVars, redisVars, pgVars, worldVars, pressed, history>>

-----------------------------------------------------------------------------
(* match:combat_done.  combat_done.lua does not look at the phase or the   *)
(* round: an ack may be written after both have changed.                   *)
CombatDone(w, p) ==
    /\ Message(w, p, "battle")
    /\ Begin(w, "ack", [Blank EXCEPT !.player = p, !.round = round])
    /\ UNCHANGED <<runtimeVars, redisVars, jobs, pgVars, worldVars, ghostVars>>

Ack(w) ==
    /\ pc[w] = "ack"
    /\ acks' = acks \union {ctx[w].player}
    /\ \/ /\ acks' = Players
          /\ Join(w, "applyRead")
       \/ /\ acks' # Players
          /\ Done(w, {})
    /\ UNCHANGED <<runtimeVars, combatLock, result, pgVars, worldVars, ghostVars>>

\* A slip: the round of the combat is not compared.
ApplyReadAnyCombat(w) ==
    /\ pc[w] = "applyRead"
    /\ At("battle", ctx[w].round)
    /\ ctx' = [ctx EXCEPT ![w].hp = hp, ![w].wipe = wipe]
    /\ Goto(w, "applyResult")
    /\ UNCHANGED <<runtimeVars, redisVars, jobs, pgVars, worldVars, ghostVars>>

(* applyDamageAndAdvance: read the hash, read the result, flip the phase,  *)
(* save the snapshot in PostgreSQL, and only then write the hash.          *)
ApplyRead(w) ==
    /\ pc[w] = "applyRead"
    /\ LET mine == At("battle", ctx[w].round) /\ combatRound = ctx[w].round
       IN  \/ /\ mine
              /\ ctx' = [ctx EXCEPT ![w].hp = hp, ![w].wipe = wipe]
              /\ Goto(w, "applyResult")
              /\ UNCHANGED jobs
           \/ /\ ~mine
              /\ Done(w, {})
    /\ UNCHANGED <<runtimeVars, redisVars, pgVars, worldVars, ghostVars>>

\* A slip: the damage is computed from the index before this loss.
ApplyResultOldIndex(w) ==
    /\ pc[w] = "applyResult"
    /\ result # NoResult
    /\ ctx' = [ctx EXCEPT
          ![w].hp   = HpAfterOldIndex(result.won, ctx[w].hp, ctx[w].wipe),
          ![w].wipe = WipeAfter(result.won, ctx[w].wipe),
          ![w].won  = result.won,
          ![w].from = result.round]
    /\ Goto(w, "applyFlip")
    /\ UNCHANGED <<runtimeVars, redisVars, jobs, pgVars, worldVars, ghostVars>>

ApplyResult(w) ==
    /\ pc[w] = "applyResult"
    /\ \/ /\ result # NoResult
          /\ ctx' = [ctx EXCEPT
                ![w].hp   = HpAfter(result.won, ctx[w].hp, ctx[w].wipe),
                ![w].wipe = WipeAfter(result.won, ctx[w].wipe),
                ![w].won  = result.won,
                ![w].from = result.round]
          /\ Goto(w, "applyFlip")
          /\ UNCHANGED jobs
       \/ /\ result = NoResult
          /\ Done(w, {})
    /\ UNCHANGED <<runtimeVars, redisVars, pgVars, worldVars, ghostVars>>

\* A slip: the phase read earlier is trusted and written without the CAS.
ApplyFlipNoCas(w) ==
    /\ pc[w] = "applyFlip"
    /\ phase' = "resolved" /\ announced' = FALSE
    /\ Goto(w, "persist")
    /\ UNCHANGED <<ctx, jobs, round, ready, combatRound, hp, wipe, redisVars,
                   pgVars, online, crashes, faults, ghostVars>>

\* A slip: the new phase is published at once, before the damage is written.
ApplyFlipAnnounced(w) ==
    /\ pc[w] = "applyFlip"
    /\ At("battle", ctx[w].round)
    /\ phase' = "resolved" /\ announced' = TRUE
    /\ Goto(w, "persist")
    /\ UNCHANGED <<ctx, jobs, round, ready, combatRound, hp, wipe, redisVars,
                   pgVars, online, crashes, faults, ghostVars>>

ApplyFlip(w) ==
    /\ pc[w] = "applyFlip"
    /\ \/ /\ At("battle", ctx[w].round)
          /\ phase' = "resolved" /\ announced' = FALSE
          /\ Goto(w, "persist")
          /\ UNCHANGED <<ctx, jobs>>
       \/ /\ ~At("battle", ctx[w].round)
          /\ Done(w, {})
          /\ UNCHANGED <<phase, announced>>
    /\ UNCHANGED <<round, ready, combatRound, hp, wipe, redisVars, pgVars,
                   online, crashes, faults, ghostVars>>

Persist(w) ==
    /\ pc[w] = "persist"
    /\ \/ /\ snapshot' = ctx[w].hp
          /\ Goto(w, "commit")
          /\ UNCHANGED <<ctx, jobs, faults>>
       \/ /\ Throw(w)
          /\ UNCHANGED snapshot
    /\ UNCHANGED <<runtimeVars, redisVars, status, winner, savedRounds, ratings,
                   online, announced, crashes, ghostVars>>

\* A slip: the wipe indices are advanced in memory only.
ChargeKeepsWipe(w) ==
    /\ hp' = ctx[w].hp /\ wipe' = wipe
    /\ history' = Append(history, [round |-> ctx[w].round,
                                    from |-> ctx[w].from, won |-> ctx[w].won])

\* What the HSET of a round says of the players.
Charge(w) ==
    /\ hp' = ctx[w].hp /\ wipe' = ctx[w].wipe
    /\ history' = Append(history, [round |-> ctx[w].round,
                                    from |-> ctx[w].from, won |-> ctx[w].won])

\* A slip: the phase is written once more with the rest of the round.
CommitWritesPhase(w) ==
    /\ pc[w] = "commit"
    /\ Charge(w)
    /\ phase' = "resolved" /\ ready' = {} /\ combatRound' = 0
    /\ announced' = TRUE
    /\ Done(w, {})
    /\ UNCHANGED <<round, redisVars, pgVars, online, crashes, faults, pressed,
                   preview>>

(* The hash is written without a look at the phase it is in by now.        *)
Commit(w) ==
    /\ pc[w] = "commit"
    /\ Charge(w)
    /\ \/ /\ Over(ctx[w].hp)
          /\ phase' = "finished"
          /\ Goto(w, "finalize")
          /\ UNCHANGED <<ctx, jobs, ready, combatRound, announced>>
       \/ /\ ~Over(ctx[w].hp)
          /\ ready' = {} /\ combatRound' = 0
          /\ Announce("resolved", ctx[w].round)
          /\ Done(w, {})
          /\ UNCHANGED phase
    /\ UNCHANGED <<round, redisVars, pgVars, online, crashes, faults, pressed,
                   preview>>

\* The one write of the row that ends a match, and of both ratings with it.
CloseRow(w) ==
    /\ winner' = IF ctx[w].reason = "hp_zero" THEN MatchWinner(ctx[w].hp)
                 ELSE Opponent(ctx[w].player)
    /\ status' = IF ctx[w].reason = "hp_zero" THEN "finished" ELSE "forfeited"
    /\ ratings' = IF winner' = None THEN ratings ELSE ratings + 1

\* A slip: the row is not looked at before it is closed.
FinalizeAgain(w) ==
    /\ pc[w] = "finalize"
    /\ CloseRow(w)
    /\ Goto(w, "cleanup")
    /\ UNCHANGED <<runtimeVars, redisVars, jobs, snapshot, savedRounds, ctx,
                   worldVars, ghostVars>>

\* A slip: only a call that finds the match closed schedules the cleanup.
FinalizeNoCleanup(w) ==
    /\ pc[w] = "finalize"
    /\ status = "in_progress"
    /\ CloseRow(w)
    /\ Done(w, {})
    /\ UNCHANGED <<runtimeVars, redisVars, snapshot, savedRounds, worldVars,
                   ghostVars>>

(* MatchService.finalize: one transaction that holds the row of the match. *)
(* forfeitDisconnectedPlayer looks at the row before it calls finalize, and *)
(* may find it closed already.                                             *)
Finalize(w) ==
    /\ pc[w] = "finalize"
    /\ \/ /\ status = "in_progress"
          /\ CloseRow(w)
          /\ Goto(w, "cleanup")
          /\ UNCHANGED <<ctx, jobs, faults>>
       \/ /\ status # "in_progress"
          /\ Goto(w, "cleanup")
          /\ UNCHANGED <<ctx, jobs, faults, status, winner, ratings>>
       \/ /\ status # "in_progress" /\ ctx[w].reason = "disconnect"
          /\ Done(w, {})
          /\ UNCHANGED <<status, winner, ratings, faults>>
       \/ /\ Throw(w)
          /\ UNCHANGED <<status, winner, ratings>>
    /\ UNCHANGED <<runtimeVars, redisVars, snapshot, savedRounds, online,
                   announced, crashes, ghostVars>>

ScheduleCleanup(w) ==
    /\ pc[w] = "cleanup"
    /\ Done(w, {CleanupJob})
    /\ UNCHANGED <<runtimeVars, redisVars, pgVars, worldVars, ghostVars>>

-----------------------------------------------------------------------------
(* match:round_ready.  The flag is written by a plain HSET, whatever phase *)
(* and round the hash is in by then.                                       *)
RoundReady(w, p) ==
    /\ Message(w, p, "resolved")
    /\ p \notin ready
    /\ Begin(w, "roundReady", [Blank EXCEPT !.player = p, !.round = round])
    /\ UNCHANGED <<runtimeVars, redisVars, jobs, pgVars, worldVars, ghostVars>>

RoundReadySet(w) ==
    /\ pc[w] = "roundReady"
    /\ ready' = ready \union {ctx[w].player}
    /\ Goto(w, "roundReadyCount")
    /\ UNCHANGED <<phase, round, combatRound, hp, wipe, redisVars, jobs, pgVars,
                   ctx, worldVars, ghostVars>>

\* A slip: the grace timer is left to the second acknowledgement.
RoundReadyCountNoTimer(w) ==
    /\ pc[w] = "roundReadyCount"
    /\ IF ready = Players
       THEN Join(w, "advance") ELSE Done(w, {})
    /\ UNCHANGED <<runtimeVars, redisVars, pgVars, worldVars, ghostVars>>

RoundReadyCount(w) ==
    /\ pc[w] = "roundReadyCount"
    /\ \/ /\ ready = Players
          /\ Join(w, "advance")
          /\ UNCHANGED announced
       \/ /\ ready # Players
          /\ Done(w, {Job("round_ready_timeout", ctx[w].round)})
          /\ announced' = TRUE
    /\ UNCHANGED <<runtimeVars, redisVars, pgVars, online, crashes, faults,
                   ghostVars>>

(* advanceResolvedRound.                                                   *)
Advance(w) ==
    /\ pc[w] = "advance"
    /\ \/ /\ At("resolved", ctx[w].round) /\ round < MaxRound
          /\ phase' = "shop_place" /\ round' = round + 1
          /\ announced' = FALSE
          /\ Goto(w, "advanceReset")
          /\ UNCHANGED <<ctx, jobs>>
       \/ /\ ~At("resolved", ctx[w].round) \/ round >= MaxRound
          /\ Done(w, {})
          /\ UNCHANGED <<phase, round, announced>>
    /\ UNCHANGED <<ready, combatRound, hp, wipe, redisVars, pgVars, online,
                   crashes, faults, ghostVars>>

AdvanceReset(w) ==
    /\ pc[w] = "advanceReset"
    /\ ready' = {} /\ combatRound' = 0
    /\ Goto(w, "advanceSchedule")
    /\ UNCHANGED <<phase, round, hp, wipe, redisVars, jobs, pgVars, ctx,
                   worldVars, ghostVars>>

\* A slip: the next planning phase is left without a timer.
AdvanceScheduleNoTimer(w) ==
    /\ pc[w] = "advanceSchedule"
    /\ Done(w, {})
    /\ Announce("shop_place", ctx[w].round + 1)
    /\ UNCHANGED <<runtimeVars, redisVars, pgVars, online, crashes, faults,
                   ghostVars>>

AdvanceSchedule(w) ==
    /\ pc[w] = "advanceSchedule"
    /\ Done(w, {Job("phase_start", ctx[w].round + 1)})
    /\ Announce("shop_place", ctx[w].round + 1)
    /\ UNCHANGED <<runtimeVars, redisVars, pgVars, online, crashes, faults,
                   ghostVars>>

-----------------------------------------------------------------------------
(* match:surrender and a socket that drops.  Both read the phase and flip  *)
(* it to finished only if it has not moved since; neither tries again.     *)
Surrender(w, p) ==
    /\ w \in WsHandlers
    /\ p \in online
    /\ announced \/ phase # "shop_place" \/ p \in Eager
    /\ phase # "finished"
    /\ Begin(w, "quit", [Blank EXCEPT !.player = p, !.round = round,
                                      !.expect = phase, !.reason = "forfeit"])
    /\ UNCHANGED <<runtimeVars, redisVars, jobs, pgVars, worldVars, ghostVars>>

Disconnect(w, p) ==
    /\ w \in WsHandlers
    /\ p \in online /\ p \in Flaky
    /\ phase # "finished"
    /\ online' = online \ {p}
    /\ Begin(w, "quit", [Blank EXCEPT !.player = p, !.round = round,
                                      !.expect = phase, !.reason = "disconnect"])
    /\ UNCHANGED <<runtimeVars, redisVars, jobs, pgVars, announced, crashes,
                   faults, ghostVars>>

\* A slip: the match is closed whether or not the flip succeeded.
QuitIgnoresFlip(w) ==
    /\ pc[w] = "quit"
    /\ phase' = IF At(ctx[w].expect, ctx[w].round) THEN "finished" ELSE phase
    /\ Goto(w, "finalize")
    /\ UNCHANGED <<ctx, jobs, round, ready, combatRound, hp, wipe, redisVars,
                   pgVars, worldVars, ghostVars>>

Quit(w) ==
    /\ pc[w] = "quit"
    /\ \/ /\ At(ctx[w].expect, ctx[w].round)
          /\ phase' = "finished"
          /\ Goto(w, "finalize")
          /\ UNCHANGED <<ctx, jobs>>
       \/ /\ ~At(ctx[w].expect, ctx[w].round)
          /\ Done(w, {})
          /\ UNCHANGED phase
    /\ UNCHANGED <<round, ready, combatRound, hp, wipe, redisVars, pgVars,
                   worldVars, ghostVars>>

Reconnect(p) ==
    /\ p \notin online
    /\ online' = online \union {p}
    /\ UNCHANGED <<runtimeVars, redisVars, jobs, pgVars, pc, ctx, announced,
                   crashes, faults, ghostVars>>

-----------------------------------------------------------------------------
(* BullMQ gives a job to one worker at a time.  A job whose worker died is *)
(* still in the queue: the stalled-job detector gives it to another one.   *)
FirstStep(j) ==
    CASE j.type = "phase_start"         -> "startRead"
      [] j.type = "combat_done_timeout" -> "applyRead"
      [] OTHER                          -> "advance"

PickJob(w, j) ==
    /\ w \in JobHandlers
    /\ j \in jobs /\ j.type # "match_cleanup"
    /\ \A v \in Handlers : ctx[v].job # j
    /\ Begin(w, FirstStep(j), [Blank EXCEPT !.job = j, !.round = j.round])
    /\ UNCHANGED <<runtimeVars, redisVars, jobs, pgVars, worldVars, ghostVars>>

(* The lock lapses after 30 s and the acks after 90 s, sooner or later than *)
(* whatever else happens.                                                  *)
ExpireLock ==
    /\ combatLock # None
    /\ combatLock' = None
    /\ UNCHANGED <<runtimeVars, acks, result, jobs, pgVars, pc, ctx, worldVars,
                   ghostVars>>

ExpireAcks ==
    /\ acks # {}
    /\ acks' = {}
    /\ UNCHANGED <<runtimeVars, combatLock, result, jobs, pgVars, pc, ctx,
                   worldVars, ghostVars>>

(* A replica dies and the handlers that were running in it with it.        *)
Crash(S) ==
    /\ crashes < MaxCrashes /\ crashes' = crashes + 1
    /\ S # {} /\ \A w \in S : pc[w] # "idle"
    /\ pc' = [w \in Handlers |-> IF w \in S THEN "idle" ELSE pc[w]]
    /\ ctx' = [w \in Handlers |-> IF w \in S THEN Blank ELSE ctx[w]]
    /\ UNCHANGED <<runtimeVars, redisVars, jobs, pgVars, online, announced, faults,
                   ghostVars>>

-----------------------------------------------------------------------------
Step(w) ==
    \/ ReadyCount(w) \/ StartRead(w) \/ StartFlip(w)
    \/ CombatLock(w) \/ CombatGuard(w) \/ CombatClear(w) \/ CombatCheck(w)
    \/ AppendRound(w) \/ WriteResult(w) \/ SetCombatRound(w)
    \/ ScheduleTimeout(w) \/ Release(w) \/ Preview(w)
    \/ Ack(w) \/ ApplyRead(w) \/ ApplyResult(w) \/ ApplyFlip(w)
    \/ Persist(w) \/ Commit(w) \/ Finalize(w) \/ ScheduleCleanup(w)
    \/ RoundReadySet(w) \/ RoundReadyCount(w)
    \/ Advance(w) \/ AdvanceReset(w) \/ AdvanceSchedule(w)
    \/ Quit(w)

Client(w, p) ==
    \/ \E flag \in BOOLEAN : Ready(w, p, flag)
    \/ CombatDone(w, p) \/ RoundReady(w, p)
    \/ Surrender(w, p) \/ Disconnect(w, p)

Next ==
    \/ \E w \in Handlers : Step(w)
    \/ \E w \in WsHandlers, p \in Players : Client(w, p)
    \/ \E w \in JobHandlers, j \in jobs : PickJob(w, j)
    \/ \E p \in Players : Reconnect(p)
    \/ ExpireLock \/ ExpireAcks
    \/ \E S \in SUBSET Handlers : Crash(S)

Spec == Init /\ [][Next]_vars

(* Handlers keep running and a due job is picked up: Node schedules every  *)
(* pending callback, BullMQ every due job.  Players owe nothing.           *)
Fairness ==
    /\ \A w \in Handlers : WF_vars(Step(w))
    /\ \A w \in JobHandlers : WF_vars(\E j \in jobs : PickJob(w, j))

FairSpec == Spec /\ Fairness

(* A timing assumption: when a battle starts, no handler is left over from *)
(* the rounds before.  Between a flip to "resolved" and the next battle    *)
(* both players have watched the summary and planned a round; a handler    *)
(* that is still running then was held up for that long.                   *)
Stragglers == {w \in Handlers : pc[w] # "idle" /\ ctx[w].round < round}
NoStraggler == phase = "shop_place" /\ phase' = "battle" => Stragglers = {}

PromptSpec == Init /\ [][Next /\ NoStraggler]_vars /\ Fairness

-----------------------------------------------------------------------------
(* Properties.                                                             *)

\* Every variable holds a value of its kind.
TypeOK ==
    /\ phase \in Phases /\ round \in Nat /\ combatRound \in Nat
    /\ ready \subseteq Players
    /\ hp \in [Players -> Nat] /\ wipe \in [Players -> 0..5]
    /\ combatLock \in Handlers \union {None}
    /\ acks \subseteq Players
    /\ result \in [round: Nat, won: Outcomes]
    /\ jobs \subseteq Jobs
    /\ status \in {"in_progress", "finished", "forfeited"}
    /\ winner \in Outcomes
    /\ snapshot \in [Players -> Nat]
    /\ savedRounds \subseteq Nat /\ ratings \in Nat
    /\ pc \in [Handlers -> Labels] /\ ctx \in [Handlers -> Contexts]
    /\ online \subseteq Players /\ announced \in BOOLEAN
    /\ crashes \in Nat /\ faults \in Nat
    /\ pressed \subseteq Players
    /\ history \in Seq([round: Nat, from: Nat, won: Outcomes])
    /\ preview \in [round: Nat, hp: [Players -> Nat]]

\* The handlers that took a round out of battle and have not written its
\* damage into the hash yet.
Committing == {w \in Handlers : pc[w] \in {"persist", "commit"}}

\* The damage of a round is charged at most once, whether the second ack, the
\* timeout or both, on several replicas, try to (applyDamageAndAdvance).
DamageOnce ==
    \A i, j \in DOMAIN history : history[i].round = history[j].round => i = j

\* The damage charged for a round comes from the combat of that round, although
\* neither the key of the result nor the check after reading it names a round.
DamageFromOwnCombat ==
    \A i \in DOMAIN history : history[i].from = history[i].round

\* A match that PostgreSQL says is over is over in Redis: finalize is called
\* only after the phase has become finished.
ClosedMatchIsStopped == status # "in_progress" => phase = "finished"

\* Ratings move once for a match with a winner and never for a draw, whatever
\* combination of knock-out, surrender and disconnect ends it (finalize).
RatedOnce ==
    ratings = IF status # "in_progress" /\ winner # None THEN 1 ELSE 0

\* Nothing reopens a finished match or changes its outcome.
ClosedStaysClosed ==
    [][/\ phase = "finished" => phase' = "finished"
       /\ status # "in_progress" => UNCHANGED <<status, winner, ratings>>]_vars

\* The reference for hp and the wipe index: the rounds of the history, one
\* after the other, from the initial state.
Replay(h) ==
    LET after[n \in 0..Len(h)] ==
            IF n = 0
            THEN [hp |-> [p \in Players |-> InitialHp], wipe |-> [p \in Players |-> 0]]
            ELSE [hp   |-> HpAfter(h[n].won, after[n-1].hp, after[n-1].wipe),
                  wipe |-> WipeAfter(h[n].won, after[n-1].wipe)]
    IN  after[Len(h)]

\* No charge is lost or overwritten: the hash holds what the rounds charged so
\* far add up to (the late HSET of applyDamageAndAdvance).
HpIsTheSumOfRounds == hp = Replay(history).hp /\ wipe = Replay(history).wipe

\* Every round that was fought is charged before the players hear that it is
\* over, and before the next one is planned: the flip to "resolved" and the
\* HSET that follows it in applyDamageAndAdvance are two steps.
EveryRoundCharged ==
    /\ phase = "shop_place" => Len(history) = round - 1
    /\ phase = "resolved" /\ announced => Len(history) = round

\* The row of a match that ended by knock-out shows the knock-out: in the
\* snapshot of matches.p1State and p2State the winner is the one player with
\* hit points left, and the events of every round are there (finalize, the
\* only write of winnerId, does not look at the snapshot).
KnockoutRowAgrees ==
    status = "finished" =>
        /\ Over(snapshot)
        /\ \A p \in Players : winner = p <=> snapshot[p] > 0
        /\ savedRounds = 1..round

\* What is charged is what the preview showed to the players.
PreviewIsCharged ==
    \A w \in Committing : preview.round = ctx[w].round => preview.hp = ctx[w].hp

\* A battle has somebody to end it: a handler that is on its way to schedule
\* the timeout, or the timeout of this round.
Fighters ==
    {w \in Handlers : /\ ctx[w].round = round
                      /\ pc[w] \in {"combatLock", "combatGuard", "combatClear",
                                    "combatCheck", "append", "writeResult",
                                    "setCombatRound", "scheduleTimeout"}}
BattleHasDriver ==
    phase = "battle" =>
        \/ Fighters # {}
        \/ /\ Job("combat_done_timeout", round) \in jobs
           /\ combatRound = round /\ result.round = round

\* A battle starts when both players have asked for it in this planning phase,
\* or when its timer fires (02-requirements.md, FR-GAME-4).
StartIsAgreed ==
    [][phase = "shop_place" /\ phase' = "battle" =>
        \/ pressed = Players
        \/ \E w \in Handlers : /\ pc[w] = "startFlip"
                               /\ pc'[w] = "combatLock"
                               /\ ctx[w].job # NoJob]_vars

\* A planning phase ends although no player presses ready (phase timer).
PlanningEnds ==
    \A r \in 1..MaxRound : At("shop_place", r) ~> ~At("shop_place", r)

\* A battle ends although no client acknowledges it (combat-done timeout).
BattleEnds ==
    \A r \in 1..MaxRound : At("battle", r) ~> ~At("battle", r)

\* One acknowledgement of the summary is enough for the next round.
SummaryEnds ==
    \A r \in 1..MaxRound :
        At("resolved", r) /\ ready # {} /\ announced ~> ~At("resolved", r)

\* A stopped match is closed in PostgreSQL and its Redis keys are due for
\* deletion.
StoppedMatchCloses ==
    phase = "finished" ~> status # "in_progress" /\ CleanupJob \in jobs

\* A player whose socket drops loses the match unless they come back.
DisconnectForfeits ==
    \A p \in Players : p \notin online ~> (p \in online \/ phase = "finished")

Lifecycle == INSTANCE MatchLifecycle WITH
    stage   <- phase,
    turn    <- round,
    charged <- {history[i].round : i \in DOMAIN history},
    verdict <- IF status = "in_progress" THEN <<>> ELSE <<winner>>

\* The orchestrator implements the life of a match.
ImplementsLifecycle == Lifecycle!Spec
=============================================================================
