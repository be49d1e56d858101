# A verification project for the auto-battler backend

The program is a two-player auto-battler: a NestJS backend (several replicas behind
a proxy, Redis, BullMQ, PostgreSQL) and a Flutter client. This directory holds TLA+
models of the backend, the TLC configurations that check them on small instances and
the theorems TLAPS proves for all instances. Paths below are relative to
`src/backend/src` unless they start with `src/`.

- [Inventory](#inventory): the parts of the system and what makes each correct
- [What is modelled](#what-is-modelled): the modules against the code
- [Assumptions](#assumptions): fairness, timing, bounds
- [Runs](#runs): what each one shows
- [Findings](#findings): where code and documents disagree
- [Proofs](#proofs)
- [Not modelled](#not-modelled) and the [plan](#plan)

## Inventory

| Component | State | Operations | Hard because |
|---|---|---|---|
| **Round orchestrator** `runtime/match.runtime.adapter.ts`, `combat.coordinator.ts`, scripts `phase_flip`, `combat_done`, `action_log` | hash `match:<id>:runtime` (phase, round, flags, hp, wipe indices, combatRound), keys `combat-lock`, `combat-done`, `combat-result` | ready, tryStartCombat, runCombat, combat_done, applyDamageAndAdvance, round_ready, advanceResolvedRound, surrender, handleDisconnect | every handler is a chain of awaits over Redis, PostgreSQL and BullMQ; only the flip of the phase is atomic, everything after it is not |
| **Match service** `match/match.service.ts` | rows `matches`, `match_rounds`, ratings | create, appendRoundEvents, updateRuntimeSnapshot, finalize, forfeitDisconnectedPlayer | knock-out, surrender and disconnect race for one row |
| **BullMQ queues** `queue/` | delayed and repeatable jobs | schedule, process, redeliver | jobs race the messages they stand in for |
| **Matchmaking** `matchmaking/`, script `match_pair` | sorted set of waiting players | join, leave, pairing tick | check of an active match and ZADD are two steps; a pair is popped before its match exists |
| **Private rooms** `room/`, scripts `room_*` | room hash, code, user and handoff keys with TTL | create, join, leave, start | handoff to a match spans Redis and PostgreSQL, several triggers at once |
| **Shop and rosters** `shop/shop.service.ts`, adapter 274-331 | player states in the hash, action log, action lock | buy, sell, reroll, place, roll offers | read-modify-write of a JSON field under a lock with a TTL |
| **Gateway and fan-out** `ws/ws.gateway.ts`, `runtime/pubsub.bridge.ts` | sockets of a user, subscriptions of a match, per replica | connect, deduplicate, resume, disconnect, publish | the same user on two replicas, lost and late events |
| **Cleanup and retention** `queue/workers`, `match-retention.service.ts`, `queue-retention.service.ts` | keys of finished matches, old rows | delete after a grace | deletion against handlers that still run |
| **Caches** `user/stats.service.ts`, `leaderboard.service.ts` | Redis copies of PostgreSQL reads | read through, invalidate | read, invalidate, write; replica lag |
| **Combat engine** `game/` | none: a function of boards and seed | runBattle | termination, determinism, targeting |
| **Rate limiting** `common/throttle`, `ws_rate_limit` | sorted set per user | count a message | window boundaries |
| **Users, authentication** `user/`, `auth/` | user rows, stateless tokens | register, login, refresh, edit | - |
| **Monitoring, logging, migrations, replication set-up** | - | - | - |
| **Flutter client** `src/mobile/lib` | last phase event, playback | sends the messages above | reconnects, playback against the server's phase |

What makes each correct, in one line each: a round is charged exactly once from its own
battle and a match ends once (orchestrator, match service); a due job is processed and a
redelivered one is harmless (queues); a player is in at most one match (matchmaking); a
full room leads to exactly one match of its two players (rooms); an action takes effect
once and gold is conserved (shop); a connected player gets the events of their match and
is not forfeited (gateway); nothing is deleted that is still needed (cleanup); a cached
value that misses a finished match was read from a lagging replica or overtaken by its
end (caches); a battle ends and is the same on every replica (engine).

How they interact. A client message enters the gateway, which calls the adapter; a
BullMQ worker calls the same functions for the same round. The adapter publishes
`game:match:phase` events; **a client learns the phase from these events only** (the
state sent on resume names none) and acts on nothing else
(`match_controller.dart:215`, `:337`). The adapter calls the shop for new offers and
MatchService for everything persistent; MatchService invalidates the caches and
schedules the cleanup. Matchmaking and rooms create the match and call
`initializeMatch`. Processes share Redis, BullMQ and PostgreSQL and nothing else.

## What is modelled

| Module | Models | Extended by |
|---|---|---|
| `RoundOrchestrator` | one match from `initializeMatch` to its cleanup job | `MCRoundOrchestrator`, `RoundOrchestratorProofs`, `RoundCombatProofs`, `RoundPromptProofs` |
| `MatchLifecycle` | abstract: what a match promises (stages, at most one charge per turn, one verdict) | refined by `RoundOrchestrator` |
| `Matchmaking` | the public queue, the pairing poll, the creation of matches | `PrivateRooms` |
| `PrivateRooms` | rooms, codes, mappings, the handoff to a match | `MatchEntry` |
| `MatchEntry` | both ways into a match at once, and crashes | `MCMatchEntry`, `MatchEntryProofs` |
| `RosterActions` | one player's shop, units and gold next to the charge of the rounds | `MCRosterActions`, `RosterActionsProofs` |
| `WsFanout` | the gateway and the bridge of every replica, and what a device is shown | `MCWsFanout`, `WsFanoutProofs` |
| `CombatEngine` | `runBattle`, one unit acting per step | `MCCombatEngine`, `CombatEngineProofs` |
| `MatchAftermath` | finalize after its commit, caches, cleanup, retention, a lagging replica | `MCMatchAftermath`, `MatchAftermathProofs` |

The `MC` modules only give TLC its instances (symmetry sets, boards, requests). What the
components share is cut as follows. `MatchEntry` ends where `initializeMatch` has written
the hash; `RoundOrchestrator` begins there and leaves rosters and gold out;
`RosterActions` has rosters and gold and keeps of the orchestrator the steps that touch
them (planning ends, charge, snapshot, advance, offers); `WsFanout` has the publications
and the sockets and keeps of the orchestrator the order of phases and events;
`MatchAftermath` begins at the commit of `finalize`; the outcome of a battle is free in
all of them and computed in `CombatEngine`.

Operators whose comment begins with *A slip* are plausible mistakes in the code; no
specification uses them. They show that a property can
fail: see [Runs](#runs).

### RoundOrchestrator

*State.* The first block of variables is the runtime hash (`phase`, `round`, `ready`
for readyP1/readyP2, `combatRound`, `hp` for the field in p1State/p2State, `wipe`),
then the other Redis keys (`combatLock`, `acks`, `result`), BullMQ (`jobs`, with a job
being processed still in it, and `match_cleanup` once it is due), and PostgreSQL
(`status`, `winner`, `snapshot`, `savedRounds`, and `ratings`, a count of how often
ratings moved). `history`, `preview` and `pressed` are history variables: no handler
reads them.

*Handlers.* `pc[w]` and `ctx[w]` are the program counter and the locals of handler `w`.
`WsHandlers` run messages of players, `JobHandlers` run jobs. One step stands for one
await that touches shared state, with the pure code around it; `phase_flip.lua`,
`combat_done.lua`, `action_log.lua` and a PostgreSQL transaction are one step each.
Between two steps any other handler may run.

| Code | Steps |
|---|---|
| `markReadyAction` | `Ready`, `ReadyCount` |
| `tryStartCombat`, job `phase_start` | `StartRead`, `StartFlip`, then combat, then `Preview` |
| `runCombat` | `CombatLock`, `CombatGuard`, `CombatClear`, `CombatCheck`, `AppendRound`, `WriteResult`, `SetCombatRound`, `ScheduleTimeout`, `Release` |
| `handleCombatDone` | `CombatDone`, `Ack` |
| `applyDamageAndAdvance`, job `combat_done_timeout` | `ApplyRead`, `ApplyResult`, `ApplyFlip`, `Persist`, `Commit` |
| `finalize` | `Finalize`, `ScheduleCleanup` |
| `markRoundReady` | `RoundReady`, `RoundReadySet`, `RoundReadyCount` |
| `advanceResolvedRound`, job `round_ready_timeout` | `Advance`, `AdvanceReset`, `AdvanceSchedule` |
| `surrender`, `handleDisconnect` | `Surrender` or `Disconnect`, then `Quit` |
| BullMQ | `PickJob` |
| TTLs of lock and acks | `ExpireLock`, `ExpireAcks` |
| environment | `Reconnect`, `Crash` |

*Data.* The engine's result is free (`Wins`); damage, wipe index, clamp and winner are
computed as in `damageFor` and `resolveRound`. A published event is the flag
`announced`: whether the phase and round now in the hash have been published.

*Failures.* `Crash(S)` kills any set of running handlers: their locals are lost, what
they wrote stays, a job they held can be picked again. `Throw` and the second disjunct
of `AppendRound` let PostgreSQL calls fail; the handler ends as the code does. The lock
and the acks may lapse at any moment, and `release` is a compare-and-delete.

### MatchLifecycle

Four variables (`stage`, `turn`, `charged`, `verdict`) and six actions. It has no
handlers, locks or flags, so its steps are the ones a player can see. It lets a charge
arrive after the turn is over, because the code does: what it forbids is charging a turn
twice, charging one that was not fought, and any step of a match that is over other than
a late charge and the one verdict.
`RoundOrchestrator!ImplementsLifecycle` maps `phase`, `round`, the rounds in `history`
and the row of the match to it.

### Matchmaking

*State.* `queue` is the sorted set `matchmaking:queue`, `matches` the table of matches in
the order of creation (`served` once the hash and the first timer exist), `joining` the
joins between the check for an active match and the ZADD, `poll` the `match-pair` jobs.
`promised` is a ghost: who joined, did not leave, has no match and was not given up.

| Code | Actions |
|---|---|
| `joinQueue`, `leaveQueue` | `JoinQueue` (the check), `AddToQueue` (ZADD NX), `LeaveQueue` |
| `tryPair`, `match_pair.lua` | `Pop`, `CheckActive`, `GiveUp` (a read throws) |
| `createMatch` | `CreateMatch`, `CreateFails` (requeue) |
| `initializeMatch` | `InitializeMatch`, `InitializeFails` |
| `finalize`, reduced to the row | `MatchEnds` |

### PrivateRooms and MatchEntry

*State.* The keys of a room as `room.service.ts` writes them: the hash (`room`), the code
(`codeOf`, the rooms whose code resolves), the mapping of a user (`roomOf`, with the
placeholder `pending`), the claim of a handoff (`claim`). `req[h]` is a request with its
label and locals. A script is one step, and so is every other call: HSET, EXPIRE and SET of
`createRoom` are three, with whatever other requests do in between. Ghosts: `told`, the
matches sent to the players of a room; `torn`, the rooms their owner left after their match;
`stray`, the users whose mapping a call takes away that has not looked at it (the DEL of
`createRoom`'s catch, of `getMyRoom` and of `leaveRoom`, or the script's) or whose key
lapsed under a room that lists them, until they are in no room and make none.

| Code | Actions |
|---|---|
| `createRoom` | `CreateRoom`, `CheckNoMatch`, `CheckNotQueued`, `ClaimCode`, `CreateHash`, `CreateExpire`, `CreateMapping`; its catch `CreateUndo`, `CreateReplyLost` |
| `joinRoom`, `room_join.lua` | `JoinRoom`, the same two checks, `JoinMapping`, `JoinClaim` |
| `getMyRoom` | `GetMyRoom`, `GetLoad`, `DropMapping` for a mapping without a room |
| `leaveRoom`, `room_leave.lua` | `LeaveRoom`, `LeaveScript`, `DropMapping` |
| `startRoom` and the handoff, `room_start_match.lua` | `StartRoom`, `StartLoad`, `HandoffLoad`, `HandoffClaim` |
| `createRoomMatch` | `AdoptOwner`, `AdoptGuest`, `CreateRow`, `Serve` |
| `room_match_done.lua`, `room_match_abort.lua` | `MatchDone`, `Abort` |
| a call that throws, in any of them | `CallFails`: to `CreateUndo`, to `Abort`, or out |
| TTLs | `RoomLapse`, `CodeLapse`, `MappingLapse`, `ClaimLapse` |

`Begin` starts a request at any time: two devices of a player may create, leave, start and
look at rooms at once. `CallFails` and `CreateReplyLost` stand for every failure of a call:
one that took effect although its reply was lost is the failure of the next call, or the
death of the request.

`MatchEntry` adds `Crash` of a poll or of a request (the first counts in `crashes`, the
second in `faults`, which `NobodyLost` tells apart), and the properties that need both
ways: they share the users and the table of matches, and neither holds a lock while it
looks at the other.

### RosterActions

*State.* `player` is the field `p1State` of the hash with gold, slots and a count of the
charges it has suffered, `shop` the key `match:<id>:shop:<user>`, `log` the action log,
`lock` the per-player lock, `row` the snapshot in PostgreSQL. `h[x]` is a handler with
the copies it has read; `sent` is what the client sent under each id. `applied` is a
history of what was committed; `slow` and `late` remember a lock that lapsed under its
holder and a row written after a newer snapshot.

| Code | Actions |
|---|---|
| a `game:action:*` message | `Receive`, a new id or a repeated one |
| `withPlayerLock` | `AcquireLock`, `Busy`, `Unlock` |
| the mutation of `shop.service.ts`, `place` | `CheckLog`, `ReadRuntime`, `ReadShop`; the results are `Buy`, `Sell`, `Refresh`, `Fuse`, `FuseKind`, `Place` |
| `commitRuntimeAction`, `action_log.lua` | `Persist` |
| `updateState` | `UpdateRow`, `UpdateRowFails` |
| `applyDamageAndAdvance`, `advanceResolvedRound` | `EndPlanning`, `ChargeRead`, `ChargeFlip`, `ChargePersist`, `ChargeCommit`, `Advance`, `RollOffers` |
| failures | `Crash`, `LockLapse` |

A unit carries the id of the purchase that made it, as in the code, and the gold invested
in it. What `generateOffers` draws from the seed is the constant `Offers`. The two
players never touch each other's keys, so one player is modelled.

### WsFanout

*State.* Per connection its owner, replica, stage and `superseded`; per replica the
sockets it knows (`registered`), those its bridge serves (`subs`) and the publications it
has yet to handle (`bus`); `recorded`, what a disconnect will undo; `resume`, how far
`resumeActiveMatch` has got; `match`, the stage of the row with phase, combat and rosters
of the hash; `view`, what the device of each player was last shown. `blind` and `since`
are ghosts: the sockets a mishap hid something from, and the phase at which a socket
connected.

| Code | Actions |
|---|---|
| `handleConnection`, `dedupePreviousSockets` | `Connect`, `Refuse`; `Cut` is the end of a connection on the client's side |
| `handleDisconnect` of the gateway | `Disconnect`, `Forfeit` |
| `resumeActiveMatch` | `ResumeFind`, `ResumeRead`, `ResumeEmit`, `ResumeCombat`, `ResumeFails` |
| writers of phases and battles | `CreateRow`, `ChangePhase`, `RunBattle`, `Publish`, `Finish` |
| a roster action and `publishState` | `ActRead`, `ActCommit`, `ActPublish` |
| the bridge's message handler | `Deliver` (with `Attached`: a phase event subscribes the players it names); `Lose` is a publication that a replica misses |

### CombatEngine

*State.* `units` by instance id (kind, star, slot, hit points, who slows it, revived or
not), `cycle` and `tick`, `order` (who has still to act in this tick), `first` (the side
the seed puts first), `winner`; `mirror` is a ghost that knows the boards and the events
only. `NextTick` is the loop over ticks (ticks in which nobody acts are passed over),
`Act` one unit with everything its attack causes (`pickTarget`, `applyDamage`, revival,
lifesteal, pierce, heal, slow, death of a healer), `EndCycle` the verdict.

### MatchAftermath

*State.* `log` is the sequence of commits of the primary (the end or the deletion of a
match) and `applied` how many of them the replica has. Statistics and leaderboard pages
are stood for by the set of matches they count, of which counts, ratings and ranks are
functions. `stats`, `version` and `boards` are the keys in Redis, `sread` and `bread` the
requests that read through them, `final` the calls of `finalize`. Ghosts: `dropped` and
`bumped`, the matches whose end reached a cache, and with every entry the matches that
overtook it or that the replica did not show.

| Code | Actions |
|---|---|
| `finalize` after its transaction | `Commit`, `Schedule`, `DropStats`, `DropFails`, `Bump`, `BumpFails` |
| `StatsService` | `StatsGet`, `StatsGames`, `StatsSet`, `StatsLapse` |
| `LeaderboardService` | `BoardVersion`, `BoardPage`, `BoardSet`, `BoardLapse` |
| cleanup job, retention | `Cleanup`, `ClearEvents`, `DeleteMatch` |
| replication, failure | `ReplicaApplies`, `Crash` |

## Assumptions

**Fairness** (`RoundOrchestrator`, the one module with liveness). Weak fairness of every
step of a running handler and of picking up a job: Node runs every pending callback and
BullMQ every due job. Nothing is assumed of players: no fairness on any message, so the
liveness properties speak of players who never answer. No fairness on crashes or expiry.

**Timing of rounds (`NoStraggler`, in `PromptSpec` only).** When a battle starts, no
handler of an earlier round is still running. Handlers last milliseconds; between a flip
to `resolved` and the next battle, players watch a summary and plan a round. The
assumption is needed: without it TLC finds, with `MaxRound = 3`, a `markRoundReady` of
round 1 that wakes up in the summary of round 2, counts the flags of that round and
schedules or advances on its behalf. It is not used in `Spec`, hence not in
`rounds_faults` or `rounds_early_start`.

**Clients.** `Eager = {}`: players act on a phase after its event (see "How they
interact"). With `Eager = {p1, p2}` the server would accept acknowledgements between the
flip to `resolved` and the HSET that charges the round, and `EveryRoundCharged`,
`KnockoutRowAgrees` and `PreviewIsCharged` fail: it is the client that keeps this order,
not the server. In the entry model a client may have any requests in progress at once; in
the roster model it repeats an action under the same id until it is answered, and asks only
for what `ws/ws.dto.ts` lets through; in the fan-out model a player has one device.

**Polls.** The `entry` runs have one `match-pair` job at a time: BullMQ repeats it every
second and a worker runs one. A poll that needs longer than a second may overlap with one
on another replica, and then `QueueMatchesOnce` fails (see [Findings](#findings));
`MatchedOnce` states the assumption as `OnePoll`. Nothing else about the entry uses it.

**Time to live.** A lock or claim may lapse at any moment, under its holder too
(counted as a mishap in the entry and roster models, free for the combat lock). Code, hash
and mapping of a room get the same 45 minutes one after the other, so they lapse in this
order (the milliseconds in between are neglected), the placeholder before the hash it stands
for, and a hash whose EXPIRE was never made does not lapse. A creation is shorter than 45
minutes, and no request lasts the 300 s of a matched room.
The TTLs of the runtime hash and of the combat result are longer than what they serve and
are not modelled.

**Order.** One planning phase begins after the charge of the round before (the roster
model, by `NoStraggler` and `Eager = {}`); the writers of phases of one match follow one
another (the fan-out model); Redis delivers to a replica in the order of publication; a
replica of PostgreSQL shows a prefix of the commits; retention touches no match whose
cleanup job has not run (a match is days old by then).

**Bounds.**

| Runs | Bound | Why enough |
|---|---|---|
| `rounds_*` | one or two messages and one job at once | the races are between two handlers of one phase |
| | `InitialHp = 10` | two lost rounds (5, then 10) or two draws end a match: ends, draws and advanced wipe indices occur by round 2 |
| | `MaxRound` 2, or 3 in `rounds_scores` | round 2 meets what round 1 left; in `rounds_scores` matches end by themselves first |
| | `MaxCrashes`, `MaxFaults` 0 or 1; `Flaky` one player | one failure at every point |
| | `Wins` one or two outcomes | a win, a draw, or both; the other player's win is symmetric |
| `entry` | 2 users, 1 room, 2 requests, 1 poll, 2 matches, 1 mishap | owner and guest, who also use the queue; a second match is what must not happen. `OneFront` (a CONSTRAINT): while somebody queues or a poll runs, one request is in progress and nobody is stray |
| `entry_lost_pair`, `entry_wrong_match` | the same without `OneFront`; for the second 3 users, 0 mishaps | somebody else to be paired with |
| `roster` | 2 handlers, 3 actions, 1 board and 2 bench slots, 2 offers, 2 rounds, 1 mishap | two actions that race, a third that uses what they made; all six operations; full bench; an action that meets the charge and the next round |
| `fanout` | 1 player, 2 sockets, 2 replicas, 2 phases, lag 1, 1 mishap | the former socket and the new one, on one or two replicas, over a planning phase and a battle |
| `engine` | teams of at most two over all kinds of abilities, stars 0 to 2, in a column or staggered, both initiatives, 30 cycles as in the code | pierce, columns, revival, healing and slow need at most two units a side |
| `aftermath` | 2 matches of the same two players, 2 calls of `finalize`, statistics of one player, 1 reader of either cache, 1 mishap | one end that overtakes a read, one that does not; a repeated end |

Each room id is used once. A larger instance of `RoundOrchestrator!Spec` (two messages,
`MaxRound = 3`) was searched to 14 million states for the properties of `rounds_faults`
without a violation, and `entry` without its CONSTRAINT `OneFront` to the end (49 million
states, no violation); they are no runs because they take too long. `CHECK_DEADLOCK FALSE` is
set throughout: a closed match, a room that nobody uses or a battle that is over stops.

## Runs

| Run | Shows |
|---|---|
| `rounds_faults` | with a crash, a failed PostgreSQL call, lapsing keys and a dropped socket no round is charged twice (`DamageOnce`) or from another battle's result (`DamageFromOwnCombat`), a closed match is stopped, rated once and stays closed (`ClosedMatchIsStopped`, `RatedOnce`, `ClosedStaysClosed`), and every behaviour is a life of a match (`ImplementsLifecycle`) |
| `rounds_scores` | whole matches with a crash: the hash is the replay of the rounds (`HpIsTheSumOfRounds`), rounds are charged before anyone is told (`EveryRoundCharged`), the row shows the knock-out (`KnockoutRowAgrees`), the preview is what is charged (`PreviewIsCharged`) |
| `rounds_live` | with silent players planning, battle and summary end and a stopped match is closed (`PlanningEnds`, `BattleEnds`, `SummaryEnds`, `StoppedMatchCloses`); a battle has at every moment a handler or a timeout to end it (`BattleHasDriver`) |
| `entry` | nobody is lost between queue and match unless a process dies or the read after the pop fails (`NobodyLost`); the queue puts nobody into two live matches (`QueueMatchesOnce`); room and mappings agree, whatever requests of a user overlap, except for a user whose mapping was taken away unseen (`MembershipAgrees`); a room has one live match (`HandoffOnce`) and sends its players to one, unless its owner leaves it after the match and takes the record away (`OneMatchTold`) |
| `roster` | actions and charges apply one after the other although each writes the whole state back (`SerialActions`), at most once (`AppliedOnce`); gold, units and offers are conserved (`GoldConserved`, `NoUnitTwice`, `OfferSoldOnce`); the row follows the hash (`RowFollows`) |
| `fanout` | a device that was connected when a phase began is shown it, and one that is connected during a battle is shown its events, by publication or by resume (`PhaseReachesTheConnected`, `BattleReachesTheConnected`); a closed socket leaves the indexes (`ClosedSocketsForgotten`); a superseded socket forfeits nothing (`ForfeitMeansGone`) |
| `engine` | from the boards and the events a client gets every unit's hit points (`ReplayAgrees`); a battle never wipes both boards and ends by a side or by its last cycle (`SomebodyStands`) |
| `aftermath` | a cached statistic or page that misses a finished match was read from a lagging replica, or, for statistics, by a request that the end overtook (`StaleStatsWereOvertaken`, `StaleBoardsWereBehind`) |
| `rounds_early_start`, `entry_lost_pair`, `entry_wrong_match`, `fanout_moved_player` | findings 1 to 4 |

Each property of a passing run comes with a mutant in `PROJECT.json`: a definition
replaced by one of the slips, which the run then refutes. One type invariant per module
is among the properties.

## Findings

1. **A battle may start although a player never pressed ready**
   (`runtime/match.runtime.adapter.ts:417`, `:587`). `markRoundReady` checks the phase and
   then sets its flag by a plain HSET; `advanceResolvedRound` flips to `shop_place` before
   it clears the flags. Flags of the summary count in the next planning phase, so the
   battle starts early. FR-GAME-4 (`src/docs/02-requirements.md:22`): "Battle starts when
   both players are Ready or 40 s elapses."
2. **A failed read loses a pair** (`matchmaking/matchmaking.service.ts:99`). Both players
   are popped before their active matches are read; when the read throws, nobody requeues
   them. `:87-88`: "If persistence fails, both players are put back in the queue so a
   transient database failure cannot silently lose them."
3. **A room may adopt somebody else's match** (`room/room.service.ts:381`). A guest may
   join the public queue and be paired there, and the handoff adopts any active match of
   owner or guest. `:366-369` calls it "the only match either player could have, since
   both were match-free at join".
4. **A player who moved to another replica may be forfeited** (`ws/ws.gateway.ts:302`).
   The search for previous sockets is local to a replica, so the old socket's end reaches
   `forfeitDisconnectedPlayer` while the new socket is open. `src/docs/03-architecture.md:547`:
   "Per-user connect dedup: last socket wins; previous disconnects".

*Expectations TLC refutes that no run keeps.* They are stated as definitions, or are
properties above under a weaker assumption:

| Property | Refuted by | The text |
|---|---|---|
| `BattleHasDriver` with one failed call | `appendRoundEvents` is awaited before result, `combatRound` and timeout exist (`runtime/combat.coordinator.ts:85`) | `src/docs/03-architecture.md:551`, "best-effort", "Combat result is in Redis" |
| `BattleEnds` with one crash | the flip comes first, the second worker finds the phase changed and returns (adapter 363-370) | `queue/queue.module.ts:16-18`, "another replica takes over" |
| `DisconnectForfeits` | one compare-and-set on the phase read before (adapter 471) | `src/docs/03-architecture.md:548`, "Forfeit applied to that player" |
| `NothingHalfCommitted` | `initializeMatch` fails after the row was committed | `room/room.service.ts:370-371` |
| `OneRoomEach` | two requests of one user, no failure: `getMyRoom` deletes a mapping it read before (`:172`), by now the placeholder of a new creation, and a second creation passes the NX; or one failed EXPIRE: the catch (`:148-157`) deletes the mapping of an owner the hash lists | `room/room.service.ts:69-70`, "single membership via `SET user:room:<uid> NX` (double-create races collapse to exactly one winner)" |
| `OwnRosterIsShown` | `publishState` sends the other player's half as it was read before | `src/docs/07-design-spec.md:587` |
| `QueueMatchesOnce` with two polls | a player popped by one poll who joins again before the row exists is free for a second poll; `match_pair.lua` separates the pops, not what follows them (`matchmaking/matchmaking.service.ts:99`) | `src/docs/03-architecture.md:535-536`, races 4 and 5, "only one wins the `ZREM`", "never half-selected" |
| `NoPhaseMissed` | a phase published between the two sockets; resume names no phase | `ws/ws.gateway.ts:62-63` |
| `DeadSocketsUnsubscribed` | the bridge subscribes the sockets a phase event names, the gateway undoes only what it recorded | `ws/ws.gateway.ts:147-149` |

*Observations, not counted as findings.* In the engine: a double wipe cannot happen,
since whoever strikes last stands; pierce kills a starred tank behind the target without
its revival; a healer that dies leaves its slow behind for the rest of the battle, and a
second healer takes over the mark of the first. After the end of a match: when
scheduling the cleanup fails, the caches are not dropped and `match:end` is not sent; a
process that dies there leaves no cleanup job until somebody ends the match again.

## Proofs

All theorems are about `Spec` or `PromptSpec` with any sets of handlers, players,
matches, requests, sockets and bounds that the ASSUMEs of the modules allow (for rounds:
two distinct players, `None` neither a player nor a handler, messages and jobs run by
distinct handlers, a positive `InitialHp`; for the entry: `Nobody` is no user, room or
request, and `pending` and `queue` are no rooms; for rosters: positive sizes and prices,
requests that `ws.dto.ts` lets through, offers for every round; for the fan-out:
`Nobody` is no user; for the engine: the two sides' ids are distinct numbers, boards are
finite, of known kinds, stars and slots; for the aftermath: two players per match). None
of the properties is inductive as it stands. Every safety and action property of the
passing runs is stated by a theorem; where it is about fewer behaviours than `Spec`, the
last column says which.

| Module | Theorem | Property | Under |
|---|---|---|---|
| `RoundOrchestratorProofs` | `TypeCorrect` | `TypeOK` | `Spec` |
| | `ChargedOnce` | `DamageOnce` | `Spec` |
| | `ClosedIsStopped`, `ClosedForGood` | `ClosedMatchIsStopped`, `ClosedStaysClosed` | `Spec` |
| | `RatingsMoveOnce` | `RatedOnce` | `Spec` |
| | `Implementation` | `ImplementsLifecycle` | `Spec` |
| `RoundCombatProofs` | `ChargedFromOwnCombat` | `DamageFromOwnCombat` | `Spec` |
| | `RoundsAreCharged` | `EveryRoundCharged` | `PromptSpec`, `Eager = {}` |
| `RoundPromptProofs` | `PreviewTellsTheCharge` | `PreviewIsCharged` | `PromptSpec`, `Eager = {}` |
| | `BattlesAreDriven` | `BattleHasDriver` | `PromptSpec`, no crash, no failed call |
| | `TheRowAgrees` | `KnockoutRowAgrees` | `PromptSpec`, `Eager = {}` |
| | `NoChargeIsLost` | `HpIsTheSumOfRounds` | `PromptSpec`, `Eager = {}` |
| `MatchEntryProofs` | `EntryTypes` | `EntryTypeOK` | `Spec` |
| | `NobodyIsLost` | `NobodyLost` | `Spec` |
| | `MatchedOnce` | `QueueMatchesOnce` | `Spec /\ []OnePoll` |
| | `SingleMembership` | `MembershipAgrees` | `Spec` (the property excepts stray users) |
| | `OneHandoff`, `SameMatchTold` | `HandoffOnce`, `OneMatchTold` | `Spec` (the first property speaks of `slow = 0`) |
| `RosterActionsProofs` | `TypeCorrect` | `RosterTypeOK` | `Spec` |
| | `UnitsAreDistinct` | `NoUnitTwice` | `Spec`, slow lock holders included |
| | `ActionsApplyOnce` | `AppliedOnce` | `Spec`, slow lock holders included |
| | `ActionsAreSerial`, `OffersAreSoldOnce` | `SerialActions`, `OfferSoldOnce` | `Spec` (both properties speak of `~slow`) |
| | `RowIsFollowing` | `RowFollows` | `Spec` |
| | `GoldIsConserved` | `GoldConserved` | `Spec`, slow lock holders included |
| `WsFanoutProofs` | `FanoutTypes` | `FanoutTypeOK` | `Spec` |
| | `PhaseIsShown`, `BattleIsShown` | `PhaseReachesTheConnected`, `BattleReachesTheConnected` | `Spec` |
| | `ClosedAreForgotten`, `ForfeitsAreOfTheGone` | `ClosedSocketsForgotten`, `ForfeitMeansGone` | `Spec` |
| `CombatEngineProofs` | `EngineTypes` | `EngineTypeOK` | `Spec` |
| | `EventsTellTheBattle` | `ReplayAgrees` | `Spec` |
| | `LastStrikerStands` | `SomebodyStands` | `Spec` |
| `MatchAftermathProofs` | `AftermathTypes` | `AftermathTypeOK` | `Spec` |
| | `StatsAreCurrent`, `BoardsAreCurrent` | `StaleStatsWereOvertaken`, `StaleBoardsWereBehind` | `Spec` |

*Rounds, `IInv`.* It adds to the types: `SenderKnown` (a handler that runs a player's
message knows the player), `Stopping` (a handler at `finalize` or `cleanup` runs in phase
`finished`, which no step leaves) and `Charging` (a round in `history` is past, or present
and no longer in `shop_place` or `battle`; two handlers at `persist` or `commit` have
different rounds, none of them in `history`). The last is what the compare-and-set of
`phase_flip.lua` buys, and it carries `DamageOnce` across the PostgreSQL write. A lemma per
action says what it leaves alone or how it changes it. The refinement uses `IInv` to know
that a `Commit` is a `Charge` and a `Finalize` a `Close`.

*Rounds, `FightInv`.* `OneFight`: one handler at most is between the flip to `battle` and
the record of its battle, and the round is its own. `CombatKnown`: `combatRound = round` in
`battle` means that the result in Redis is that of this round and nobody is about to
replace it. `ApplyingOwn` carries that to a handler which has read `combatRound` and
fetches a result that names no round; `ChargedOwn` to the charge. A handler that was held
up for rounds fails at the flip, so no timing is assumed.

*Rounds, `PaceInv`, `PreviewInv`, `RowInv`.* `PaceInv` says where each charge stands:
before `resolved` all earlier rounds are charged, `resolved` is announced only after the
charge, and whoever acts for a summary (`SummariesPaced`, `JobsPaced`) acts for one that
was shown. It needs `Eager = {}` for the acknowledgements and `NoStraggler` for those that
arrive late. `PreviewInv` says that preview and charge start from the same hit points and
the same result: `Reading`, `Telling`, `Paying`, one for each stretch of a handler. `RowInv`
orders the three writes at the end: the events of a round are there before it can leave
`battle` (`Appended`), the snapshot before the row is closed (`Closing`), and a handler
that closes for a knock-out has one (`KnockedOut`).

*Rounds, `DriverInv`.* `Holding`: the owner of the combat lock is a handler on its way
through `runCombat` of this or an earlier round, so the one that fights gets the lock
(`LockFree`). `Undisturbed`: nobody clears `combatRound` during a battle. `Workers` and
`Driven`: the timeout stays in the queue until the battle has ended.

*Rosters.* `BaseInv` has the types (`TypeInv`), that the log and the labels know their
requests (`RequestInv`), where the round and its charge stand (`ClockInv`) and from which
round a copy is (`CopyInv`). `UnitInv`: a copy has only units of purchases that are logged,
plus that of its own action, so it may hold a duplicate only if the script is going to
refuse it. `LogInv`: what was applied is in the log. `LockInv` and `SerialInv`: without a slow
holder a handler at work has the lock and the state it has read is the state, or the
planning phase is over and the script refuses it. `RowInv`: the row is the state, or one
write behind a handler that will write it, or newer than a write that will be `late`.
`SaleInv`: what was bought is gone from the shop until a refresh.

*Rosters, `GoldInv`.* The state balances, and so does every copy that may still be
written: each of the six mutations moves gold between the purse and one or two slots
(`Worth`), and a fold over the slots changes by what those slots change (`OneSlot` and its
like). Since every copy balances by itself, a stale one that overwrites the state after its
lock has lapsed loses actions but no gold.

*Entry, `EntryInv`.* `QueueShape` has the types of queue, polls and rows, with nobody
twice in the queue. For the rooms it has three parts, each inductive given the types, and a
lemma for each says which changes it survives (`TypesStand`, `MembersStand`,
`HandoffsStand`), so that an action only has to be shown to make such changes. `TypesOK`:
what a hash holds by its status and what a request knows by its label. `MembersOK`: who is
not stray is `Settled`, his mapping is on the one room that lists him, or is the placeholder
of the one creation he has under way. `HandoffsOK`: the id a creation has drawn is named
nowhere (`FreshOK`); a live row made for a room is its owner's, and so is its worker
(`OwnerOK`); what was told is what the room records, and once that record is gone nobody is
left to tell anything else (`ToldOK`, `SeenOK`). `ClaimsOK` speaks of `slow = 0`: a worker
that looks for a match has the claim (`ClaimFits`) and has found no live row of the room
(`RowFits`), hence one worker and one live row (`OneWorker`, `OneRow`). For the queue,
`NobodyLost` is inductive over `QueueShape`; `MatchedOnce` adds that
the pair of a poll about to create has no live match (`CheckedIsFree`), which is what an
overlapping poll destroys.

*Fan-out, `FanoutInv`.* `Registry` and `Subscriptions` tie the indexes to the connections
of the replica: what is registered is open or cut and not superseded, one per player; what a
resume has subscribed is recorded for the disconnect. `OrderInv` says what a connected
device is still owed: the event of the present phase is in the outbox, or the last of its
kind on the replica's bus, or was shown (`PhaseDue`); a connection of a live match is
subscribed, will be by its resume, or by a phase event on its way (`SubscriptionDue`); the
events of the battle are shown, or on their way with a subscription before them, or a resume
will come to the cached result (`BattleDue`). When all is quiet only "was shown" is left.

*Engine, `BattleInv`.* Kept by every unit's action, effect by effect: `Sound` units, the
mirror equal to the hit points (`Mirrored`), no healer slowing two (`Slows`), and the unit
that acts alive at the end of its own action (`UnitAct` wounds enemies only), so that some
unit stands at the end of every cycle.

*Rounds, `SumInv`.* Whoever may still write the hash carries what the charge of its round
makes of the hash as it is now (`Carries`): between `ApplyFlip` and the HSET nobody else
writes hit points. That the replay of a history with one more round is one more charge is a
lemma about `Replay`.

*Aftermath.* `ShapeOK` has the types. `StatsOK`: an entry, or a read about to become one,
misses only what it names as overtaken or not yet applied. `BoardsOK`: the same for pages
under the present version; bumping it turns all others into the past. The type invariant
needs `OwnersOK` (of the calls of `finalize` one at most goes on to drop and bump, and its
match is not bumped yet, so the version counts matches) and `EntriesOK`.

*Only model-checked.* Liveness, which is out of the prover's reach, as is `ENABLED`:
`PlanningEnds`, `BattleEnds`, `SummaryEnds`, `StoppedMatchCloses`. Of the proofs about
replays and sums nothing is left to TLC: where a proof speaks of data of any length (the
rounds of a history, the slots of a player, the living units of a side) the step is the
one that the code takes, and what induction would give comes from a least counterexample
(`LeastOf`, from the well-foundedness of `<` on the naturals).

## Not modelled

- Rate limiting: one atomic script per message whose state nothing else reads.
- Users and authentication: one statement per request, stateless tokens.
- How ratings are computed; how offers and initiative are drawn from the seed.
- Messages that only inform: room states, error envelopes, notifications other than the
  match to go to; reads for history and details of matches.
- The TTLs of runtime hash and combat result; BullMQ losing a job; a crash of Redis;
  repeat schedules and their removal.
- Batches, dry runs and trimming of finished jobs in the retention.
- Monitoring, logging, filters, tracing, migrations, replication set-up, deployment, CI:
  no logic that spans steps. The Flutter client: screens; it appears as the messages it
  may send.
- About 4900 of the backend's lines are smoke drivers next to the code, which exercise it
  and are read as documents of what it should do.

## Plan

1. `OnePoll` from the code's side: a model of BullMQ's repeat with a lock per job, to say
   for which duration of a poll the assumption holds.
2. The entry with two rooms, or with two polls, when their instances can be made small
   enough; the fan-out with both players.
3. An abstract specification of the entry (who is waiting, who plays whom) and of the
   roster (actions applied in series), with refinement proofs like that of
   `MatchLifecycle`.
4. Liveness of the entry: a queue of two players is paired under fairness of the poll.
5. The TTL of the runtime hash against the HSET of a late charge.
