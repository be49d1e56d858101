--------------------------- MODULE MatchAftermath ---------------------------
(***************************************************************************)
(* What a match leaves behind: MatchService.finalize, the statistics cache *)
(* it drops, the leaderboard version it bumps, the cleanup job it plans,   *)
(* and the daily retention.                                                *)
(*                                                                         *)
(* The primary is the log of its commits; the replica, which statistics    *)
(* and leaderboard read, has applied a prefix of it.  Statistics and       *)
(* leaderboard are stood for by the set of matches they take into account, *)
(* which counts, ratings and ranks are functions of.                       *)
(***************************************************************************)
EXTENDS Integers, Sequences, FiniteSets, Functions

CONSTANTS
    Matches, Players,
    PlayersOf,    \* the two players of each match
    Finalizers,   \* the calls of finalize in progress
    Watched,      \* bound: the players whose statistics are asked for
    Readers,      \* requests for statistics or the leaderboard
    MaxMishaps    \* bound: crashed finalizers and failed Redis calls

ASSUME AftermathAssumption ==
    /\ PlayersOf \in [Matches -> SUBSET Players]
    /\ \A m \in Matches : Cardinality(PlayersOf[m]) = 2
    /\ Watched \subseteq Players
    /\ MaxMishaps \in Nat

VARIABLES
    log,      \* commits of the primary: the end or the deletion of a match
    applied,  \* how many of them the replica has
    final,    \* per finalize: where it is, and the match it is about
    jobs,     \* cleanup jobs, by their id: one per match
    events,   \* the matches whose rounds still have their events
    stats,    \* the cached statistics of each player
    version,  \* leaderboard:version
    boards,   \* the cached leaderboards, one at most for a version
    sread,    \* per statistics request: what it has read so far
    bread,    \* per leaderboard request
    dropped,  \* ghost: the matches whose end has dropped the statistics
    bumped,   \* ghost: the matches whose end has bumped the version
    mishaps

vars == <<log, applied, final, jobs, events, stats, version, boards,
          sread, bread, dropped, bumped, mishaps>>

db     == <<log, applied, events>>
caches == <<stats, version, boards>>
reads  == <<sread, bread>>
ghosts == <<dropped, bumped>>

Ended(k)   == {log[i].match : i \in {j \in 1 .. k : log[j].kind = "end"}}
Deleted(k) == {log[i].match : i \in {j \in 1 .. k : log[j].kind = "delete"}}
Primary == Ended(Len(log))

\* The terminal rows the replica shows.
Replica == Ended(applied) \ Deleted(applied)

MatchesOf(u) == {m \in Matches : u \in PlayersOf[m]}

Nothing == [games |-> {}, taint |-> {}, behind |-> {}, full |-> FALSE]
NoRead  == [at |-> "idle", user |-> "none", got |-> Nothing]
NoBoard == [page |-> {}, behind |-> {}]
Idle    == [at |-> "idle", match |-> "none"]
NoBread == [at |-> "idle", version |-> 0, got |-> NoBoard]

Init ==
    /\ log = <<>> /\ applied = 0
    /\ final = [f \in Finalizers |-> Idle]
    /\ jobs = {} /\ events = Matches
    /\ stats = [u \in Players |-> Nothing]
    /\ version = 0
    /\ boards = {}
    /\ sread = [r \in Readers |-> NoRead]
    /\ bread = [r \in Readers |-> NoBread]
    /\ dropped = {} /\ bumped = {} /\ mishaps = 0

----------------------------------------------------------------------------
(* finalize *)

At(f, place) == final[f].at = place
Move(f, place) == final' = [final EXCEPT ![f].at = place]
Done(f) == final' = [final EXCEPT ![f] = Idle]

Terminal(m) == m \in Primary

\* The transaction on the locked row: the first call ends the match and rates
\* it, a later one finds it terminal and only plans the cleanup again.
Commit(f, m) ==
    /\ At(f, "idle")
    /\ IF Terminal(m)
       THEN /\ final' = [final EXCEPT ![f] = [at |-> "repair", match |-> m]]
            /\ UNCHANGED log
       ELSE /\ final' = [final EXCEPT ![f] = [at |-> "schedule", match |-> m]]
            /\ log' = Append(log, [kind |-> "end", match |-> m])
    /\ UNCHANGED <<applied, events, jobs, caches, reads, ghosts, mishaps>>

\* scheduleMatchCleanup: a second job of the same id is not added.
Schedule(f) ==
    /\ At(f, "schedule") \/ At(f, "repair")
    /\ jobs' = jobs \union {final[f].match}
    /\ IF At(f, "repair") THEN Done(f) ELSE Move(f, "stats")
    /\ UNCHANGED <<db, caches, reads, ghosts, mishaps>>

\* A slip: the entry of one of the two players is kept.
InvalidatedOne(m) == [stats EXCEPT ![CHOOSE u \in Players \ Watched : TRUE] = Nothing]

\* invalidateUsers deletes the entries of both players.
Invalidated(m) == [u \in Players |-> IF u \in PlayersOf[m] THEN Nothing ELSE stats[u]]

\* A request that is under way keeps what it has read: the ghost notes it.
Tainted(r, m) ==
    IF sread[r].at # "idle" /\ m \in MatchesOf(sread[r].user)
    THEN [at |-> sread[r].at, user |-> sread[r].user,
          got |-> [sread[r].got EXCEPT !.taint = @ \union {m}]]
    ELSE sread[r]

DropStats(f) ==
    LET m == final[f].match
    IN  /\ At(f, "stats")
        /\ stats' = Invalidated(m)
        /\ dropped' = dropped \union {m}
        /\ sread' = [r \in Readers |-> Tainted(r, m)]
        /\ Move(f, "bump")
        /\ UNCHANGED <<db, jobs, version, boards, bread, bumped, mishaps>>

\* Redis refuses: a warning, and the TTL is left to do it.
DropFails(f) ==
    /\ At(f, "stats") /\ mishaps < MaxMishaps
    /\ mishaps' = mishaps + 1
    /\ Move(f, "bump")
    /\ UNCHANGED <<db, jobs, caches, reads, ghosts>>

\* bumpVersion, then the publication of the end.
Bump(f) ==
    /\ At(f, "bump")
    /\ version' = version + 1
    /\ bumped' = bumped \union {final[f].match}
    /\ Done(f)
    /\ UNCHANGED <<db, jobs, stats, boards, reads, dropped, mishaps>>

BumpFails(f) ==
    /\ At(f, "bump") /\ mishaps < MaxMishaps
    /\ mishaps' = mishaps + 1
    /\ Done(f)
    /\ UNCHANGED <<db, jobs, caches, reads, ghosts>>

\* The replica dies after the commit: what is left is never done, unless the
\* end of the match is called for again.
Crash(f) ==
    /\ ~At(f, "idle") /\ mishaps < MaxMishaps
    /\ mishaps' = mishaps + 1
    /\ Done(f)
    /\ UNCHANGED <<db, jobs, caches, reads, ghosts>>

----------------------------------------------------------------------------
(* getStats: cache, aggregate and rank on the replica, cache *)

Ready(r) == sread[r].at = "idle" /\ bread[r].at = "idle"

StatsGet(r, u) ==
    /\ Ready(r) /\ ~stats[u].full
    /\ sread' = [sread EXCEPT ![r] = [at |-> "games", user |-> u, got |-> Nothing]]
    /\ UNCHANGED <<db, final, jobs, caches, bread, ghosts, mishaps>>

\* The aggregate over the player's terminal rows.
Counted(u, overtaken) ==
    [games  |-> Replica \intersect MatchesOf(u),
     taint  |-> overtaken,
     behind |-> (dropped \intersect MatchesOf(u)) \ Ended(applied),
     full   |-> TRUE]

StatsGames(r) ==
    LET u == sread[r].user
    IN  /\ sread[r].at = "games"
        /\ sread' = [sread EXCEPT ![r] =
              [at |-> "set", user |-> u, got |-> Counted(u, sread[r].got.taint)]]
        /\ UNCHANGED <<db, final, jobs, caches, bread, ghosts, mishaps>>

StatsSet(r) ==
    /\ sread[r].at = "set"
    /\ stats' = [stats EXCEPT ![sread[r].user] = sread[r].got]
    /\ sread' = [sread EXCEPT ![r] = NoRead]
    /\ UNCHANGED <<db, final, jobs, version, boards, bread, ghosts, mishaps>>

----------------------------------------------------------------------------
(* getLeaderboard: version, cache, rows, cache under that version *)

BoardVersion(r) ==
    /\ Ready(r) /\ \A e \in boards : e.version # version
    /\ bread' = [bread EXCEPT ![r] = [at |-> "page", version |-> version, got |-> NoBoard]]
    /\ UNCHANGED <<db, final, jobs, caches, sread, ghosts, mishaps>>

\* The rated users, as the replica has them.
Listed == [page |-> Ended(applied), behind |-> bumped \ Ended(applied)]

BoardPage(r) ==
    /\ bread[r].at = "page"
    /\ bread' = [bread EXCEPT ![r] =
          [at |-> "set", version |-> bread[r].version, got |-> Listed]]
    /\ UNCHANGED <<db, final, jobs, caches, sread, ghosts, mishaps>>

\* A slip: the version is read again for the key.
KeyOfLatest(r) == version

\* The key is the one of the version that was read first.
KeyOf(r) == bread[r].version

BoardSet(r) ==
    /\ bread[r].at = "set"
    /\ boards' = {e \in boards : e.version # KeyOf(r)}
                   \union {[version |-> KeyOf(r), board |-> bread[r].got]}
    /\ bread' = [bread EXCEPT ![r] = NoBread]
    /\ UNCHANGED <<db, final, jobs, stats, version, sread, ghosts, mishaps>>

----------------------------------------------------------------------------
(* Time: the replica, the entries' lives, the cleanup and the retention *)

ReplicaApplies ==
    /\ applied < Len(log)
    /\ applied' = applied + 1
    /\ UNCHANGED <<log, events, final, jobs, caches, reads, ghosts, mishaps>>

StatsLapse(u) ==
    /\ stats[u].full
    /\ stats' = [stats EXCEPT ![u] = Nothing]
    /\ UNCHANGED <<db, final, jobs, version, boards, reads, ghosts, mishaps>>

BoardLapse(e) ==
    /\ boards' = boards \ {e}
    /\ UNCHANGED <<db, final, jobs, stats, version, reads, ghosts, mishaps>>

\* The cleanup job unlinks the keys of a match that has ended: none of them is here.
Cleanup(m) ==
    /\ m \in jobs
    /\ jobs' = jobs \ {m}
    /\ UNCHANGED <<db, final, caches, reads, ghosts, mishaps>>

\* A slip: the retention does not look at the status.
OldWhateverStatus(m) == m \notin jobs

\* An ended match whose cleanup has run and whose end is settled grows old.
Old(m) == m \in Primary /\ m \notin jobs /\ \A f \in Finalizers : At(f, "idle")

\* Past the first limit the events of its rounds go ...
ClearEvents(m) ==
    /\ Old(m) /\ m \in events
    /\ events' = events \ {m}
    /\ UNCHANGED <<log, applied, final, jobs, caches, reads, ghosts, mishaps>>

\* ... and past the second, which is not the earlier one, the match does.
DeleteMatch(m) ==
    /\ Old(m) /\ m \notin events /\ m \notin Deleted(Len(log))
    /\ log' = Append(log, [kind |-> "delete", match |-> m])
    /\ UNCHANGED <<applied, events, final, jobs, caches, reads, ghosts, mishaps>>

----------------------------------------------------------------------------
Next ==
    \/ \E f \in Finalizers :
          \/ \E m \in Matches \ Deleted(Len(log)) : Commit(f, m)
          \/ Schedule(f) \/ DropStats(f) \/ DropFails(f) \/ Bump(f) \/ BumpFails(f)
          \/ Crash(f)
    \/ \E r \in Readers :
          \/ \E u \in Watched : StatsGet(r, u)
          \/ StatsGames(r) \/ StatsSet(r)
          \/ BoardVersion(r) \/ BoardPage(r) \/ BoardSet(r)
    \/ ReplicaApplies
    \/ \E u \in Players : StatsLapse(u)
    \/ \E e \in boards : BoardLapse(e)
    \/ \E m \in Matches : Cleanup(m) \/ ClearEvents(m) \/ DeleteMatch(m)

Spec == Init /\ [][Next]_vars

----------------------------------------------------------------------------
(* Properties *)

\* A match ends once in the log and is deleted once, after it has ended and
\* without events; the caches and the requests hold matches that have ended.
AftermathTypeOK ==
    /\ applied \in 0 .. Len(log)
    /\ IsInjective(log)
    /\ \A i \in DOMAIN log : log[i].kind = "delete" =>
          /\ log[i].match \notin events
          /\ \E j \in 1 .. i - 1 : log[j] = [kind |-> "end", match |-> log[i].match]
    /\ jobs \subseteq Primary /\ dropped \subseteq Primary /\ bumped \subseteq Primary
    /\ version = Cardinality(bumped)
    /\ \A u \in Players : stats[u].games \subseteq Primary \intersect MatchesOf(u)
    /\ \A e \in boards : e.board.page \subseteq Primary

\* Statistics that miss a match whose end has dropped them have one of two
\* causes: they were read from a replica that was behind, or by a request that
\* was under way when they were dropped.  An older entry never survives.
StaleStatsWereOvertaken ==
    \A u \in Players : stats[u].full =>
        (dropped \intersect MatchesOf(u)) \ Deleted(Len(log))
            \subseteq stats[u].games \union stats[u].taint \union stats[u].behind

\* The version in the key leaves the leaderboard the first cause only: a
\* request that was overtaken by the end of a match stores its page where
\* nobody looks any more.
StaleBoardsWereBehind ==
    \A e \in boards :
        e.version = version => bumped \subseteq e.board.page \union e.board.behind
=============================================================================
