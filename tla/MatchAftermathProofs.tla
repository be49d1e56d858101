------------------------ MODULE MatchAftermathProofs ------------------------
(***************************************************************************)
(* Theorems about MatchAftermath: what the caches promise for any number   *)
(* of matches, of players, of ends in progress and of readers.             *)
(***************************************************************************)
EXTENDS MatchAftermath, FiniteSetTheorems, TLAPS

-----------------------------------------------------------------------------
(* The shape of the state. *)

Commits == [kind : {"end", "delete"}, match : Matches]
Entries == [games : SUBSET Matches, taint : SUBSET Matches,
            behind : SUBSET Matches, full : BOOLEAN]
Boards  == [page : SUBSET Matches, behind : SUBSET Matches]

ShapeOK ==
    /\ log \in Seq(Commits)
    /\ applied \in Nat /\ applied <= Len(log)
    /\ final \in [Finalizers -> [at : {"idle", "repair", "schedule", "stats", "bump"},
                                 match : Matches \union {"none"}]]
    /\ \A f \in Finalizers : final[f].at # "idle" => final[f].match \in Matches
    /\ dropped \subseteq Matches /\ bumped \subseteq Matches
    /\ version \in Nat
    /\ stats \in [Players -> Entries]
    /\ sread \in [Readers -> [at : {"idle", "games", "set"},
                              user : Players \union {"none"}, got : Entries]]
    /\ \A r \in Readers : sread[r].at # "idle" => sread[r].user \in Players
    /\ bread \in [Readers -> [at : {"idle", "page", "set"}, version : Nat, got : Boards]]
    /\ boards \in SUBSET [version : Nat, board : Boards]

\* What a prefix of the log says is a set of matches.
LEMMA PrefixShape ==
  ASSUME log \in Seq(Commits), NEW k \in Nat, k <= Len(log)
  PROVE  Ended(k) \subseteq Matches /\ Deleted(k) \subseteq Matches
<1>1. \A i \in 1 .. k : log[i] \in Commits
  OBVIOUS
<1>2. \A i \in 1 .. k : log[i].match \in Matches
  BY <1>1 DEF Commits
<1>3. QED
  BY <1>2 DEF Ended, Deleted

\* A commit leaves every prefix of the log as it was, and what the log says
\* only grows.
LEMMA PrefixStays ==
  ASSUME log \in Seq(Commits), NEW c \in Commits, log' = Append(log, c),
         NEW k \in Nat, k <= Len(log)
  PROVE  /\ Ended(k)' = Ended(k) /\ Deleted(k)' = Deleted(k)
         /\ Len(log') = Len(log) + 1
         /\ log' \in Seq(Commits)
         /\ Deleted(Len(log)) \subseteq Deleted(Len(log))'
<1>1. Len(log') = Len(log) + 1 /\ log' \in Seq(Commits)
  OBVIOUS
<1>2. \A i \in 1 .. k : log'[i] = log[i]
  OBVIOUS
<1>3. Ended(k)' = Ended(k) /\ Deleted(k)' = Deleted(k)
  BY <1>2 DEF Ended, Deleted
<1>4. \A i \in 1 .. Len(log) : log'[i] = log[i] /\ i \in 1 .. Len(log')
  BY <1>1
<1>5. Deleted(Len(log)) \subseteq Deleted(Len(log))'
  BY <1>4 DEF Deleted
<1>6. QED
  BY <1>1, <1>3, <1>5

\* In the initial state nothing has ended and nothing is cached.
LEMMA ShapeInit == Init => ShapeOK
  BY SMT DEF Init, ShapeOK, Idle, Nothing, NoRead, NoBread, NoBoard, Entries, Boards,
     Commits

\* The log only grows, by an end or by a deletion.
LEMMA ShapeAppend ==
  ASSUME ShapeOK, NEW c \in Commits, log' = Append(log, c)
  PROVE  /\ log' \in Seq(Commits) /\ Len(log') = Len(log) + 1
         /\ applied <= Len(log')
  BY SMT DEF ShapeOK

\* The steps of finalize keep the shape.
LEMMA ShapeFinalize ==
  ASSUME ShapeOK, NEW f \in Finalizers,
         \/ \E m \in Matches : Commit(f, m)
         \/ Schedule(f) \/ DropStats(f) \/ DropFails(f)
         \/ Bump(f) \/ BumpFails(f) \/ Crash(f)
  PROVE  ShapeOK'
<1>1. ASSUME NEW m \in Matches, Commit(f, m) PROVE ShapeOK'
  <2>1. final' \in [Finalizers -> [at : {"idle", "repair", "schedule", "stats", "bump"},
                                   match : Matches \union {"none"}]]
    BY <1>1, SMT DEF Commit, ShapeOK
  <2>2. ASSUME NEW g \in Finalizers PROVE final'[g].at # "idle" => final'[g].match \in Matches
    <3>1. final'[f].match = m /\ (g # f => final'[g] = final[g])
      BY <1>1 DEF Commit, ShapeOK
    <3>2. QED
      BY <3>1 DEF ShapeOK
  <2>3. log' \in Seq(Commits) /\ applied' \in Nat /\ applied' <= Len(log')
    <3>1. CASE Terminal(m)
      BY <1>1, <3>1, SMT DEF Commit, ShapeOK
    <3>2. CASE ~Terminal(m)
      <4>1. [kind |-> "end", match |-> m] \in Commits
        BY DEF Commits
      <4>2. QED
        BY <1>1, <3>2, <4>1, ShapeAppend, SMT DEF Commit, ShapeOK
    <3>3. QED
      BY <3>1, <3>2
  <2>4. QED
    <3>1. UNCHANGED <<stats, version, boards, sread, bread, dropped, bumped>>
      BY <1>1 DEF Commit, caches, reads, ghosts
    <3>2. QED
      BY <2>1, <2>2, <2>3, <3>1 DEF ShapeOK
<1>2. CASE Schedule(f)
  BY <1>2, SMT DEF Schedule, ShapeOK, Done, Move, Idle, At, db, caches, reads, ghosts
<1>3. CASE DropStats(f)
  <2>1. stats' \in [Players -> Entries]
    BY <1>3, SMT DEF DropStats, Invalidated, ShapeOK, Nothing, Entries
  <2>2. final[f].match \in Matches
    BY <1>3 DEF DropStats, ShapeOK, At
  <2>3. ASSUME NEW r \in Readers
        PROVE  /\ sread'[r] \in [at : {"idle", "games", "set"},
                                 user : Players \union {"none"}, got : Entries]
               /\ sread'[r].at = sread[r].at /\ sread'[r].user = sread[r].user
    <3>1. sread'[r] = Tainted(r, final[f].match)
      BY <1>3 DEF DropStats
    <3>2. sread[r] \in [at : {"idle", "games", "set"},
                        user : Players \union {"none"}, got : Entries]
      BY DEF ShapeOK
    <3> DEFINE got == [sread[r].got EXCEPT !.taint = @ \union {final[f].match}]
    <3>3. got \in Entries
      BY <3>2, <2>2 DEF Entries
    <3>4. sread'[r] = sread[r]
          \/ sread'[r] = [at |-> sread[r].at, user |-> sread[r].user, got |-> got]
      BY <3>1 DEF Tainted
    <3> HIDE DEF got
    <3>5. QED
      BY <3>2, <3>3, <3>4, SMT
  <2>4. QED
    BY <1>3, <2>1, <2>2, <2>3, SMT DEF DropStats, ShapeOK, Move, db
<1>4. CASE DropFails(f)
  BY <1>4, SMT DEF DropFails, ShapeOK, Move, At, db, caches, reads, ghosts
<1>5. CASE Bump(f)
  BY <1>5, SMT DEF Bump, ShapeOK, Done, Idle, At, db, reads
<1>6. CASE BumpFails(f)
  BY <1>6, SMT DEF BumpFails, ShapeOK, Done, Idle, At, db, caches, reads, ghosts
<1>7. CASE Crash(f)
  BY <1>7, SMT DEF Crash, ShapeOK, Done, Idle, At, db, caches, reads, ghosts
<1>8. QED
  BY <1>1, <1>2, <1>3, <1>4, <1>5, <1>6, <1>7

\* So do the steps of a request.
LEMMA ShapeReader ==
  ASSUME ShapeOK, NEW r \in Readers,
         \/ \E u \in Players : StatsGet(r, u)
         \/ StatsGames(r) \/ StatsSet(r)
         \/ BoardVersion(r) \/ BoardPage(r) \/ BoardSet(r)
  PROVE  ShapeOK'
<1>0. applied \in 0 .. Len(log) /\ Primary \subseteq Matches /\ Replica \subseteq Matches
      /\ Ended(applied) \subseteq Matches
  BY PrefixShape, SMT DEF ShapeOK, Primary, Replica
<1>1. ASSUME NEW u \in Players, StatsGet(r, u) PROVE ShapeOK'
  BY <1>1, SMT DEF StatsGet, ShapeOK, Nothing, Entries, db, caches, ghosts
<1>2. CASE StatsGames(r)
  <2>1. Counted(sread[r].user, sread[r].got.taint) \in Entries
    BY <1>0, SMT DEF Counted, ShapeOK, Entries
  <2>2. QED
    BY <1>2, <2>1, SMT DEF StatsGames, ShapeOK, db, caches, ghosts
<1>3. CASE StatsSet(r)
  BY <1>3, SMT DEF StatsSet, ShapeOK, NoRead, Nothing, Entries, db, ghosts
<1>4. CASE BoardVersion(r)
  BY <1>4, SMT DEF BoardVersion, ShapeOK, NoBoard, Boards, db, caches, ghosts
<1>5. CASE BoardPage(r)
  <2>1. Listed \in Boards
    BY <1>0, SMT DEF Listed, ShapeOK, Boards
  <2>2. QED
    BY <1>5, <2>1, SMT DEF BoardPage, ShapeOK, db, caches, ghosts
<1>6. CASE BoardSet(r)
  BY <1>6, SMT DEF BoardSet, KeyOf, ShapeOK, NoBread, NoBoard, Boards, db, ghosts
<1>7. QED
  BY <1>1, <1>2, <1>3, <1>4, <1>5, <1>6

\* And the steps of time.
LEMMA ShapeTime ==
  ASSUME ShapeOK,
         \/ ReplicaApplies
         \/ \E u \in Players : StatsLapse(u)
         \/ \E e \in boards : BoardLapse(e)
         \/ \E m \in Matches : Cleanup(m) \/ ClearEvents(m) \/ DeleteMatch(m)
  PROVE  ShapeOK'
<1>1. CASE ReplicaApplies
  BY <1>1, SMT DEF ReplicaApplies, ShapeOK, caches, reads, ghosts
<1>2. ASSUME NEW u \in Players, StatsLapse(u) PROVE ShapeOK'
  BY <1>2, SMT DEF StatsLapse, ShapeOK, Nothing, Entries, db, reads, ghosts
<1>3. ASSUME NEW e \in boards, BoardLapse(e) PROVE ShapeOK'
  BY <1>3, SMT DEF BoardLapse, ShapeOK, db, reads, ghosts
<1>4. ASSUME NEW m \in Matches, Cleanup(m) \/ ClearEvents(m) PROVE ShapeOK'
  BY <1>4, SMT DEF Cleanup, ClearEvents, ShapeOK, db, caches, reads, ghosts
<1>5. ASSUME NEW m \in Matches, DeleteMatch(m) PROVE ShapeOK'
  <2>1. [kind |-> "delete", match |-> m] \in Commits
    BY DEF Commits
  <2>2. log' \in Seq(Commits) /\ applied' \in Nat /\ applied' <= Len(log')
    BY <1>5, <2>1, ShapeAppend, SMT DEF DeleteMatch, ShapeOK
  <2>3. UNCHANGED <<final, stats, version, boards, sread, bread, dropped, bumped>>
    BY <1>5 DEF DeleteMatch, caches, reads, ghosts
  <2>4. QED
    BY <2>2, <2>3 DEF ShapeOK
<1>6. QED
  BY <1>1, <1>2, <1>3, <1>4, <1>5

\* Every step keeps the shape of the state.
LEMMA ShapeStep == ShapeOK /\ [Next]_vars => ShapeOK'
<1> SUFFICES ASSUME ShapeOK, [Next]_vars PROVE ShapeOK'
  OBVIOUS
<1>1. CASE Next
  <2> USE DEF Next
  <2>1. \A u \in Watched : u \in Players
    BY AftermathAssumption
  <2>2. QED
    BY <1>1, <2>1, ShapeFinalize, ShapeReader, ShapeTime
<1>2. CASE UNCHANGED vars
  BY <1>2 DEF vars, ShapeOK
<1>3. QED
  BY <1>1, <1>2

\* In every reachable state the log, the caches and the requests are well formed.
THEOREM ShapeHolds == Spec => []ShapeOK
<1>1. ShapeOK /\ [Next]_vars => ShapeOK'
  BY ShapeStep
<1>2. QED
  BY ShapeInit, <1>1, PTL DEF Spec

-----------------------------------------------------------------------------
(* The leaderboard: an entry under the current version, and a request that  *)
(* will write one, knows every match the version was bumped for or was read *)
(* from a replica that did not have it.                                     *)

BoardsOK ==
    /\ \A r \in Readers : bread[r].version <= version
    /\ \A r \in Readers : bread[r].at = "set" /\ bread[r].version = version =>
          bumped \subseteq bread[r].got.page \union bread[r].got.behind
    /\ \A e \in boards : e.version <= version
    /\ StaleBoardsWereBehind

LEMMA BoardsInit == Init => BoardsOK
  BY SMT DEF Init, BoardsOK, StaleBoardsWereBehind, NoBread

\* Bumping the version puts every entry and every request in the past.
LEMMA BoardsBump ==
  ASSUME ShapeOK, BoardsOK, NEW f \in Finalizers, Bump(f)
  PROVE  BoardsOK'
<1>1. version' = version + 1 /\ boards' = boards /\ bread' = bread
  BY DEF Bump, reads
<1>2. \A r \in Readers : bread[r].version < version'
  BY <1>1, SMT DEF ShapeOK, BoardsOK
<1>3. \A e \in boards : e.version < version'
  BY <1>1, SMT DEF ShapeOK, BoardsOK
<1>4. QED
  BY <1>1, <1>2, <1>3, SMT DEF ShapeOK, BoardsOK, StaleBoardsWereBehind

LEMMA BoardsReader ==
  ASSUME ShapeOK, BoardsOK, NEW r \in Readers,
         BoardVersion(r) \/ BoardPage(r) \/ BoardSet(r)
  PROVE  BoardsOK'
<1>1. CASE BoardVersion(r)
  <2>1. version' = version /\ bumped' = bumped /\ boards' = boards
    BY <1>1 DEF BoardVersion, caches, ghosts
  <2>2. bread' = [bread EXCEPT ![r] = [at |-> "page", version |-> version, got |-> NoBoard]]
    BY <1>1 DEF BoardVersion
  <2>3. QED
    BY <2>1, <2>2, SMT DEF ShapeOK, BoardsOK, StaleBoardsWereBehind
<1>2. CASE BoardPage(r)
  <2>1. version' = version /\ bumped' = bumped /\ boards' = boards
    BY <1>2 DEF BoardPage, caches, ghosts
  <2>2. bread' = [bread EXCEPT ![r] =
                    [at |-> "set", version |-> bread[r].version, got |-> Listed]]
    BY <1>2 DEF BoardPage
  <2>3. bumped \subseteq Listed.page \union Listed.behind
    BY DEF Listed
  <2> HIDE DEF Listed
  <2>4. QED
    BY <2>1, <2>2, <2>3, SMT DEF ShapeOK, BoardsOK, StaleBoardsWereBehind
<1>3. CASE BoardSet(r)
  <2> DEFINE new == [version |-> bread[r].version, board |-> bread[r].got]
  <2>1. version' = version /\ bumped' = bumped
    BY <1>3 DEF BoardSet, ghosts
  <2>2. bread' = [bread EXCEPT ![r] = NoBread] /\ bread[r].at = "set"
    BY <1>3 DEF BoardSet
  <2>3. \A e \in boards' : e \in boards \/ e = new
    BY <1>3 DEF BoardSet, KeyOf
  <2>4. \A e \in boards' : e.version <= version'
    BY <2>1, <2>3 DEF BoardsOK
  <2>5. StaleBoardsWereBehind'
    BY <2>1, <2>2, <2>3 DEF BoardsOK, StaleBoardsWereBehind
  <2>6. QED
    BY <2>1, <2>2, <2>4, <2>5, SMT DEF ShapeOK, BoardsOK, NoBread
<1>4. QED
  BY <1>1, <1>2, <1>3

\* Nothing else writes what BoardsOK reads, except that entries lapse.
LEMMA BoardsOther ==
  ASSUME BoardsOK, UNCHANGED <<version, bread, bumped>>, boards' \subseteq boards
  PROVE  BoardsOK'
  BY DEF BoardsOK, StaleBoardsWereBehind

LEMMA BoardsStep == ShapeOK /\ BoardsOK /\ [Next]_vars => BoardsOK'
<1> SUFFICES ASSUME ShapeOK, BoardsOK, [Next]_vars PROVE BoardsOK'
  OBVIOUS
<1>1. ASSUME NEW f \in Finalizers,
             (\E m \in Matches : Commit(f, m)) \/ Schedule(f) \/ DropStats(f)
             \/ DropFails(f) \/ BumpFails(f) \/ Crash(f)
      PROVE  BoardsOK'
  BY <1>1, BoardsOther DEF Commit, Schedule, DropStats, DropFails, BumpFails, Crash,
     caches, reads, ghosts
<1>2. ASSUME NEW r \in Readers,
             (\E u \in Watched : StatsGet(r, u)) \/ StatsGames(r) \/ StatsSet(r)
      PROVE  BoardsOK'
  BY <1>2, BoardsOther DEF StatsGet, StatsGames, StatsSet, caches, ghosts
<1>3. ASSUME \/ ReplicaApplies
             \/ \E u \in Players : StatsLapse(u)
             \/ \E e \in boards : BoardLapse(e)
             \/ \E m \in Matches : Cleanup(m) \/ ClearEvents(m) \/ DeleteMatch(m)
      PROVE  BoardsOK'
  BY <1>3, BoardsOther DEF ReplicaApplies, StatsLapse, BoardLapse, Cleanup, ClearEvents,
     DeleteMatch, caches, reads, ghosts
<1>4. CASE UNCHANGED vars
  BY <1>4, BoardsOther DEF vars
<1>5. QED
  BY <1>1, <1>2, <1>3, <1>4, BoardsBump, BoardsReader DEF Next

\* A leaderboard found under the current version lacks a match whose end has
\* bumped the version only if the replica lacked it too.
THEOREM BoardsAreCurrent == Spec => []StaleBoardsWereBehind
<1>1. Init => ShapeOK /\ BoardsOK
  BY ShapeInit, BoardsInit
<1>2. ShapeOK /\ BoardsOK /\ [Next]_vars => (ShapeOK /\ BoardsOK)'
  BY ShapeStep, BoardsStep
<1>3. BoardsOK => StaleBoardsWereBehind
  BY DEF BoardsOK
<1>4. QED
  BY <1>1, <1>2, <1>3, PTL DEF Spec

-----------------------------------------------------------------------------
(* The statistics: an entry, and a request about to write one, knows every  *)
(* match whose end has dropped the player's entries, was overtaken by that  *)
(* drop, or was read from a replica that did not have the match.            *)

Complete(u, entry) ==
    (dropped \intersect MatchesOf(u)) \ Deleted(Len(log))
        \subseteq entry.games \union entry.taint \union entry.behind

StatsOK ==
    /\ \A r \in Readers : sread[r].at = "set" => Complete(sread[r].user, sread[r].got)
    /\ \A u \in Players : stats[u].full => Complete(u, stats[u])

LEMMA StatsInit == Init => StatsOK
  BY SMT DEF Init, StatsOK, NoRead, Nothing

\* A step leaves the log or adds one commit to it.
LEMMA LogGrows ==
  ASSUME [Next]_vars
  PROVE  log' = log \/ \E c \in Commits : log' = Append(log, c)
<1>1. ASSUME NEW m \in Matches, NEW f \in Finalizers, Commit(f, m)
      PROVE  log' = log \/ \E c \in Commits : log' = Append(log, c)
  BY <1>1 DEF Commit, Commits
<1>2. ASSUME NEW m \in Matches, DeleteMatch(m)
      PROVE  log' = log \/ \E c \in Commits : log' = Append(log, c)
  BY <1>2 DEF DeleteMatch, Commits
<1>3. ASSUME NEW f \in Finalizers, Schedule(f) \/ DropStats(f) \/ DropFails(f)
                                   \/ Bump(f) \/ BumpFails(f) \/ Crash(f)
      PROVE  log' = log
  BY <1>3 DEF Schedule, DropStats, DropFails, Bump, BumpFails, Crash, db
<1>4. ASSUME NEW r \in Readers, (\E u \in Watched : StatsGet(r, u)) \/ StatsGames(r)
                \/ StatsSet(r) \/ BoardVersion(r) \/ BoardPage(r) \/ BoardSet(r)
      PROVE  log' = log
  BY <1>4 DEF StatsGet, StatsGames, StatsSet, BoardVersion, BoardPage, BoardSet, db
<1>5. ASSUME \/ ReplicaApplies
             \/ \E u \in Players : StatsLapse(u)
             \/ \E e \in boards : BoardLapse(e)
             \/ \E m \in Matches : Cleanup(m) \/ ClearEvents(m)
      PROVE  log' = log
  BY <1>5 DEF ReplicaApplies, StatsLapse, BoardLapse, Cleanup, ClearEvents, db
<1>6. CASE UNCHANGED vars
  BY <1>6 DEF vars
<1>7. QED
  BY <1>1, <1>2, <1>3, <1>4, <1>5, <1>6 DEF Next

\* What has been deleted stays deleted: a commit completes no entry less.
LEMMA DeletedGrows ==
  ASSUME ShapeOK, [Next]_vars
  PROVE  Deleted(Len(log)) \subseteq Deleted(Len(log))'
<1>1. CASE log' = log
  BY <1>1 DEF Deleted
<1>2. ASSUME NEW c \in Commits, log' = Append(log, c)
      PROVE  Deleted(Len(log)) \subseteq Deleted(Len(log))'
  BY <1>2, PrefixStays, SMT DEF ShapeOK
<1>3. QED
  BY <1>1, <1>2, LogGrows

\* The drop itself: the entries of both players go, the requests are tainted.
LEMMA StatsDrop ==
  ASSUME ShapeOK, StatsOK, NEW f \in Finalizers, DropStats(f)
  PROVE  StatsOK'
<1> DEFINE m == final[f].match
<1>1. dropped' = dropped \union {m} /\ log' = log
  BY DEF DropStats, db
<1>2. \A u \in Players : stats'[u] = IF u \in PlayersOf[m] THEN Nothing ELSE stats[u]
  BY DEF DropStats, Invalidated
<1>3. \A r \in Readers : sread'[r] = Tainted(r, m)
  BY DEF DropStats
<1>4. m \in Matches
  BY DEF DropStats, ShapeOK, At
<1> HIDE DEF m
<1>5. ASSUME NEW r \in Readers, sread'[r].at = "set"
      PROVE  Complete(sread[r].user, sread[r].got)'
  <2> DEFINE tainted == [at |-> sread[r].at, user |-> sread[r].user,
                         got |-> [sread[r].got EXCEPT !.taint = @ \union {m}]]
  <2>0. sread'[r] = IF sread[r].at # "idle" /\ m \in MatchesOf(sread[r].user)
                    THEN tainted ELSE sread[r]
    BY <1>3 DEF Tainted
  <2>a. tainted.at = sread[r].at /\ tainted.user = sread[r].user
    OBVIOUS
  <2>b. /\ tainted.got.games = sread[r].got.games
        /\ tainted.got.behind = sread[r].got.behind
        /\ tainted.got.taint = sread[r].got.taint \union {m}
    <3>1. sread[r].got \in Entries
      BY SMT DEF ShapeOK
    <3>2. QED
      BY <3>1 DEF Entries
  <2> HIDE DEF tainted
  <2>1. sread[r].at = "set" /\ sread'[r].user = sread[r].user
    BY <2>0, <2>a, <1>5
  <2>2. Complete(sread[r].user, sread[r].got)
    BY <2>1 DEF StatsOK
  <2>3. /\ sread'[r].got.games = sread[r].got.games
        /\ sread'[r].got.behind = sread[r].got.behind
        /\ sread[r].got.taint \subseteq sread'[r].got.taint
        /\ m \in MatchesOf(sread[r].user) => m \in sread'[r].got.taint
    BY <2>0, <2>1, <2>b
  <2>4. QED
    BY <1>1, <2>1, <2>2, <2>3 DEF Complete, Deleted, MatchesOf
<1>6. ASSUME NEW u \in Players, stats'[u].full PROVE Complete(u, stats[u])'
  <2>1. u \notin PlayersOf[m] /\ stats'[u] = stats[u]
    BY <1>2, <1>6 DEF Nothing
  <2>2. Complete(u, stats[u])
    BY <1>6, <2>1 DEF StatsOK
  <2>3. QED
    BY <1>1, <2>1, <2>2 DEF Complete, Deleted, MatchesOf
<1>7. QED
  BY <1>5, <1>6 DEF StatsOK

\* A request counts what the replica shows and notes what it does not have.
LEMMA StatsReader ==
  ASSUME ShapeOK, StatsOK, NEW r \in Readers,
         (\E u \in Watched : StatsGet(r, u)) \/ StatsGames(r) \/ StatsSet(r)
  PROVE  StatsOK'
<1>0. log' = log /\ dropped' = dropped
  BY DEF StatsGet, StatsGames, StatsSet, db, ghosts
<1>1. ASSUME NEW u \in Watched, StatsGet(r, u) PROVE StatsOK'
  <2>1. stats' = stats
    BY <1>1 DEF StatsGet, caches
  <2>2. sread' = [sread EXCEPT ![r] = [at |-> "games", user |-> u, got |-> Nothing]]
    BY <1>1 DEF StatsGet
  <2>3. QED
    BY <1>0, <2>1, <2>2 DEF StatsOK, Complete, Deleted, MatchesOf, ShapeOK
<1>2. CASE StatsGames(r)
  <2> DEFINE u == sread[r].user
             got == Counted(u, sread[r].got.taint)
  <2>1. stats' = stats
    BY <1>2 DEF StatsGames, caches
  <2>2. sread' = [sread EXCEPT ![r] = [at |-> "set", user |-> u, got |-> got]]
    BY <1>2 DEF StatsGames
  <2>3. Deleted(applied) \subseteq Deleted(Len(log))
    <3>1. \A i \in 1 .. applied : i \in 1 .. Len(log)
      BY SMT DEF ShapeOK
    <3>2. QED
      BY <3>1 DEF Deleted
  <2>4. Complete(u, got)
    BY <2>3 DEF Complete, Counted, Replica
  <2> HIDE DEF got, u
  <2>5. ASSUME NEW q \in Readers, sread'[q].at = "set"
        PROVE  Complete(sread[q].user, sread[q].got)'
    <3>1. CASE q = r
      <4>1. sread'[q].user = u /\ sread'[q].got = got
        BY <2>2, <3>1 DEF ShapeOK
      <4>2. QED
        BY <1>0, <2>4, <4>1 DEF Complete, Deleted, MatchesOf
    <3>2. CASE q # r
      <4>1. sread'[q] = sread[q]
        BY <2>2, <3>2 DEF ShapeOK
      <4>2. Complete(sread[q].user, sread[q].got)
        BY <2>5, <4>1 DEF StatsOK
      <4>3. QED
        BY <1>0, <4>1, <4>2 DEF Complete, Deleted, MatchesOf
    <3>3. QED
      BY <3>1, <3>2
  <2>6. QED
    BY <1>0, <2>1, <2>5 DEF StatsOK, Complete, Deleted, MatchesOf
<1>3. CASE StatsSet(r)
  <2>1. stats' = [stats EXCEPT ![sread[r].user] = sread[r].got]
        /\ sread' = [sread EXCEPT ![r] = NoRead] /\ sread[r].at = "set"
    BY <1>3 DEF StatsSet
  <2>2. Complete(sread[r].user, sread[r].got)
    BY <2>1 DEF StatsOK
  <2>3. ASSUME NEW u \in Players, stats'[u].full PROVE Complete(u, stats[u])'
    <3>1. stats'[u] = stats[u] \/ (u = sread[r].user /\ stats'[u] = sread[r].got)
      BY <2>1 DEF ShapeOK
    <3>2. Complete(u, stats'[u])
      BY <2>2, <2>3, <3>1 DEF StatsOK
    <3>3. QED
      BY <1>0, <3>2 DEF Complete, Deleted, MatchesOf
  <2>4. ASSUME NEW q \in Readers, sread'[q].at = "set"
        PROVE  Complete(sread[q].user, sread[q].got)'
    <3>1. sread'[q] = sread[q]
      BY <2>1, <2>4 DEF ShapeOK, NoRead
    <3>2. Complete(sread[q].user, sread[q].got)
      BY <2>4, <3>1 DEF StatsOK
    <3>3. QED
      BY <1>0, <3>1, <3>2 DEF Complete, Deleted, MatchesOf
  <2>5. QED
    BY <2>3, <2>4 DEF StatsOK
<1>4. QED
  BY <1>1, <1>2, <1>3

\* The other steps at most delete a match or let an entry lapse.
LEMMA StatsOther ==
  ASSUME StatsOK, UNCHANGED <<sread, dropped>>,
         Deleted(Len(log)) \subseteq Deleted(Len(log))',
         \A u \in Players : stats'[u] = stats[u] \/ stats'[u] = Nothing
  PROVE  StatsOK'
<1>1. ASSUME NEW u \in Players, stats'[u].full PROVE Complete(u, stats[u])'
  <2>1. stats'[u] = stats[u] /\ Complete(u, stats[u])
    BY <1>1 DEF Nothing, StatsOK
  <2>2. QED
    BY <2>1 DEF Complete, MatchesOf
<1>2. ASSUME NEW q \in Readers, sread'[q].at = "set"
      PROVE  Complete(sread[q].user, sread[q].got)'
  <2>1. Complete(sread[q].user, sread[q].got)
    BY <1>2 DEF StatsOK
  <2>2. QED
    BY <2>1 DEF Complete, MatchesOf
<1>3. QED
  BY <1>1, <1>2 DEF StatsOK

LEMMA StatsStep == ShapeOK /\ StatsOK /\ [Next]_vars => StatsOK'
<1> SUFFICES ASSUME ShapeOK, StatsOK, [Next]_vars PROVE StatsOK'
  OBVIOUS
<1>0. Deleted(Len(log)) \subseteq Deleted(Len(log))'
  BY DeletedGrows
<1>1. ASSUME NEW f \in Finalizers,
             (\E m \in Matches : Commit(f, m)) \/ Schedule(f) \/ DropFails(f)
             \/ Bump(f) \/ BumpFails(f) \/ Crash(f)
      PROVE  StatsOK'
  BY <1>0, <1>1, StatsOther DEF Commit, Schedule, DropFails, Bump, BumpFails, Crash,
     caches, reads, ghosts
<1>2. ASSUME NEW r \in Readers, BoardVersion(r) \/ BoardPage(r) \/ BoardSet(r)
      PROVE  StatsOK'
  BY <1>0, <1>2, StatsOther DEF BoardVersion, BoardPage, BoardSet, caches, ghosts
<1>3. ASSUME NEW u \in Players, StatsLapse(u) PROVE StatsOK'
  <2>1. \A v \in Players : stats'[v] = stats[v] \/ stats'[v] = Nothing
    BY <1>3 DEF StatsLapse, ShapeOK
  <2>2. QED
    BY <1>0, <1>3, <2>1, StatsOther DEF StatsLapse, reads, ghosts
<1>4. ASSUME \/ ReplicaApplies
             \/ \E e \in boards : BoardLapse(e)
             \/ \E m \in Matches : Cleanup(m) \/ ClearEvents(m) \/ DeleteMatch(m)
      PROVE  StatsOK'
  BY <1>0, <1>4, StatsOther DEF ReplicaApplies, BoardLapse, Cleanup, ClearEvents,
     DeleteMatch, caches, reads, ghosts
<1>5. CASE UNCHANGED vars
  BY <1>0, <1>5, StatsOther DEF vars
<1>6. QED
  BY <1>1, <1>2, <1>3, <1>4, <1>5, StatsDrop, StatsReader DEF Next

\* Cached statistics lack a match whose end has dropped them only if the
\* replica lacked it, or if the request was under way at the drop.
THEOREM StatsAreCurrent == Spec => []StaleStatsWereOvertaken
<1>1. Init => ShapeOK /\ StatsOK
  BY ShapeInit, StatsInit
<1>2. ShapeOK /\ StatsOK /\ [Next]_vars => (ShapeOK /\ StatsOK)'
  BY ShapeStep, StatsStep
<1>3. StatsOK => StaleStatsWereOvertaken
  BY DEF StatsOK, StaleStatsWereOvertaken, Complete
<1>4. QED
  BY <1>1, <1>2, <1>3, PTL DEF Spec
-----------------------------------------------------------------------------
(* The log and those who write it: a match ends once, since the row is      *)
(* locked, and only the call that ended it goes on to drop and to bump.     *)

Owner(f) == final[f].at \in {"schedule", "stats", "bump"}

LogOK ==
    /\ IsInjective(log)
    /\ \A i \in DOMAIN log : log[i].kind = "delete" =>
          /\ log[i].match \notin events
          /\ \E j \in 1 .. i - 1 : log[j] = [kind |-> "end", match |-> log[i].match]

OwnersOK ==
    /\ \A f \in Finalizers : final[f].at # "idle" => final[f].match \in Primary
    /\ \A f \in Finalizers : Owner(f) => final[f].match \notin bumped
    /\ \A f, g \in Finalizers :
          Owner(f) /\ Owner(g) /\ final[f].match = final[g].match => f = g
    /\ jobs \subseteq Primary /\ dropped \subseteq Primary /\ bumped \subseteq Primary
    /\ IsFiniteSet(bumped) /\ version = Cardinality(bumped)

EntriesOK ==
    /\ \A u \in Players : stats[u].games \subseteq Primary \intersect MatchesOf(u)
    /\ \A r \in Readers : sread[r].at # "idle" =>
          sread[r].got.games \subseteq Primary \intersect MatchesOf(sread[r].user)
    /\ \A e \in boards : e.board.page \subseteq Primary
    /\ \A r \in Readers : bread[r].at # "idle" => bread[r].got.page \subseteq Primary

\* The match of a new commit.
LEMMA PrimaryGrows ==
  ASSUME log \in Seq(Commits), NEW c \in Commits, log' = Append(log, c)
  PROVE  /\ Primary \subseteq Primary'
         /\ c.kind = "end" => c.match \in Primary'
<1>1. Len(log') = Len(log) + 1 /\ log'[Len(log) + 1] = c
  OBVIOUS
<1>2. \A i \in 1 .. Len(log) : log'[i] = log[i] /\ i \in 1 .. Len(log')
  BY <1>1
<1>3. Primary \subseteq Primary'
  BY <1>2 DEF Primary, Ended
<1>4. Len(log) + 1 \in 1 .. Len(log')
  BY <1>1
<1>5. c.kind = "end" => c.match \in Primary'
  BY <1>1, <1>4 DEF Primary, Ended
<1>6. QED
  BY <1>3, <1>5

LEMMA PrimaryOnlyGrows ==
  ASSUME ShapeOK, [Next]_vars
  PROVE  Primary \subseteq Primary'
<1>1. CASE log' = log
  BY <1>1 DEF Primary, Ended
<1>2. ASSUME NEW c \in Commits, log' = Append(log, c) PROVE Primary \subseteq Primary'
  BY <1>2, PrimaryGrows DEF ShapeOK
<1>3. QED
  BY <1>1, <1>2, LogGrows

\* A commit that is new to the log, and a deletion only after the end.
LEMMA LogAppend ==
  ASSUME ShapeOK, LogOK, NEW c \in Commits, log' = Append(log, c), events' = events,
         \A i \in 1 .. Len(log) : log[i] # c,
         c.kind = "delete" =>
            /\ c.match \notin events
            /\ \E j \in 1 .. Len(log) : log[j] = [kind |-> "end", match |-> c.match]
  PROVE  LogOK'
<1> DEFINE n == Len(log) + 1
<1>1. log \in Seq(Commits) /\ Len(log) \in Nat
  BY DEF ShapeOK
<1>2. DOMAIN log = 1 .. Len(log) /\ DOMAIN log' = 1 .. n
  BY <1>1
<1>3. log'[n] = c /\ \A i \in 1 .. Len(log) : log'[i] = log[i]
  BY <1>1
<1>4. IsInjective(log')
  <2>1. SUFFICES ASSUME NEW i \in 1 .. n, NEW j \in 1 .. n, log'[i] = log'[j]
                 PROVE  i = j
    BY <1>2 DEF IsInjective
  <2>2. CASE i = n \/ j = n
    <3>1. i \in 1 .. Len(log) => log'[i] # c
      BY <1>3
    <3>2. j \in 1 .. Len(log) => log'[j] # c
      BY <1>3
    <3>3. i \in 1 .. Len(log) \/ i = n
      BY <1>1
    <3>4. j \in 1 .. Len(log) \/ j = n
      BY <1>1
    <3> HIDE DEF n
    <3>5. QED
      BY <1>3, <2>1, <2>2, <3>1, <3>2, <3>3, <3>4
  <2>3. CASE i # n /\ j # n
    <3>1. i \in 1 .. Len(log) /\ j \in 1 .. Len(log)
      BY <1>1, <2>3
    <3>2. QED
      BY <1>2, <1>3, <2>1, <3>1 DEF LogOK, IsInjective
  <2>4. QED
    BY <2>2, <2>3
<1>5. ASSUME NEW i \in 1 .. n, log'[i].kind = "delete"
      PROVE  /\ log'[i].match \notin events'
             /\ \E j \in 1 .. i - 1 : log'[j] = [kind |-> "end", match |-> log'[i].match]
  <2>1. CASE i = n
    <3>1. log'[i] = c /\ i - 1 = Len(log)
      BY <1>1, <1>3, <2>1
    <3>2. c.match \notin events
          /\ \E j \in 1 .. Len(log) : log[j] = [kind |-> "end", match |-> c.match]
      BY <1>5, <3>1
    <3>3. QED
      BY <1>3, <3>1, <3>2
  <2>2. CASE i # n
    <3>1. i \in 1 .. Len(log) /\ log'[i] = log[i]
      BY <1>1, <1>3, <2>2
    <3>2. /\ log[i].match \notin events
          /\ \E j \in 1 .. i - 1 : log[j] = [kind |-> "end", match |-> log[i].match]
      BY <1>2, <1>5, <3>1 DEF LogOK
    <3>3. \A j \in 1 .. i - 1 : log'[j] = log[j]
      BY <1>1, <1>3, <3>1
    <3>4. QED
      BY <3>1, <3>2, <3>3
  <2>3. QED
    BY <2>1, <2>2
<1>6. QED
  BY <1>2, <1>4, <1>5 DEF LogOK

LEMMA LogStep == ShapeOK /\ LogOK /\ [Next]_vars => LogOK'
<1> SUFFICES ASSUME ShapeOK, LogOK, [Next]_vars PROVE LogOK'
  OBVIOUS
<1>1. ASSUME log' = log, events' \subseteq events PROVE LogOK'
  BY <1>1 DEF LogOK, IsInjective
<1>2. ASSUME NEW m \in Matches, NEW f \in Finalizers, Commit(f, m) PROVE LogOK'
  <2>1. events' = events
    BY <1>2 DEF Commit
  <2>2. CASE Terminal(m)
    BY <1>1, <1>2, <2>1, <2>2 DEF Commit
  <2>3. CASE ~Terminal(m)
    <3> DEFINE c == [kind |-> "end", match |-> m]
    <3>1. c \in Commits /\ c.kind = "end" /\ c.match = m
      BY DEF Commits
    <3>2. log' = Append(log, c)
      BY <1>2, <2>3 DEF Commit
    <3>3. \A i \in 1 .. Len(log) : log[i] # c
      BY <2>3, <3>1 DEF Terminal, Primary, Ended
    <3> HIDE DEF c
    <3>4. QED
      BY <2>1, <3>1, <3>2, <3>3, LogAppend
  <2>4. QED
    BY <2>2, <2>3
<1>3. ASSUME NEW m \in Matches, DeleteMatch(m) PROVE LogOK'
  <2> DEFINE c == [kind |-> "delete", match |-> m]
  <2>1. c \in Commits /\ c.kind = "delete" /\ c.match = m
    BY DEF Commits
  <2>2. log' = Append(log, c) /\ events' = events /\ m \notin events
    BY <1>3 DEF DeleteMatch
  <2>3. \A i \in 1 .. Len(log) : log[i] # c
    BY <1>3, <2>1 DEF DeleteMatch, Deleted
  <2>4. PICK j \in 1 .. Len(log) : log[j].kind = "end" /\ log[j].match = m
    BY <1>3 DEF DeleteMatch, Old, Primary, Ended
  <2>5. log[j] = [kind |-> "end", match |-> m]
    <3>1. log[j] \in Commits
      BY DEF ShapeOK
    <3>2. QED
      BY <2>4, <3>1 DEF Commits
  <2> HIDE DEF c
  <2>6. QED
    BY <2>1, <2>2, <2>3, <2>5, LogAppend
<1>4. ASSUME NEW f \in Finalizers, Schedule(f) \/ DropStats(f) \/ DropFails(f)
                                   \/ Bump(f) \/ BumpFails(f) \/ Crash(f)
      PROVE  LogOK'
  BY <1>1, <1>4 DEF Schedule, DropStats, DropFails, Bump, BumpFails, Crash, db
<1>5. ASSUME NEW r \in Readers, (\E u \in Watched : StatsGet(r, u)) \/ StatsGames(r)
                \/ StatsSet(r) \/ BoardVersion(r) \/ BoardPage(r) \/ BoardSet(r)
      PROVE  LogOK'
  BY <1>1, <1>5 DEF StatsGet, StatsGames, StatsSet, BoardVersion, BoardPage, BoardSet, db
<1>6. ASSUME \/ ReplicaApplies
             \/ \E u \in Players : StatsLapse(u)
             \/ \E e \in boards : BoardLapse(e)
             \/ \E m \in Matches : Cleanup(m) \/ ClearEvents(m)
      PROVE  LogOK'
  BY <1>1, <1>6 DEF ReplicaApplies, StatsLapse, BoardLapse, Cleanup, ClearEvents, db
<1>7. CASE UNCHANGED vars
  BY <1>1, <1>7 DEF vars
<1>8. QED
  BY <1>2, <1>3, <1>4, <1>5, <1>6, <1>7 DEF Next

\* What the owners promise does not depend on the rest, and Primary may grow.
LEMMA OwnersOther ==
  ASSUME OwnersOK, Primary \subseteq Primary',
         UNCHANGED <<final, dropped, bumped, version>>, jobs' \subseteq jobs
  PROVE  OwnersOK'
BY DEF OwnersOK, Owner

\* A call that is done or moves on in its own match, without bumping.
LEMMA OwnersMove ==
  ASSUME ShapeOK, OwnersOK, Primary \subseteq Primary', NEW f \in Finalizers,
         \E v : /\ final' = [final EXCEPT ![f] = v]
                /\ \/ v.at = "idle"
                   \/ Owner(f) /\ v.match = final[f].match,
         UNCHANGED <<bumped, version>>,
         jobs' \subseteq Primary', dropped' \subseteq Primary'
  PROVE  OwnersOK'
<1>1. PICK v : /\ final' = [final EXCEPT ![f] = v]
               /\ \/ v.at = "idle"
                  \/ Owner(f) /\ v.match = final[f].match
  OBVIOUS
<1>2. final'[f] = v /\ \A g \in Finalizers : g # f => final'[g] = final[g]
  BY <1>1 DEF ShapeOK
<1>3. \A g \in Finalizers : final'[g].at # "idle" =>
          /\ final'[g].match = final[g].match
          /\ final[g].at # "idle"
          /\ Owner(g)' => Owner(g)
  BY <1>1, <1>2 DEF Owner
<1>4. \A g \in Finalizers : Owner(g)' => final'[g].at # "idle"
  BY DEF Owner
<1>5. QED
  BY <1>3, <1>4 DEF OwnersOK

LEMMA OwnersCommit ==
  ASSUME ShapeOK, OwnersOK, Primary \subseteq Primary',
         NEW f \in Finalizers, NEW m \in Matches, Commit(f, m)
  PROVE  OwnersOK'
<1>1. UNCHANGED <<jobs, dropped, bumped, version>>
  BY DEF Commit, caches, ghosts
<1>2. CASE Terminal(m)
  <2>1. final' = [final EXCEPT ![f] = [at |-> "repair", match |-> m]]
    BY <1>2 DEF Commit
  <2>2. /\ final'[f].at = "repair" /\ final'[f].match = m
        /\ \A g \in Finalizers : g # f => final'[g] = final[g]
    BY <2>1 DEF ShapeOK
  <2>3. m \in Primary'
    BY <1>2 DEF Terminal
  <2>4. \A g \in Finalizers : Owner(g)' => g # f /\ Owner(g)
    BY <2>2 DEF Owner
  <2>5. QED
    BY <1>1, <2>2, <2>3, <2>4 DEF OwnersOK
<1>3. CASE ~Terminal(m)
  <2> DEFINE c == [kind |-> "end", match |-> m]
  <2>1. final' = [final EXCEPT ![f] = [at |-> "schedule", match |-> m]]
        /\ log' = Append(log, c)
    BY <1>3 DEF Commit
  <2>2. /\ final'[f].at = "schedule" /\ final'[f].match = m
        /\ \A g \in Finalizers : g # f => final'[g] = final[g]
    BY <2>1 DEF ShapeOK
  <2>3. m \in Primary'
    <3>1. c \in Commits /\ c.kind = "end" /\ c.match = m
      BY DEF Commits
    <3> HIDE DEF c
    <3>2. QED
      BY <2>1, <3>1, PrimaryGrows DEF ShapeOK
  <2>4. m \notin Primary
    BY <1>3 DEF Terminal
  <2>5. \A g \in Finalizers : Owner(g) => final[g].match # m
    BY <2>4 DEF OwnersOK, Owner
  <2>6. \A g \in Finalizers : g # f => (Owner(g)' <=> Owner(g))
    BY <2>2 DEF Owner
  <2>7. m \notin bumped
    BY <2>4 DEF OwnersOK
  <2>8. QED
    BY <1>1, <2>2, <2>3, <2>5, <2>6, <2>7 DEF OwnersOK
<1>4. QED
  BY <1>2, <1>3

\* The only call that may bump for a match does it once.
LEMMA OwnersBump ==
  ASSUME ShapeOK, OwnersOK, Primary \subseteq Primary', NEW f \in Finalizers, Bump(f)
  PROVE  OwnersOK'
<1> DEFINE m == final[f].match
<1>1. /\ Owner(f) /\ final[f].at # "idle"
      /\ version' = version + 1 /\ bumped' = bumped \union {m}
      /\ final' = [final EXCEPT ![f] = Idle]
      /\ UNCHANGED <<jobs, dropped>>
  BY DEF Bump, Owner, At, Done
<1>2. m \in Primary /\ m \notin bumped
  BY <1>1 DEF OwnersOK
<1>3. IsFiniteSet(bumped') /\ Cardinality(bumped') = Cardinality(bumped) + 1
  BY <1>1, <1>2, FS_AddElement DEF OwnersOK
<1>4. version' = Cardinality(bumped')
  BY <1>1, <1>3 DEF OwnersOK
<1>5. /\ final'[f].at = "idle"
      /\ \A g \in Finalizers : g # f => final'[g] = final[g]
  BY <1>1 DEF ShapeOK, Idle
<1>6. \A g \in Finalizers : Owner(g)' => g # f /\ Owner(g)
  BY <1>5 DEF Owner
<1>7. \A g \in Finalizers : Owner(g)' => final'[g].match \notin bumped'
  BY <1>1, <1>5, <1>6 DEF OwnersOK
<1>8. jobs' \subseteq Primary' /\ dropped' \subseteq Primary' /\ bumped' \subseteq Primary'
  BY <1>1, <1>2 DEF OwnersOK
<1>9. \A g \in Finalizers : final'[g].at # "idle" => final'[g].match \in Primary'
  BY <1>5 DEF OwnersOK
<1>10. \A g, h \in Finalizers :
          Owner(g)' /\ Owner(h)' /\ final'[g].match = final'[h].match => g = h
  BY <1>5, <1>6 DEF OwnersOK
<1>11. QED
  BY <1>3, <1>4, <1>7, <1>8, <1>9, <1>10 DEF OwnersOK

LEMMA OwnersStep == ShapeOK /\ OwnersOK /\ [Next]_vars => OwnersOK'
<1> SUFFICES ASSUME ShapeOK, OwnersOK, [Next]_vars PROVE OwnersOK'
  OBVIOUS
<1>0. Primary \subseteq Primary'
  BY PrimaryOnlyGrows
<1>1. ASSUME NEW f \in Finalizers, Schedule(f) PROVE OwnersOK'
  <2>1. UNCHANGED <<bumped, version, dropped>> /\ jobs' = jobs \union {final[f].match}
    BY <1>1 DEF Schedule, caches, ghosts
  <2>2. final[f].at # "idle" /\ final[f].match \in Primary
    BY <1>1 DEF Schedule, At, OwnersOK
  <2>3. jobs' \subseteq Primary' /\ dropped' \subseteq Primary'
    BY <1>0, <2>1, <2>2 DEF OwnersOK
  <2>4. CASE At(f, "repair")
    <3>1. final' = [final EXCEPT ![f] = Idle] /\ Idle.at = "idle"
      BY <1>1, <2>4 DEF Schedule, Done, Idle
    <3>2. QED
      BY <1>0, <2>1, <2>3, <3>1, OwnersMove
  <2>5. CASE ~At(f, "repair")
    <3> DEFINE v == [final[f] EXCEPT !.at = "stats"]
    <3>1. final' = [final EXCEPT ![f] = v] /\ Owner(f)
      BY <1>1, <2>5 DEF Schedule, Move, At, Owner
    <3>2. v.match = final[f].match
      BY DEF ShapeOK
    <3> HIDE DEF v
    <3>3. QED
      BY <1>0, <2>1, <2>3, <3>1, <3>2, OwnersMove
  <2>6. QED
    BY <2>4, <2>5
<1>2. ASSUME NEW f \in Finalizers, DropStats(f) \/ DropFails(f) PROVE OwnersOK'
  <2> DEFINE v == [final[f] EXCEPT !.at = "bump"]
  <2>1. UNCHANGED <<bumped, version, jobs>>
    BY <1>2 DEF DropStats, DropFails, caches, ghosts
  <2>2. final' = [final EXCEPT ![f] = v] /\ Owner(f) /\ final[f].at # "idle"
    BY <1>2 DEF DropStats, DropFails, Move, At, Owner
  <2>3. dropped' \subseteq dropped \union {final[f].match}
    BY <1>2 DEF DropStats, DropFails, ghosts
  <2>4. jobs' \subseteq Primary' /\ dropped' \subseteq Primary'
    BY <1>0, <2>1, <2>2, <2>3 DEF OwnersOK
  <2>5. v.match = final[f].match
    BY DEF ShapeOK
  <2> HIDE DEF v
  <2>6. QED
    BY <1>0, <2>1, <2>2, <2>4, <2>5, OwnersMove
<1>3. ASSUME NEW f \in Finalizers, BumpFails(f) \/ Crash(f) PROVE OwnersOK'
  <2>1. UNCHANGED <<bumped, version, jobs, dropped>>
    BY <1>3 DEF BumpFails, Crash, caches, ghosts
  <2>2. final' = [final EXCEPT ![f] = Idle] /\ Idle.at = "idle"
    BY <1>3 DEF BumpFails, Crash, Done, Idle
  <2>3. jobs' \subseteq Primary' /\ dropped' \subseteq Primary'
    BY <1>0, <2>1 DEF OwnersOK
  <2>4. QED
    BY <1>0, <2>1, <2>2, <2>3, OwnersMove
<1>4. ASSUME NEW r \in Readers, (\E u \in Watched : StatsGet(r, u)) \/ StatsGames(r)
                \/ StatsSet(r) \/ BoardVersion(r) \/ BoardPage(r) \/ BoardSet(r)
      PROVE  OwnersOK'
  BY <1>0, <1>4, OwnersOther
     DEF StatsGet, StatsGames, StatsSet, BoardVersion, BoardPage, BoardSet, caches, ghosts
<1>5. ASSUME \/ ReplicaApplies
             \/ \E u \in Players : StatsLapse(u)
             \/ \E e \in boards : BoardLapse(e)
             \/ \E m \in Matches : Cleanup(m) \/ ClearEvents(m) \/ DeleteMatch(m)
      PROVE  OwnersOK'
  BY <1>0, <1>5, OwnersOther DEF ReplicaApplies, StatsLapse, BoardLapse, Cleanup,
     ClearEvents, DeleteMatch, caches, ghosts
<1>6. CASE UNCHANGED vars
  BY <1>0, <1>6, OwnersOther DEF vars
<1>7. QED
  BY <1>0, <1>1, <1>2, <1>3, <1>4, <1>5, <1>6, OwnersCommit, OwnersBump DEF Next
\* What a request reads on the replica has been committed on the primary.
LEMMA ReplicaIsBehind ==
  ASSUME ShapeOK
  PROVE  Ended(applied) \subseteq Primary /\ Replica \subseteq Primary
<1>1. \A i \in 1 .. applied : i \in 1 .. Len(log)
  BY DEF ShapeOK
<1>2. Ended(applied) \subseteq Primary
  BY <1>1 DEF Primary, Ended
<1>3. QED
  BY <1>2 DEF Replica

\* Entries and requests that come from the old ones.
LEMMA EntriesOther ==
  ASSUME EntriesOK, Primary \subseteq Primary',
         \A u \in Players : stats'[u].games \subseteq stats[u].games,
         \A r \in Readers : sread'[r].at # "idle" =>
            /\ sread[r].at # "idle" /\ sread'[r].user = sread[r].user
            /\ sread'[r].got.games = sread[r].got.games,
         boards' \subseteq boards,
         bread' = bread
  PROVE  EntriesOK'
<1>1. \A u : MatchesOf(u)' = MatchesOf(u)
  BY DEF MatchesOf
<1>2. \A u \in Players : stats'[u].games \subseteq Primary' \intersect MatchesOf(u)
  BY DEF EntriesOK
<1>3. \A r \in Readers : sread'[r].at # "idle" =>
         sread'[r].got.games \subseteq Primary' \intersect MatchesOf(sread'[r].user)
  BY DEF EntriesOK
<1>4. QED
  BY <1>1, <1>2, <1>3 DEF EntriesOK

LEMMA EntriesDrop ==
  ASSUME ShapeOK, EntriesOK, Primary \subseteq Primary',
         NEW f \in Finalizers, DropStats(f)
  PROVE  EntriesOK'
<1> DEFINE m == final[f].match
<1>1. ASSUME NEW u \in Players PROVE stats'[u].games \subseteq stats[u].games
  BY DEF DropStats, Invalidated, Nothing
<1>2. ASSUME NEW r \in Readers
      PROVE  /\ sread'[r].at = sread[r].at /\ sread'[r].user = sread[r].user
             /\ sread'[r].got.games = sread[r].got.games
  <2> DEFINE got == [sread[r].got EXCEPT !.taint = @ \union {m}]
  <2>1. got.games = sread[r].got.games
    BY SMT DEF ShapeOK, Entries
  <2>2. sread'[r] = sread[r]
        \/ sread'[r] = [at |-> sread[r].at, user |-> sread[r].user, got |-> got]
    BY DEF DropStats, Tainted
  <2> HIDE DEF got
  <2>3. QED
    BY <2>1, <2>2
<1>3. boards' = boards /\ bread' = bread
  BY DEF DropStats
<1>4. QED
  BY <1>1, <1>2, <1>3, EntriesOther

LEMMA EntriesReader ==
  ASSUME ShapeOK, EntriesOK, NEW r \in Readers,
         \/ \E u \in Watched : StatsGet(r, u)
         \/ StatsGames(r) \/ StatsSet(r)
         \/ BoardVersion(r) \/ BoardPage(r) \/ BoardSet(r)
  PROVE  EntriesOK'
<1>0. log' = log /\ Primary' = Primary
  BY DEF StatsGet, StatsGames, StatsSet, BoardVersion, BoardPage, BoardSet, db,
     Primary, Ended
<1>1. \A u : MatchesOf(u)' = MatchesOf(u)
  BY DEF MatchesOf
<1>2. CASE \E u \in Watched : StatsGet(r, u)
  <2>1. UNCHANGED <<stats, boards, bread>>
    BY <1>2 DEF StatsGet, caches
  <2>2. PICK u \in Watched :
          sread' = [sread EXCEPT ![r] = [at |-> "games", user |-> u, got |-> Nothing]]
    BY <1>2 DEF StatsGet
  <2>3. /\ sread'[r].got.games = {}
        /\ \A q \in Readers : q # r => sread'[q] = sread[q]
    BY <2>2 DEF ShapeOK, Nothing
  <2>4. QED
    BY <1>0, <1>1, <2>1, <2>3 DEF EntriesOK
<1>3. CASE StatsGames(r)
  <2> DEFINE u == sread[r].user
             got == Counted(u, sread[r].got.taint)
  <2>1. UNCHANGED <<stats, boards, bread>>
    BY <1>3 DEF StatsGames, caches
  <2>2. sread' = [sread EXCEPT ![r] = [at |-> "set", user |-> u, got |-> got]]
    BY <1>3 DEF StatsGames
  <2>3. got.games \subseteq Primary \intersect MatchesOf(u)
    BY ReplicaIsBehind DEF Counted
  <2> HIDE DEF got, u
  <2>4. /\ sread'[r].got = got /\ sread'[r].user = u
        /\ \A q \in Readers : q # r => sread'[q] = sread[q]
    BY <2>2 DEF ShapeOK
  <2>5. QED
    BY <1>0, <1>1, <2>1, <2>3, <2>4 DEF EntriesOK
<1>4. CASE StatsSet(r)
  <2>1. UNCHANGED <<boards, bread>>
    BY <1>4 DEF StatsSet
  <2>2. /\ stats' = [stats EXCEPT ![sread[r].user] = sread[r].got]
        /\ sread' = [sread EXCEPT ![r] = NoRead] /\ sread[r].at = "set"
    BY <1>4 DEF StatsSet
  <2>3. /\ sread'[r].at = "idle"
        /\ \A q \in Readers : q # r => sread'[q] = sread[q]
    BY <2>2 DEF ShapeOK, NoRead
  <2>4. \A u \in Players : stats'[u] = stats[u]
                           \/ (u = sread[r].user /\ stats'[u] = sread[r].got)
    BY <2>2 DEF ShapeOK
  <2>5. sread[r].got.games \subseteq Primary \intersect MatchesOf(sread[r].user)
    BY <2>2 DEF EntriesOK
  <2>6. \A u \in Players : stats'[u].games \subseteq Primary \intersect MatchesOf(u)
    BY <2>4, <2>5 DEF EntriesOK
  <2>7. QED
    BY <1>0, <1>1, <2>1, <2>3, <2>6 DEF EntriesOK
<1>5. CASE BoardVersion(r)
  <2>1. UNCHANGED <<stats, boards, sread>>
    BY <1>5 DEF BoardVersion, caches
  <2>2. bread' = [bread EXCEPT ![r] =
                    [at |-> "page", version |-> version, got |-> NoBoard]]
    BY <1>5 DEF BoardVersion
  <2>3. /\ bread'[r].got.page = {}
        /\ \A q \in Readers : q # r => bread'[q] = bread[q]
    BY <2>2 DEF ShapeOK, NoBoard
  <2>4. QED
    BY <1>0, <1>1, <2>1, <2>3 DEF EntriesOK
<1>6. CASE BoardPage(r)
  <2>1. UNCHANGED <<stats, boards, sread>>
    BY <1>6 DEF BoardPage, caches
  <2>2. bread' = [bread EXCEPT ![r] =
                    [at |-> "set", version |-> bread[r].version, got |-> Listed]]
    BY <1>6 DEF BoardPage
  <2>3. Listed.page \subseteq Primary
    BY ReplicaIsBehind DEF Listed
  <2> HIDE DEF Listed
  <2>4. /\ bread'[r].got = Listed
        /\ \A q \in Readers : q # r => bread'[q] = bread[q]
    BY <2>2 DEF ShapeOK
  <2>5. QED
    BY <1>0, <1>1, <2>1, <2>3, <2>4 DEF EntriesOK
<1>7. CASE BoardSet(r)
  <2> DEFINE new == [version |-> bread[r].version, board |-> bread[r].got]
  <2>1. UNCHANGED <<stats, sread>>
    BY <1>7 DEF BoardSet
  <2>2. bread' = [bread EXCEPT ![r] = NoBread] /\ bread[r].at = "set"
    BY <1>7 DEF BoardSet
  <2>3. \A e \in boards' : e \in boards \/ e = new
    BY <1>7 DEF BoardSet, KeyOf
  <2>4. /\ bread'[r].at = "idle"
        /\ \A q \in Readers : q # r => bread'[q] = bread[q]
    BY <2>2 DEF ShapeOK, NoBread
  <2>5. new.board.page \subseteq Primary
    BY <2>2 DEF EntriesOK
  <2>6. QED
    BY <1>0, <1>1, <2>1, <2>3, <2>4, <2>5 DEF EntriesOK
<1>8. QED
  BY <1>2, <1>3, <1>4, <1>5, <1>6, <1>7

LEMMA EntriesStep == ShapeOK /\ EntriesOK /\ [Next]_vars => EntriesOK'
<1> SUFFICES ASSUME ShapeOK, EntriesOK, [Next]_vars PROVE EntriesOK'
  OBVIOUS
<1>0. Primary \subseteq Primary'
  BY PrimaryOnlyGrows
<1>1. ASSUME UNCHANGED <<stats, sread, bread>>, boards' \subseteq boards
      PROVE  EntriesOK'
  BY <1>0, <1>1, EntriesOther
<1>2. ASSUME NEW f \in Finalizers,
             (\E m \in Matches : Commit(f, m)) \/ Schedule(f) \/ DropFails(f)
             \/ Bump(f) \/ BumpFails(f) \/ Crash(f)
      PROVE  EntriesOK'
  BY <1>1, <1>2 DEF Commit, Schedule, DropFails, Bump, BumpFails, Crash, caches, reads
<1>3. ASSUME \/ ReplicaApplies
             \/ \E e \in boards : BoardLapse(e)
             \/ \E m \in Matches : Cleanup(m) \/ ClearEvents(m) \/ DeleteMatch(m)
      PROVE  EntriesOK'
  BY <1>1, <1>3 DEF ReplicaApplies, BoardLapse, Cleanup, ClearEvents, DeleteMatch,
     caches, reads
<1>4. ASSUME NEW u \in Players, StatsLapse(u) PROVE EntriesOK'
  <2>1. \A v \in Players : stats'[v].games \subseteq stats[v].games
    BY <1>4 DEF StatsLapse, ShapeOK, Nothing
  <2>2. UNCHANGED <<sread, bread, boards>>
    BY <1>4 DEF StatsLapse, reads
  <2>3. QED
    BY <1>0, <2>1, <2>2, EntriesOther
<1>5. CASE UNCHANGED vars
  BY <1>1, <1>5 DEF vars
<1>6. QED
  BY <1>0, <1>2, <1>3, <1>4, <1>5, EntriesDrop, EntriesReader DEF Next

LEMMA AftermathInit == Init => LogOK /\ OwnersOK /\ EntriesOK
<1> SUFFICES ASSUME Init PROVE LogOK /\ OwnersOK /\ EntriesOK
  OBVIOUS
<1>1. log = <<>> /\ DOMAIN log = {}
  BY DEF Init
<1>2. LogOK
  BY <1>1 DEF LogOK, IsInjective
<1>3. OwnersOK
  <2>1. \A f \in Finalizers : final[f].at = "idle"
    BY DEF Init, Idle
  <2>2. IsFiniteSet({}) /\ Cardinality({}) = 0
    BY FS_EmptySet
  <2>3. QED
    BY <2>1, <2>2 DEF Init, OwnersOK, Owner
<1>4. EntriesOK
  BY DEF Init, EntriesOK, Nothing, NoRead, NoBread
<1>5. QED
  BY <1>2, <1>3, <1>4

\* However often finalize is called and wherever it stops, a match ends once,
\* is deleted once and after that; the version counts the ends that bumped it;
\* and no cache or request knows of an end the primary has not.
THEOREM AftermathTypes == Spec => []AftermathTypeOK
<1> DEFINE Inv == ShapeOK /\ LogOK /\ OwnersOK /\ EntriesOK
<1>1. Init => Inv
  BY ShapeInit, AftermathInit
<1>2. Inv /\ [Next]_vars => Inv'
  BY ShapeStep, LogStep, OwnersStep, EntriesStep
<1>3. Inv => AftermathTypeOK
  <2>1. ShapeOK => applied \in 0 .. Len(log)
    BY DEF ShapeOK
  <2>2. QED
    BY <2>1 DEF LogOK, OwnersOK, EntriesOK, AftermathTypeOK
<1>4. QED
  BY <1>1, <1>2, <1>3, PTL DEF Spec
=============================================================================
