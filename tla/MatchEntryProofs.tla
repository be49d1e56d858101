-------------------------- MODULE MatchEntryProofs --------------------------
(***************************************************************************)
(* Theorems about MatchEntry: what the queue and the rooms promise for any *)
(* number of players, rooms, requests in progress, polls and mishaps.      *)
(***************************************************************************)
EXTENDS MatchEntry, SequenceTheorems, FiniteSetTheorems, TLAPS

-----------------------------------------------------------------------------
(* The labels of a request, by what it is about.                           *)

JoinLabels   == {"joinMapping", "joinActive", "joinQueued", "joinClaim"}
LeaveLabels  == {"getLoad", "leave", "dropMapping"}
Working      == {"adoptOwner", "adoptGuest", "createRow", "serve", "abort"}
StartLabels  == {"startLoad", "handoffLoad", "handoffClaim", "done"} \union Working

Labels == {"idle"} \union CreateLabels \union JoinLabels
            \union LeaveLabels \union StartLabels

\* Those of a request that is about a room.
RoomLabels == {"createHash", "createExpire", "createMapping"} \union JoinLabels
                \union LeaveLabels \union StartLabels

\* Those at which a creation may have written its hash.
HashWritten == {"createExpire", "createMapping", "createUndo"}

-----------------------------------------------------------------------------
(* Types.                                                                  *)

Pairs   == {p \in Users \X Users : p[1] # p[2]}
Origins == {"queue"} \union Rooms
Rows    == {EndedMatch} \union
           [players : Pairs, active : {TRUE}, served : BOOLEAN, by : Origins]
Someone == Users \union {Nobody}

RoomRecord == [exists : BOOLEAN, expires : BOOLEAN,
               owner : Someone, guest : Someone,
               status : {"none", "waiting", "full", "matched"}, match : Nat]
ReqRecord  == [pc : Labels, user : Someone, room : Rooms \union {Nobody},
               owner : Someone, guest : Someone, match : Nat]
PollRecord == [pc : {"idle", "check", "create", "initialize"},
               pair : Pairs \union {<<>>}, match : Nat]

IsPoll(q) ==
    /\ q.pc \in {"check", "create"} => q.pair \in Pairs
    /\ q.pc \notin {"check", "create"} => q.pair = <<>>
    /\ q.pc = "initialize" => q.match \in 1 .. Len(matches)

QueueShape ==
    /\ queue \in Seq(Users) /\ IsInjective(queue)
    /\ matches \in Seq(Rows)
    /\ joining \subseteq Users /\ promised \subseteq Users
    /\ poll \in [Polls -> PollRecord] /\ \A t \in Polls : IsPoll(poll[t])
    /\ crashes \in Nat /\ faults \in Nat /\ slow \in Nat

-----------------------------------------------------------------------------
(* The queue and the table of matches.                                     *)

\* The players of a row.
LEMMA PairSet ==
  ASSUME NEW p \in Pairs
  PROVE  /\ p = <<p[1], p[2]>> /\ DOMAIN p = {1, 2} /\ ToSet(p) = {p[1], p[2]}
         /\ p[1] \in Users /\ p[2] \in Users /\ p[1] # p[2]
<1>1. p = <<p[1], p[2]>> /\ p[1] \in Users /\ p[2] \in Users /\ p[1] # p[2]
  BY DEF Pairs
<1>2. DOMAIN p = {1, 2}
  <2>1. DOMAIN <<p[1], p[2]>> = 1 .. 2
    OBVIOUS
  <2>2. 1 .. 2 = {1, 2}
    OBVIOUS
  <2>3. QED
    BY <1>1, <2>1, <2>2, Zenon
<1>3. ToSet(p) = {p[1], p[2]}
  BY <1>2 DEF ToSet
<1>4. QED
  BY <1>1, <1>2, <1>3

\* ZADD NX keeps the members of a queue distinct and drops nobody.
LEMMA EnqueueKeeps ==
  ASSUME NEW q \in Seq(Users), IsInjective(q), NEW u \in Users
  PROVE  /\ EnqueueNX(q, u) \in Seq(Users) /\ IsInjective(EnqueueNX(q, u))
         /\ ToSet(EnqueueNX(q, u)) = ToSet(q) \union {u}
<1>1. CASE u \in ToSet(q)
  BY <1>1 DEF EnqueueNX
<1>2. CASE u \notin ToSet(q)
  <2> DEFINE n == Len(q) + 1
  <2>1. EnqueueNX(q, u) = Append(q, u)
    BY <1>2 DEF EnqueueNX
  <2>2. /\ Append(q, u) \in Seq(Users) /\ DOMAIN Append(q, u) = 1 .. n
        /\ n \in Nat /\ DOMAIN q = 1 .. (n - 1) /\ Append(q, u)[n] = u
        /\ \A i \in 1 .. (n - 1) : Append(q, u)[i] = q[i]
    OBVIOUS
  <2>3. \A i \in 1 .. (n - 1) : q[i] # u
    BY <1>2, <2>2 DEF ToSet
  <2> HIDE DEF n
  <2>4. IsInjective(Append(q, u))
    BY <2>2, <2>3 DEF IsInjective
  <2>5. ToSet(Append(q, u)) = ToSet(q) \union {u}
    BY <2>2 DEF ToSet
  <2>6. QED
    BY <2>1, <2>2, <2>4, <2>5
<1>3. QED
  BY <1>1, <1>2

LEMMA RequeueKeeps ==
  ASSUME QueueShape, NEW p \in Pairs, NEW back
  PROVE  /\ Requeue(p, back) \in Seq(Users) /\ IsInjective(Requeue(p, back))
         /\ ToSet(Requeue(p, back)) = ToSet(queue) \union (ToSet(p) \intersect back)
<1> DEFINE q == IF p[1] \in back THEN EnqueueNX(queue, p[1]) ELSE queue
<1>1. /\ ToSet(p) = {p[1], p[2]} /\ p[1] \in Users /\ p[2] \in Users
  BY PairSet
<1>2. /\ q \in Seq(Users) /\ IsInjective(q)
      /\ ToSet(q) = ToSet(queue) \union ({p[1]} \intersect back)
  <2>1. queue \in Seq(Users) /\ IsInjective(queue)
    BY DEF QueueShape
  <2>2. /\ EnqueueNX(queue, p[1]) \in Seq(Users) /\ IsInjective(EnqueueNX(queue, p[1]))
        /\ ToSet(EnqueueNX(queue, p[1])) = ToSet(queue) \union {p[1]}
    BY <1>1, <2>1, EnqueueKeeps
  <2>3. CASE p[1] \in back
    BY <2>2, <2>3
  <2>4. CASE p[1] \notin back
    BY <2>1, <2>4
  <2>5. QED
    BY <2>3, <2>4
<1>3. Requeue(p, back) = IF p[2] \in back THEN EnqueueNX(q, p[2]) ELSE q
  BY DEF Requeue
<1> HIDE DEF q
<1>4. /\ EnqueueNX(q, p[2]) \in Seq(Users) /\ IsInjective(EnqueueNX(q, p[2]))
      /\ ToSet(EnqueueNX(q, p[2])) = ToSet(q) \union {p[2]}
  BY <1>1, <1>2, EnqueueKeeps
<1>5. CASE p[2] \in back
  BY <1>1, <1>2, <1>3, <1>4, <1>5
<1>6. CASE p[2] \notin back
  BY <1>1, <1>2, <1>3, <1>6
<1>7. QED
  BY <1>5, <1>6

\* ZREM takes one member out and leaves the others.
LEMMA LeaveKeeps ==
  ASSUME NEW q \in Seq(Users), IsInjective(q), NEW i \in DOMAIN q
  PROVE  /\ RemoveAt(q, i) \in Seq(Users) /\ IsInjective(RemoveAt(q, i))
         /\ ToSet(RemoveAt(q, i)) = ToSet(q) \ {q[i]}
<1> DEFINE n == Len(q)  rest == RemoveAt(q, i)
<1>1. n \in Nat /\ DOMAIN q = 1 .. n /\ i \in 1 .. n /\ \A j \in 1 .. n : q[j] \in Users
  OBVIOUS
<1>2. /\ rest \in Seq(Users) /\ Len(rest) = n - 1 /\ DOMAIN rest = 1 .. (n - 1)
      /\ \A j \in 1 .. (n - 1) : rest[j] = IF j < i THEN q[j] ELSE q[j + 1]
  <2> DEFINE a == SubSeq(q, 1, i - 1)  b == SubSeq(q, i + 1, n)
  <2>1. a \in Seq(Users) /\ Len(a) = i - 1 /\ \A j \in 1 .. (i - 1) : a[j] = q[j]
    BY <1>1
  <2>2. b \in Seq(Users) /\ Len(b) = n - i /\ \A j \in 1 .. (n - i) : b[j] = q[i + j]
    <3>1. i + 1 \in Nat /\ n \in Nat /\ i + 1 >= 1 /\ n <= Len(q)
      BY <1>1
    <3>2. \A j \in (i + 1) .. n : q[j] \in Users
      BY <1>1
    <3>3. Len(b) = (IF i + 1 <= n THEN n - (i + 1) + 1 ELSE 0)
      BY <3>1
    <3>4. Len(b) = n - i
      BY <1>1, <3>3
    <3>5. b \in Seq(Users)
      BY <3>1, <3>2
    <3>6. \A j \in 1 .. (n - i) : b[j] = q[i + j]
      BY <1>1, <3>1
    <3>7. QED
      BY <3>4, <3>5, <3>6
  <2>3. rest = a \o b
    BY DEF RemoveAt
  <2> HIDE DEF a, b, n, rest
  <2>4. rest \in Seq(Users) /\ Len(rest) = n - 1 /\ DOMAIN rest = 1 .. (n - 1)
    <3>1. \A s, t \in Seq(Users) : s \o t \in Seq(Users) /\ Len(s \o t) = Len(s) + Len(t)
      OBVIOUS
    <3>2. a \in Seq(Users) /\ b \in Seq(Users) /\ rest = a \o b
      BY <2>1, <2>2, <2>3
    <3>3. rest \in Seq(Users) /\ Len(rest) = Len(a) + Len(b)
      BY <3>1, <3>2, Zenon
    <3>4. Len(rest) = n - 1
      BY <1>1, <2>1, <2>2, <3>3
    <3>5. QED
      BY <3>3, <3>4
  <2>5. ASSUME NEW j \in 1 .. (n - 1)
        PROVE  rest[j] = IF j < i THEN q[j] ELSE q[j + 1]
    <3>1. rest[j] = IF j <= Len(a) THEN a[j] ELSE b[j - Len(a)]
      BY <1>1, <2>1, <2>2, <2>3
    <3>2. QED
      BY <1>1, <2>1, <2>2, <3>1
  <2>6. QED
    BY <2>4, <2>5
<1> HIDE DEF n, rest
<1>3. IsInjective(rest)
  <2>1. SUFFICES ASSUME NEW j \in 1 .. (n - 1), NEW k \in 1 .. (n - 1), rest[j] = rest[k]
                 PROVE  j = k
    BY <1>2 DEF IsInjective
  <2>2. \A x, y \in 1 .. n : q[x] = q[y] => x = y
    BY <1>1 DEF IsInjective
  <2>3. QED
    BY <1>1, <1>2, <2>1, <2>2
<1>4. ASSUME NEW u \in ToSet(rest)  PROVE  u \in ToSet(q) /\ u # q[i]
  <2>1. PICK j \in 1 .. (n - 1) : u = rest[j]
    BY <1>2, <1>4 DEF ToSet
  <2>2. \A x, y \in 1 .. n : q[x] = q[y] => x = y
    BY <1>1 DEF IsInjective
  <2>3. PICK k \in 1 .. n : k # i /\ u = q[k]
    BY <1>1, <1>2, <2>1
  <2>4. QED
    BY <1>1, <2>2, <2>3 DEF ToSet
<1>5. ASSUME NEW u \in ToSet(q), u # q[i]  PROVE  u \in ToSet(rest)
  <2>1. PICK j \in 1 .. n : u = q[j]
    BY <1>1 DEF ToSet
  <2>2. CASE j < i
    <3>1. j \in 1 .. (n - 1) /\ rest[j] = u
      BY <1>1, <1>2, <2>1, <2>2
    <3>2. QED
      BY <1>2, <3>1 DEF ToSet
  <2>3. CASE j > i
    <3>1. j - 1 \in 1 .. (n - 1) /\ rest[j - 1] = u
      BY <1>1, <1>2, <2>1, <2>3
    <3>2. QED
      BY <1>2, <3>1 DEF ToSet
  <2>4. QED
    BY <1>1, <1>5, <2>1, <2>2, <2>3
<1>6. QED
  BY <1>2, <1>3, <1>4, <1>5 DEF rest
-----------------------------------------------------------------------------
(* What a step of the queue does to the table of matches.                  *)

MadeBy(i, r) == i \in 1 .. Len(matches) /\ matches[i].active /\ matches[i].by = r

\* Rows are never deleted, and no live row of a room is added or changes players.
RowsKept ==
    /\ Len(matches') >= Len(matches)
    /\ \A r \in Rooms : \A i \in Nat :
          MadeBy(i, r)' => MadeBy(i, r) /\ matches'[i].players = matches[i].players

\* A row of the queue is added.
LEMMA RowAdded ==
  ASSUME QueueShape, RoomsAssumption, NEW p \in Pairs,
         matches' = Append(matches, NewMatch(p, "queue"))
  PROVE  matches' \in Seq(Rows) /\ Len(matches') = Len(matches) + 1 /\ RowsKept
<1> DEFINE n == Len(matches)
<1>1. NewMatch(p, "queue") \in Rows /\ NewMatch(p, "queue").by = "queue"
  BY DEF NewMatch, Rows, Origins
<1>2. /\ matches' \in Seq(Rows) /\ Len(matches') = n + 1 /\ n \in Nat
      /\ matches'[n + 1] = NewMatch(p, "queue") /\ \A i \in 1 .. n : matches'[i] = matches[i]
  BY <1>1 DEF QueueShape
<1>3. "queue" \notin Rooms
  BY DEF RoomsAssumption
<1> HIDE DEF n
<1>4. ASSUME NEW r \in Rooms, NEW i \in Nat, MadeBy(i, r)'
      PROVE  i \in 1 .. n /\ matches'[i] = matches[i]
  <2>1. i \in 1 .. (n + 1) /\ matches'[i].by = r
    BY <1>2, <1>4 DEF MadeBy
  <2>2. i # n + 1
    BY <1>1, <1>2, <1>3, <2>1
  <2>3. i \in 1 .. n
    BY <1>2, <2>1, <2>2
  <2>4. QED
    BY <1>2, <2>3
<1>5. QED
  BY <1>2, <1>4 DEF RowsKept, MadeBy, n

\* A row is served, or its match is over.
LEMMA RowServed ==
  ASSUME QueueShape, NEW k \in 1 .. Len(matches),
         \/ matches' = [matches EXCEPT ![k].served = TRUE]
         \/ matches' = [matches EXCEPT ![k] = EndedMatch]
  PROVE  /\ matches' \in Seq(Rows) /\ Len(matches') = Len(matches) /\ RowsKept
         /\ \A i \in Nat : MadeBy(i, "queue")' =>
               MadeBy(i, "queue") /\ matches'[i].players = matches[i].players
<1> DEFINE n == Len(matches)
<1>1. n \in Nat /\ DOMAIN matches = 1 .. n /\ \A i \in 1 .. n : matches[i] \in Rows
  BY DEF QueueShape
<1>2. /\ [matches[k] EXCEPT !.served = TRUE] \in Rows
      /\ [matches[k] EXCEPT !.served = TRUE].active = matches[k].active
      /\ [matches[k] EXCEPT !.served = TRUE].by = matches[k].by
      /\ [matches[k] EXCEPT !.served = TRUE].players = matches[k].players
  <2>1. CASE matches[k] = EndedMatch
    <3>1. EndedMatch.served = TRUE
      BY DEF EndedMatch
    <3>2. \A f : DOMAIN f = DOMAIN EndedMatch /\ f = [x \in DOMAIN f |-> f[x]]
                    => [f EXCEPT !["served"] = f["served"]] = f
      BY Z3
    <3>3. [EndedMatch EXCEPT !.served = TRUE] = EndedMatch
      BY <3>1, <3>2 DEF EndedMatch
    <3>4. QED
      BY <2>1, <3>3 DEF Rows
  <2>2. CASE matches[k] # EndedMatch
    <3>1. matches[k] \in [players : Pairs, active : {TRUE}, served : BOOLEAN, by : Origins]
      BY <1>1, <2>2 DEF Rows
    <3>2. [matches[k] EXCEPT !.served = TRUE]
            \in [players : Pairs, active : {TRUE}, served : BOOLEAN, by : Origins]
      BY <3>1
    <3>3. QED
      BY <3>1, <3>2 DEF Rows
  <2>3. QED
    BY <2>1, <2>2
<1>3. EndedMatch \in Rows /\ ~EndedMatch.active
  BY DEF Rows, EndedMatch
<1>4. PICK row \in Rows : /\ matches' = [matches EXCEPT ![k] = row]
                          /\ row.active => /\ matches[k].active /\ row.by = matches[k].by
                                           /\ row.players = matches[k].players
  BY <1>2, <1>3
<1>5. /\ matches' \in Seq(Rows) /\ Len(matches') = n
      /\ matches'[k] = row /\ \A i \in 1 .. n : i # k => matches'[i] = matches[i]
  BY <1>1, <1>4 DEF QueueShape
<1>6. QED
  BY <1>1, <1>4, <1>5 DEF RowsKept, MadeBy

LEMMA RowsStay ==
  ASSUME QueueShape, UNCHANGED matches
  PROVE  RowsKept
BY DEF RowsKept, MadeBy, QueueShape

\* A poll is where it was or a legal one, and rows are not deleted.
LEMMA PollsTyped ==
  ASSUME QueueShape, Len(matches') \in Nat, Len(matches') >= Len(matches),
         NEW t \in Polls, NEW q \in PollRecord, IsPoll(q)', poll' = [poll EXCEPT ![t] = q]
  PROVE  poll' \in [Polls -> PollRecord] /\ \A s \in Polls : IsPoll(poll[s])'
<1>1. poll' \in [Polls -> PollRecord]
  BY DEF QueueShape
<1>2. ASSUME NEW s \in Polls  PROVE  IsPoll(poll[s])'
  <2>1. CASE s = t
    BY <2>1 DEF QueueShape
  <2>2. CASE s # t
    <3>1. poll'[s] = poll[s] /\ IsPoll(poll[s]) /\ Len(matches) \in Nat
      BY <2>2 DEF QueueShape
    <3>2. QED
      BY <3>1 DEF IsPoll
  <2>3. QED
    BY <2>1, <2>2
<1>3. QED
  BY <1>1, <1>2

\* The poll that has nothing in its hands.
LEMMA IdleIsPoll ==
  ASSUME QueueShape, Len(matches') \in Nat
  PROVE  IdlePoll \in PollRecord /\ IsPoll(IdlePoll)'
BY DEF IdlePoll, PollRecord, IsPoll

\* The two oldest entries of the queue.
LEMMA FirstTwo ==
  ASSUME QueueShape, Len(queue) >= 2
  PROVE  /\ SubSeq(queue, 1, 2) \in Pairs
         /\ SubSeq(queue, 3, Len(queue)) \in Seq(Users)
         /\ IsInjective(SubSeq(queue, 3, Len(queue)))
         /\ ToSet(queue) = ToSet(SubSeq(queue, 1, 2))
                             \union ToSet(SubSeq(queue, 3, Len(queue)))
<1> DEFINE n == Len(queue)  p == SubSeq(queue, 1, 2)  rest == SubSeq(queue, 3, n)
<1>1. n \in Nat /\ n >= 2 /\ DOMAIN queue = 1 .. n /\ \A i \in 1 .. n : queue[i] \in Users
  BY DEF QueueShape
<1>2. \A x, y \in 1 .. n : queue[x] = queue[y] => x = y
  BY <1>1 DEF QueueShape, IsInjective
<1>3. p = <<queue[1], queue[2]>>
  <2> DEFINE c == <<queue[1], queue[2]>>
  <2>1. Len(p) = 2 /\ p[1] = queue[1] /\ p[2] = queue[2] /\ p \in Seq(Users)
    BY <1>1
  <2>2. Len(c) = 2 /\ c[1] = queue[1] /\ c[2] = queue[2] /\ c \in Seq(Users)
    BY <1>1
  <2> HIDE DEF c, p
  <2>3. Len(p) = Len(c) /\ \A i \in 1 .. Len(p) : p[i] = c[i]
    BY <2>1, <2>2
  <2>4. p = c
    BY <2>1, <2>2, <2>3, SeqEqual
  <2>5. QED
    BY <2>4 DEF c
<1>4. p \in Pairs
  <2>1. queue[1] \in Users /\ queue[2] \in Users /\ queue[1] # queue[2]
    BY <1>1, <1>2
  <2>2. QED
    BY <1>3, <2>1 DEF Pairs
<1>5. /\ rest \in Seq(Users) /\ Len(rest) = n - 2 /\ DOMAIN rest = 1 .. (n - 2)
      /\ \A i \in 1 .. (n - 2) : rest[i] = queue[i + 2]
  <2>1. Len(rest) = IF 3 <= n THEN n - 3 + 1 ELSE 0
    BY <1>1
  <2>2. Len(rest) = n - 2
    BY <1>1, <2>1
  <2>3. rest \in Seq(Users)
    BY <1>1
  <2>4. \A i \in 1 .. (n - 2) : rest[i] = queue[i + 2]
    BY <1>1
  <2>5. QED
    BY <2>2, <2>3, <2>4
<1> HIDE DEF n, rest
<1>6. IsInjective(rest)
  <2>1. SUFFICES ASSUME NEW x \in 1 .. (n - 2), NEW y \in 1 .. (n - 2), rest[x] = rest[y]
                 PROVE  x = y
    BY <1>5 DEF IsInjective
  <2>2. queue[x + 2] = queue[y + 2] /\ x + 2 \in 1 .. n /\ y + 2 \in 1 .. n
    BY <1>1, <1>5, <2>1
  <2>3. x + 2 = y + 2
    BY <1>2, <2>2
  <2>4. QED
    BY <1>1, <2>3
<1>7. ToSet(p) = {queue[1], queue[2]}
  BY <1>3, <1>4, PairSet
<1>8. ToSet(queue) = ToSet(p) \union ToSet(rest)
  <2>1. \A u : u \in ToSet(queue) <=> \E x \in 1 .. n : queue[x] = u
    BY <1>1 DEF ToSet
  <2>2. \A u : u \in ToSet(rest) <=> \E x \in 1 .. (n - 2) : queue[x + 2] = u
    BY <1>5 DEF ToSet
  <2>3. ASSUME NEW u \in ToSet(queue)  PROVE  u \in ToSet(p) \union ToSet(rest)
    <3>1. PICK x \in 1 .. n : queue[x] = u
      BY <2>1, <2>3
    <3>2. CASE x = 1 \/ x = 2
      BY <1>7, <3>1, <3>2
    <3>3. CASE x > 2
      <4>1. x - 2 \in 1 .. (n - 2) /\ queue[(x - 2) + 2] = u
        BY <1>1, <3>1, <3>3
      <4>2. QED
        BY <2>2, <4>1
    <3>4. QED
      BY <1>1, <3>2, <3>3
  <2>4. ASSUME NEW u \in ToSet(rest)  PROVE  u \in ToSet(queue)
    <3>1. PICK x \in 1 .. (n - 2) : queue[x + 2] = u
      BY <2>2, <2>4
    <3>2. x + 2 \in 1 .. n
      BY <1>1
    <3>3. QED
      BY <2>1, <3>1, <3>2
  <2>5. ToSet(p) \subseteq ToSet(queue)
    BY <1>1, <1>7, <2>1
  <2>6. QED
    BY <2>3, <2>4, <2>5
<1>9. QED
  BY <1>4, <1>5, <1>6, <1>8 DEF n, rest
-----------------------------------------------------------------------------
(* The steps of the queue: types, rows, and who is in whose hands.         *)

\* Queued, or in the hands of a poll.
InHands(u) == Queued(u) \/ \E t \in Polls : u \in ToSet(poll[t].pair)

AllKept == \A u \in promised : InHands(u)

LEMMA JoinQueueSteps ==
  ASSUME QueueShape, NEW u \in Users,
         JoinQueue(u) \/ AddToQueue(u) \/ LeaveQueue(u)
  PROVE  /\ QueueShape' /\ RowsKept /\ UNCHANGED <<crashes, slow, matches>>
         /\ AllKept => AllKept'
<1>1. CASE JoinQueue(u)
  <2>1. QueueShape' /\ UNCHANGED <<crashes, slow, matches>>
    BY <1>1 DEF JoinQueue, QueueShape, IsPoll
  <2>2. AllKept => AllKept'
    BY <1>1 DEF JoinQueue, AllKept, InHands, Queued
  <2>3. QED
    BY <2>1, <2>2, RowsStay
<1>2. CASE AddToQueue(u)
  <2>1. /\ queue' \in Seq(Users) /\ IsInjective(queue')
        /\ ToSet(queue') = ToSet(queue) \union {u}
    BY <1>2, EnqueueKeeps DEF AddToQueue, QueueShape
  <2>2. QueueShape' /\ UNCHANGED <<crashes, slow, matches>>
    BY <1>2, <2>1 DEF AddToQueue, QueueShape, IsPoll
  <2>3. AllKept => AllKept'
    BY <1>2, <2>1 DEF AddToQueue, AllKept, InHands, Queued
  <2>4. QED
    BY <2>2, <2>3, RowsStay
<1>3. CASE LeaveQueue(u)
  <2>1. PICK i \in DOMAIN queue : queue[i] = u /\ queue' = RemoveAt(queue, i)
    BY <1>3 DEF LeaveQueue
  <2>2. /\ queue' \in Seq(Users) /\ IsInjective(queue')
        /\ ToSet(queue') = ToSet(queue) \ {u}
    BY <2>1, LeaveKeeps DEF QueueShape
  <2>3. QueueShape' /\ UNCHANGED <<crashes, slow, matches>>
    BY <1>3, <2>2 DEF LeaveQueue, QueueShape, IsPoll
  <2>4. AllKept => AllKept'
    BY <1>3, <2>2 DEF LeaveQueue, AllKept, InHands, Queued
  <2>5. QED
    BY <2>3, <2>4, RowsStay
<1>4. QED
  BY <1>1, <1>2, <1>3

LEMMA PopStep ==
  ASSUME QueueShape, NEW t \in Polls, Pop(t)
  PROVE  /\ QueueShape' /\ RowsKept /\ UNCHANGED <<crashes, slow, matches>>
         /\ AllKept => AllKept'
<1> DEFINE p == SubSeq(queue, 1, 2)  rest == SubSeq(queue, 3, Len(queue))
<1>0. PICK q : q = [pc |-> "check", match |-> 0, pair |-> p]
  OBVIOUS
<1>1. /\ poll[t].pc = "idle" /\ Len(queue) >= 2
      /\ poll' = [poll EXCEPT ![t] = q] /\ queue' = rest
      /\ UNCHANGED <<matches, joining, crashes, faults, slow, promised>>
  BY <1>0 DEF Pop
<1>2. /\ p \in Pairs /\ rest \in Seq(Users) /\ IsInjective(rest)
      /\ ToSet(queue) = ToSet(p) \union ToSet(rest)
  BY <1>1, FirstTwo
<1> HIDE DEF p, rest
<1>3. q \in PollRecord /\ IsPoll(q)'
  BY <1>0, <1>2 DEF PollRecord, IsPoll
<1>4. Len(matches') \in Nat /\ Len(matches') >= Len(matches)
  BY <1>1 DEF QueueShape
<1>5. poll' \in [Polls -> PollRecord] /\ \A s \in Polls : IsPoll(poll[s])'
  BY <1>1, <1>3, <1>4, PollsTyped
<1>6. QueueShape'
  BY <1>1, <1>2, <1>5 DEF QueueShape
<1>7. ASSUME AllKept, NEW u \in promised  PROVE  InHands(u)'
  <2>1. poll'[t].pair = p /\ \A s \in Polls : s # t => poll'[s] = poll[s]
    BY <1>0, <1>1 DEF QueueShape
  <2>2. CASE u \in ToSet(queue)
    BY <1>1, <1>2, <2>1, <2>2 DEF InHands, Queued
  <2>3. CASE \E s \in Polls : u \in ToSet(poll[s].pair)
    <3>1. PICK s \in Polls : u \in ToSet(poll[s].pair)
      BY <2>3
    <3>2. poll[t].pair = <<>>
      BY <1>1 DEF QueueShape, IsPoll
    <3>3. ToSet(<<>>) = {}
      BY DEF ToSet
    <3>4. s # t
      BY <3>1, <3>2, <3>3
    <3>5. QED
      BY <2>1, <3>1, <3>4 DEF InHands
  <2>4. QED
    BY <1>7, <2>2, <2>3 DEF AllKept, InHands, Queued
<1>8. QED
  BY <1>1, <1>6, <1>7, RowsStay DEF AllKept

\* The poll gives up what it has in hands; those of its pair that are still
\* promised a match are in the queue afterwards.
LEMMA PollReturns ==
  ASSUME QueueShape, NEW t \in Polls, poll' = [poll EXCEPT ![t] = IdlePoll],
         queue' \in Seq(Users), IsInjective(queue'), ToSet(queue) \subseteq ToSet(queue'),
         matches' \in Seq(Rows), Len(matches') >= Len(matches),
         promised' \subseteq promised, joining' = joining,
         ToSet(poll[t].pair) \intersect promised' \subseteq ToSet(queue'),
         faults' \in Nat, UNCHANGED <<crashes, slow>>
  PROVE  QueueShape' /\ (AllKept => AllKept')
<1>1. Len(matches') \in Nat
  OBVIOUS
<1>2. IdlePoll \in PollRecord /\ IsPoll(IdlePoll)'
  BY <1>1, IdleIsPoll
<1>3. poll' \in [Polls -> PollRecord] /\ \A s \in Polls : IsPoll(poll[s])'
  BY <1>1, <1>2, PollsTyped
<1>4. QueueShape'
  BY <1>3 DEF QueueShape
<1>5. \A s \in Polls : s # t => poll'[s] = poll[s]
  BY DEF QueueShape
<1>6. AllKept => AllKept'
  BY <1>5 DEF AllKept, InHands, Queued
<1>7. QED
  BY <1>4, <1>6

LEMMA CheckStep ==
  ASSUME QueueShape, NEW t \in Polls, CheckActive(t)
  PROVE  /\ QueueShape' /\ RowsKept /\ UNCHANGED <<crashes, slow, matches>>
         /\ AllKept => AllKept'
<1> DEFINE p == poll[t].pair
<1>1. /\ p \in Pairs /\ poll[t] \in PollRecord
      /\ UNCHANGED <<matches, joining, crashes, faults, slow>>
      /\ matches' \in Seq(Rows) /\ Len(matches') \in Nat /\ Len(matches') >= Len(matches)
  BY DEF CheckActive, QueueShape, IsPoll
<1>2. CASE Free(p) = ToSet(p)
  <2>1. /\ poll' = [poll EXCEPT ![t].pc = "create"] /\ UNCHANGED <<queue, promised>>
    BY <1>2 DEF CheckActive
  <2>0. PICK q : q = [poll[t] EXCEPT !.pc = "create"]
    OBVIOUS
  <2>2. poll' = [poll EXCEPT ![t] = q]
    BY <2>0, <2>1
  <2>3. q \in PollRecord /\ IsPoll(q)' /\ q.pair = p
    BY <1>1, <2>0 DEF PollRecord, IsPoll
  <2>4. poll' \in [Polls -> PollRecord] /\ \A s \in Polls : IsPoll(poll[s])'
    BY <1>1, <2>2, <2>3, PollsTyped
  <2>5. QueueShape'
    BY <1>1, <2>1, <2>4 DEF QueueShape
  <2>6. \A s \in Polls : poll'[s].pair = poll[s].pair
    BY <2>2, <2>3 DEF QueueShape
  <2>7. AllKept => AllKept'
    BY <2>1, <2>6 DEF AllKept, InHands, Queued
  <2>8. QED
    BY <1>1, <2>5, <2>7, RowsStay
<1>3. CASE Free(p) # ToSet(p)
  <2>1. /\ queue' = Requeue(p, Free(p)) /\ promised' = promised \ (ToSet(p) \ Free(p))
        /\ poll' = [poll EXCEPT ![t] = IdlePoll]
    BY <1>3 DEF CheckActive
  <2>2. /\ queue' \in Seq(Users) /\ IsInjective(queue')
        /\ ToSet(queue') = ToSet(queue) \union (ToSet(p) \intersect Free(p))
    BY <1>1, <2>1, RequeueKeeps
  <2>3. faults' \in Nat
    BY <1>1 DEF QueueShape
  <2>4. QueueShape' /\ (AllKept => AllKept')
    BY <1>1, <2>1, <2>2, <2>3, PollReturns
  <2>5. QED
    BY <1>1, <2>4, RowsStay
<1>4. QED
  BY <1>2, <1>3

LEMMA CreateStep ==
  ASSUME QueueShape, RoomsAssumption, NEW t \in Polls, CreateMatch(t)
  PROVE  /\ QueueShape' /\ RowsKept /\ UNCHANGED <<crashes, slow>>
         /\ AllKept => AllKept'
<1> DEFINE p == poll[t].pair
<1>0. PICK q : q = [pc |-> "initialize", pair |-> <<>>, match |-> Len(matches) + 1]
  OBVIOUS
<1>1. p \in Pairs
  BY DEF CreateMatch, QueueShape, IsPoll
<1>2. /\ matches' = Append(matches, NewMatch(p, "queue"))
      /\ poll' = [poll EXCEPT ![t] = q] /\ promised' = promised \ ToSet(p)
      /\ UNCHANGED <<queue, joining, crashes, faults, slow>>
  BY <1>0 DEF CreateMatch
<1>3. matches' \in Seq(Rows) /\ Len(matches') = Len(matches) + 1 /\ RowsKept
  BY <1>1, <1>2, RowAdded
<1>4. Len(matches) \in Nat /\ Len(matches') \in Nat /\ Len(matches') >= Len(matches)
  BY <1>3 DEF QueueShape
<1>5. q \in PollRecord /\ IsPoll(q)'
  BY <1>0, <1>3, <1>4 DEF PollRecord, IsPoll
<1>6. poll' \in [Polls -> PollRecord] /\ \A s \in Polls : IsPoll(poll[s])'
  BY <1>2, <1>4, <1>5, PollsTyped
<1>7. QueueShape'
  BY <1>2, <1>3, <1>6 DEF QueueShape
<1>8. AllKept => AllKept'
  <2>1. \A s \in Polls : s # t => poll'[s] = poll[s]
    BY <1>2 DEF QueueShape
  <2>2. QED
    BY <1>2, <2>1 DEF AllKept, InHands, Queued
<1>9. QED
  BY <1>2, <1>3, <1>7, <1>8

LEMMA FailSteps ==
  ASSUME QueueShape, NEW t \in Polls,
         CreateFails(t) \/ GiveUp(t) \/ InitializeFails(t)
  PROVE  /\ QueueShape' /\ RowsKept /\ UNCHANGED <<crashes, slow, matches>>
         /\ AllKept => AllKept'
<1> DEFINE p == poll[t].pair
<1>1. /\ poll' = [poll EXCEPT ![t] = IdlePoll] /\ faults' = faults + 1
      /\ UNCHANGED <<matches, joining, crashes, slow>>
  BY DEF CreateFails, GiveUp, InitializeFails
<1>2. /\ faults' \in Nat /\ matches' \in Seq(Rows) /\ Len(matches') >= Len(matches)
      /\ queue \in Seq(Users) /\ IsInjective(queue)
  BY <1>1 DEF QueueShape
<1>3. CASE CreateFails(t)
  <2>1. p \in Pairs /\ queue' = Requeue(p, ToSet(p)) /\ promised' = promised
    BY <1>3 DEF CreateFails, QueueShape, IsPoll
  <2>2. /\ queue' \in Seq(Users) /\ IsInjective(queue')
        /\ ToSet(queue') = ToSet(queue) \union (ToSet(p) \intersect ToSet(p))
    BY <2>1, RequeueKeeps
  <2>3. QueueShape' /\ (AllKept => AllKept')
    BY <1>1, <1>2, <2>1, <2>2, PollReturns
  <2>4. QED
    BY <1>1, <2>3, RowsStay
<1>4. CASE GiveUp(t)
  <2>1. queue' = queue /\ promised' = promised \ ToSet(p)
    BY <1>4 DEF GiveUp
  <2>2. QueueShape' /\ (AllKept => AllKept')
    BY <1>1, <1>2, <2>1, PollReturns
  <2>3. QED
    BY <1>1, <2>2, RowsStay
<1>5. CASE InitializeFails(t)
  <2>1. queue' = queue /\ promised' = promised /\ p = <<>>
    BY <1>5 DEF InitializeFails, QueueShape, IsPoll
  <2>2. ToSet(p) = {}
    BY <2>1 DEF ToSet
  <2>3. QueueShape' /\ (AllKept => AllKept')
    BY <1>1, <1>2, <2>1, <2>2, PollReturns
  <2>4. QED
    BY <1>1, <2>3, RowsStay
<1>6. QED
  BY <1>3, <1>4, <1>5

LEMMA ServeSteps ==
  ASSUME QueueShape, NEW t \in Polls, InitializeMatch(t)
  PROVE  /\ QueueShape' /\ RowsKept /\ UNCHANGED <<crashes, slow>>
         /\ AllKept => AllKept'
<1> DEFINE p == poll[t].pair  k == poll[t].match
<1>1. /\ poll' = [poll EXCEPT ![t] = IdlePoll]
      /\ matches' = [matches EXCEPT ![k].served = TRUE]
      /\ UNCHANGED <<queue, joining, crashes, faults, slow, promised>>
  BY DEF InitializeMatch
<1>2. k \in 1 .. Len(matches) /\ p = <<>>
  BY DEF InitializeMatch, QueueShape, IsPoll
<1>3. matches' \in Seq(Rows) /\ Len(matches') = Len(matches) /\ RowsKept
  BY <1>1, <1>2, RowServed
<1>4. ToSet(p) = {}
  BY <1>2 DEF ToSet
<1>5. /\ faults' \in Nat /\ Len(matches') >= Len(matches)
      /\ queue' \in Seq(Users) /\ IsInjective(queue')
  BY <1>1, <1>3 DEF QueueShape
<1>6. QueueShape' /\ (AllKept => AllKept')
  BY <1>1, <1>3, <1>4, <1>5, PollReturns
<1>7. QED
  BY <1>1, <1>3, <1>6

LEMMA EndStep ==
  ASSUME QueueShape, NEW k \in DOMAIN matches, MatchEnds(k)
  PROVE  /\ QueueShape' /\ RowsKept /\ UNCHANGED <<crashes, slow>>
         /\ AllKept => AllKept'
<1>1. /\ k \in 1 .. Len(matches) /\ matches' = [matches EXCEPT ![k] = EndedMatch]
      /\ UNCHANGED <<queue, joining, poll, crashes, faults, slow, promised>>
  BY DEF MatchEnds, QueueShape
<1>2. matches' \in Seq(Rows) /\ Len(matches') = Len(matches) /\ RowsKept
  BY <1>1, RowServed
<1>3. QueueShape'
  BY <1>1, <1>2 DEF QueueShape, IsPoll
<1>4. QED
  BY <1>1, <1>2, <1>3 DEF AllKept, InHands, Queued

LEMMA QueueStep ==
  ASSUME QueueShape, RoomsAssumption, QueueNext
  PROVE  /\ QueueShape' /\ RowsKept /\ UNCHANGED <<crashes, slow>>
         /\ AllKept => AllKept'
<1>1. CASE \E u \in Users : JoinQueue(u) \/ AddToQueue(u) \/ LeaveQueue(u)
  BY <1>1, JoinQueueSteps
<1>2. CASE \E t \in Polls : Pop(t) \/ CheckActive(t)
  BY <1>2, PopStep, CheckStep
<1>3. CASE \E t \in Polls : CreateMatch(t) \/ InitializeMatch(t)
  BY <1>3, CreateStep, ServeSteps
<1>4. CASE \E t \in Polls : CreateFails(t) \/ GiveUp(t) \/ InitializeFails(t)
  BY <1>4, FailSteps
<1>5. CASE \E i \in DOMAIN matches : MatchEnds(i)
  BY <1>5, EndStep
<1>6. QED
  BY <1>1, <1>2, <1>3, <1>4, <1>5 DEF QueueNext
-----------------------------------------------------------------------------
(* The rooms: the inductive invariant.  It has three parts, each inductive *)
(* given the types: the types themselves; what the mappings of users who   *)
(* are not stray say; and what handoffs, claims and rows say of a room.    *)

RoomShape ==
    /\ room \in [Rooms -> RoomRecord] /\ codeOf \subseteq Rooms
    /\ roomOf \in [Users -> Rooms \union {"pending", Nobody}]
    /\ claim \in [Rooms -> Requests \union {Nobody}]
    /\ req \in [Requests -> ReqRecord]
    /\ told \in [Rooms -> SUBSET Nat]
    /\ stray \subseteq Users /\ torn \subseteq Rooms

\* What a room's hash holds, by its status, when there are n rows.
RecordOK(me, n) ==
    /\ me.match # 0 => me.match \in 1 .. n
    /\ me.exists => me.owner \in Users
    /\ me.status = "full" => me.guest \in Users /\ me.guest # me.owner
    /\ me.status = "matched" => me.match # 0

\* What a request knows, by where it is.
KnownOK(c, n) ==
    /\ c.pc # "idle" => c.user \in Users
    /\ c.pc \in RoomLabels => c.room \in Rooms
    /\ c.pc \in Working =>
          c.owner \in Users /\ c.guest \in Users /\ c.guest # c.owner
    /\ c.pc \in {"serve", "done"} => c.match \in 1 .. n
    /\ c.pc = "handoffClaim" /\ c.match # 0 => c.match \in 1 .. n

TypesOK == /\ RoomShape
           /\ \A r \in Rooms : RecordOK(room[r], Len(matches))
           /\ \A h \in Requests : KnownOK(req[h], Len(matches))

(* Of a user who is not stray: an open room that lists him has his mapping *)
(* or, while he creates it, his placeholder; he is listed once, makes one  *)
(* room at a time, and is in none before its hash is written.              *)
Settled(u) ==
    /\ \A r \in Rooms : Lists(r, u) =>
          /\ roomOf[u] = r \/ (roomOf[u] = "pending" /\ u = room[r].owner)
          /\ \A s \in Rooms : Lists(s, u) => s = r
    /\ \A h \in Requests : Creating(h, u) =>
          /\ roomOf[u] = "pending"
          /\ \A g \in Requests : Creating(g, u) => g = h
          /\ \A r \in Rooms : Lists(r, u) => r = req[h].room /\ req[h].pc \in HashWritten

MembersOK == \A u \in Users \ stray : Settled(u)

(* The id a creation has drawn is new: only requests to join name it.      *)
FreshOK(h) ==
    LET r == req[h].room IN
    At(h, "createHash") =>
        /\ ~room[r].exists /\ room[r].match = 0 /\ told[r] = {}
        /\ \A i \in Nat : ~MadeBy(i, r)
        /\ \A u \in Users : roomOf[u] # r
        /\ \A g \in Requests : g # h /\ req[g].room = r => req[g].pc \in JoinLabels

(* What was told is what the room records.  If the record is gone again,   *)
(* nobody is left to tell anything else.                                   *)
ToldOK(r) ==
    r \notin torn =>
        /\ room[r].match # 0 => told[r] = {room[r].match}
        /\ room[r].match = 0 /\ told[r] # {} =>
              /\ ~room[r].exists /\ \E m \in Nat : told[r] = {m}
              /\ \A h \in Requests : ~Holds(h, r)

\* The live rows made for a room are its owner's, and so is its worker.
OwnerOK(r) ==
    room[r].exists =>
        /\ \A i \in Nat : MadeBy(i, r) => matches[i].players[1] = room[r].owner
        /\ \A h \in Requests : req[h].room = r /\ req[h].pc \in Working
                               => req[h].owner = room[r].owner

\* A match that a handoff has seen recorded stays recorded while there is a room.
SeenOK(h) ==
    At(h, "handoffClaim") /\ req[h].match # 0 /\ room[req[h].room].exists
    => room[req[h].room].match # 0

\* The claim is the worker's own until the room has its match, or is gone.
ClaimFits(h) ==
    LET r == req[h].room IN
    room[r].exists =>
        /\ req[h].pc \in Working => claim[r] = h
        /\ At(h, "done") /\ room[r].match = 0 => claim[r] = h

\* A live row is the owner's, and before it makes one the worker found none.
RowFits(h) ==
    req[h].pc \in Working =>
        \A i \in Nat : MadeBy(i, req[h].room) =>
            /\ req[h].pc \notin {"adoptGuest", "createRow"}
            /\ matches[i].players[1] = req[h].owner

OneRow == \A r \in Rooms : \A i, j \in Nat : MadeBy(i, r) /\ MadeBy(j, r) => i = j

OneWorker == \A g, h \in Requests :
    req[g].pc \in Working /\ req[h].pc \in Working /\ req[g].room = req[h].room => g = h

ClaimsOK == slow = 0 => /\ OneRow /\ OneWorker
                        /\ \A h \in Requests : RowFits(h)
                        /\ \A h \in Requests : req[h].room \in Rooms => ClaimFits(h)

HandoffsOK == /\ \A r \in Rooms : ToldOK(r) /\ OwnerOK(r)
              /\ \A h \in Requests : FreshOK(h) /\ SeenOK(h)
              /\ ClaimsOK

RoomInv == TypesOK /\ MembersOK /\ HandoffsOK

EntryInv == QueueShape /\ RoomInv

-----------------------------------------------------------------------------
(* How a request goes on.                                                  *)

\* Request h is c from now on, the others are what they were.
Becomes(h, c) == c \in ReqRecord /\ req' = [req EXCEPT ![h] = c]

LEMMA GoesOn ==
  ASSUME RoomShape, NEW h \in Requests, NEW label \in Labels, Go(h, label)
  PROVE  \E c : /\ Becomes(h, c) /\ c.pc = label
                /\ c.user = req[h].user /\ c.room = req[h].room /\ c.owner = req[h].owner
                /\ c.guest = req[h].guest /\ c.match = req[h].match
<1> DEFINE c == [req[h] EXCEPT !.pc = label]
<1>1. req[h] \in ReqRecord
  BY DEF RoomShape
<1>2. /\ c \in ReqRecord /\ c.pc = label
      /\ c.user = req[h].user /\ c.room = req[h].room /\ c.owner = req[h].owner
      /\ c.guest = req[h].guest /\ c.match = req[h].match
  BY <1>1 DEF ReqRecord
<1>3. req' = [req EXCEPT ![h] = c]
  BY DEF Go
<1>4. QED
  BY <1>2, <1>3 DEF Becomes

LEMMA Answered ==
  ASSUME NEW h \in Requests, Answer(h)
  PROVE  Becomes(h, IdleRequest) /\ IdleRequest.pc = "idle" /\ IdleRequest.room = Nobody
BY DEF Answer, Becomes, IdleRequest, ReqRecord, Labels, Someone

LEMMA Begins ==
  ASSUME RoomShape, NEW h \in Requests, NEW u \in Users,
         NEW label \in Labels, NEW r \in Rooms \union {Nobody}, Begin(h, u, label, r)
  PROVE  \E c : Becomes(h, c) /\ c.pc = label /\ c.user = u /\ c.room = r /\ c.match = 0
<1> DEFINE c == [IdleRequest EXCEPT !.pc = label, !.user = u, !.room = r]
<1>1. c \in ReqRecord /\ c.pc = label /\ c.user = u /\ c.room = r /\ c.match = 0
  BY DEF IdleRequest, ReqRecord, Someone
<1>2. QED
  BY <1>1 DEF Begin, Becomes

LEMMA TheRequests ==
  ASSUME RoomShape, NEW h \in Requests, NEW c, Becomes(h, c)
  PROVE  /\ req' \in [Requests -> ReqRecord] /\ req'[h] = c
         /\ \A g \in Requests : g # h => req'[g] = req[g]
BY DEF RoomShape, Becomes

-----------------------------------------------------------------------------
(* What keeps each part of the invariant.                                  *)

\* The types: rows are not deleted, and what is new is of its type.
LEMMA TypesStand ==
  ASSUME QueueShape, TypesOK, Len(matches') \in Nat, Len(matches') >= Len(matches),
         room' \in [Rooms -> RoomRecord],
         \A r \in Rooms : room'[r] = room[r] \/ RecordOK(room'[r], Len(matches')),
         req' \in [Requests -> ReqRecord],
         \A g \in Requests : req'[g] = req[g] \/ KnownOK(req'[g], Len(matches')),
         codeOf' \subseteq Rooms,
         roomOf' \in [Users -> Rooms \union {"pending", Nobody}],
         claim' \in [Rooms -> Requests \union {Nobody}],
         told' \in [Rooms -> SUBSET Nat],
         stray' \subseteq Users, torn' \subseteq Rooms
  PROVE  TypesOK'
<1>1. RoomShape'
  BY DEF RoomShape
<1>2. Len(matches) \in Nat
  BY DEF QueueShape
<1>3. ASSUME NEW r \in Rooms  PROVE  RecordOK(room'[r], Len(matches'))
  <2>1. RecordOK(room[r], Len(matches))
    BY DEF TypesOK
  <2>2. room'[r] = room[r] => RecordOK(room'[r], Len(matches'))
    BY <1>2, <2>1 DEF RecordOK
  <2>3. QED
    BY <2>2
<1>4. ASSUME NEW g \in Requests  PROVE  KnownOK(req'[g], Len(matches'))
  <2>1. KnownOK(req[g], Len(matches))
    BY DEF TypesOK
  <2>2. req'[g] = req[g] => KnownOK(req'[g], Len(matches'))
    BY <1>2, <2>1 DEF KnownOK
  <2>3. QED
    BY <2>2
<1>5. QED
  BY <1>1, <1>3, <1>4 DEF TypesOK

\* If request h goes on as c, it does not begin to create a room.
Continues(h, c) ==
    c.pc \in CreateLabels =>
        /\ req[h].pc \in CreateLabels /\ c.user = req[h].user
        /\ req[h].pc \in HashWritten => c.pc \in HashWritten /\ c.room = req[h].room

(* Memberships: nobody is listed anew and no creation begins; whoever      *)
(* loses his mapping, or the excuse for it, is in no room afterwards, or   *)
(* is excused.                                                             *)
LEMMA MembersStand ==
  ASSUME MembersOK,
         \A r \in Rooms, u \in Users : Lists(r, u)' =>
            Lists(r, u) /\ room'[r].owner = room[r].owner,
         \A g \in Requests : req'[g] = req[g] \/ Continues(g, req'[g]),
         \A u \in Users \ stray' :
            \/ u \notin stray /\ roomOf'[u] = roomOf[u]
            \/ ~Placed(u)'
  PROVE  MembersOK'
<1>1. SUFFICES ASSUME NEW u \in Users \ stray'  PROVE  Settled(u)'
  BY DEF MembersOK
<1>2. CASE ~Placed(u)'
  BY <1>2 DEF Placed, Settled
<1>3. CASE u \notin stray /\ roomOf'[u] = roomOf[u]
  <2>1. Settled(u)
    BY <1>3 DEF MembersOK
  <2>2. \A g \in Requests : Creating(g, u)' =>
           /\ Creating(g, u)
           /\ req[g].pc \in HashWritten =>
                 req'[g].pc \in HashWritten /\ req'[g].room = req[g].room
    BY DEF Continues, Creating
  <2>3. QED
    BY <1>3, <2>1, <2>2 DEF Settled
<1>4. QED
  BY <1>2, <1>3

\* The id that a creation has drawn.
Drawn(g, r) == At(g, "createHash") /\ req[g].room = r

\* The ways a room goes on.
Stays(r) ==
    /\ room'[r].exists = room[r].exists /\ room'[r].owner = room[r].owner
    /\ room'[r].match = room[r].match /\ told'[r] = told[r]

Vanishes(r) ==
    /\ ~room'[r].exists /\ room'[r].match = 0 /\ told'[r] = told[r]
    /\ room[r].match # 0 => r \in torn' \/ \A g \in Requests : req'[g].room # r

Matched(r) ==
    /\ room'[r].exists = room[r].exists /\ room'[r].owner = room[r].owner
    /\ room[r].match \in {0, room'[r].match} /\ room'[r].match # 0
    /\ r \in torn' \/ told'[r] = {room'[r].match}
    /\ \A g \in Requests : ~Drawn(g, r)

Made(r) ==
    /\ room'[r].match = 0 /\ told'[r] = {}
    /\ \A i \in Nat : ~MadeBy(i, r)
    /\ \A g \in Requests : req'[g].room = r => req'[g].pc \in JoinLabels \union {"createExpire"}

\* The ways request h goes on that no handoff minds.
Goes(h, c) ==
    /\ c.pc # "createHash"
    /\ \A g \in Requests : g # h /\ Drawn(g, c.room) => c.pc \in JoinLabels
    /\ c.pc \in HandoffLabels => Holds(h, c.room) \/ room[c.room].match # 0
    /\ c.pc \in Working =>
          req[h].pc \in Working /\ c.room = req[h].room /\ c.owner = req[h].owner
    /\ slow = 0 /\ c.pc \in {"adoptGuest", "createRow"} => \A i \in Nat : ~MadeBy(i, c.room)
    /\ c.pc = "handoffClaim" /\ c.match # 0 /\ room[c.room].exists => room[c.room].match # 0

(* Handoffs: rooms, requests and mappings go on in one of these ways, no   *)
(* room gets a row, and no claim is taken or taken away.                   *)
LEMMA HandoffsStand ==
  ASSUME QueueShape, TypesOK, TypesOK', HandoffsOK, RowsKept,
         slow' = 0 => slow = 0, torn \subseteq torn',
         \A r \in Rooms : Stays(r) \/ Vanishes(r) \/ Matched(r) \/ Made(r),
         \A g \in Requests : req'[g] = req[g] \/ Goes(g, req'[g]),
         \A u \in Users : \/ roomOf'[u] = roomOf[u] \/ roomOf'[u] \notin Rooms
                          \/ \A g \in Requests : ~Drawn(g, roomOf'[u]),
         \A r \in Rooms : \/ claim'[r] = claim[r] \/ slow' # 0 \/ ~room'[r].exists
                          \/ \A g \in Requests : claim[r] = g => ~Holds(g, r)'
  PROVE  HandoffsOK'
<1>1. \A h \in Requests, r \in Rooms : Holds(h, r)' => Holds(h, r) \/ room[r].match # 0
  BY DEF Holds, Goes
<1>2. \A r \in Rooms, i \in Nat :
         MadeBy(i, r)' => MadeBy(i, r) /\ matches'[i].players = matches[i].players
  BY DEF RowsKept
<1>3. \A h \in Requests : /\ req[h].pc \in RoomLabels => req[h].room \in Rooms
                          /\ req'[h].pc \in RoomLabels => req'[h].room \in Rooms
  BY DEF TypesOK, KnownOK
<1>4. /\ Working \subseteq RoomLabels /\ HandoffLabels = Working \union {"done"}
      /\ {"createHash", "done", "handoffClaim"} \subseteq RoomLabels
      /\ Working \intersect (JoinLabels \union {"createExpire", "done", "createHash", "handoffClaim"}) = {}
      /\ {"createHash", "done", "handoffClaim"} \intersect (JoinLabels \union {"createExpire"}) = {}
  BY DEF Working, RoomLabels, StartLabels, HandoffLabels, JoinLabels
<1>5. ASSUME NEW r \in Rooms  PROVE  ToldOK(r)' /\ OwnerOK(r)'
  <2>1. ToldOK(r) /\ OwnerOK(r)
    BY DEF HandoffsOK
  <2>2. CASE Stays(r)
    <3>1. ToldOK(r)'
      BY <1>1, <2>1, <2>2 DEF ToldOK, Stays
    <3>2. OwnerOK(r)'
      BY <1>2, <2>1, <2>2 DEF OwnerOK, Stays, Goes
    <3>3. QED
      BY <3>1, <3>2
  <2>3. CASE Vanishes(r)
    <3>1. ToldOK(r)'
      <4>1. SUFFICES ASSUME r \notin torn, r \notin torn', told[r] # {}
                     PROVE  /\ \E m \in Nat : told[r] = {m}
                            /\ \A h \in Requests : ~Holds(h, r)'
        BY <2>3 DEF ToldOK, Vanishes
      <4>2. CASE room[r].match = 0
        BY <1>1, <2>1, <4>1, <4>2 DEF ToldOK
      <4>3. CASE room[r].match # 0
        <5>1. room[r].match \in Nat /\ told[r] = {room[r].match}
          BY <2>1, <4>1, <4>3 DEF ToldOK, TypesOK, RoomShape, RoomRecord
        <5>2. \A h \in Requests : req'[h].room # r
          BY <2>3, <4>1, <4>3 DEF Vanishes
        <5>3. QED
          BY <5>1, <5>2 DEF Holds
      <4>4. QED
        BY <4>2, <4>3
    <3>2. OwnerOK(r)'
      BY <2>3 DEF OwnerOK, Vanishes
    <3>3. QED
      BY <3>1, <3>2
  <2>4. CASE Matched(r)
    <3>1. ToldOK(r)'
      BY <2>4 DEF ToldOK, Matched
    <3>2. OwnerOK(r)'
      BY <1>2, <2>1, <2>4 DEF OwnerOK, Matched, Goes
    <3>3. QED
      BY <3>1, <3>2
  <2>5. CASE Made(r)
    <3>1. ToldOK(r)'
      BY <2>5 DEF ToldOK, Made
    <3>2. OwnerOK(r)'
      BY <1>2, <1>4, <2>5 DEF OwnerOK, Made
    <3>3. QED
      BY <3>1, <3>2
  <2>6. QED
    BY <2>2, <2>3, <2>4, <2>5
<1>6. ASSUME NEW h \in Requests  PROVE  FreshOK(h)'
  <2>1. SUFFICES ASSUME req'[h].pc = "createHash"  PROVE  FreshOK(h)'
    BY DEF FreshOK, At
  <2>2. req'[h] = req[h]
    BY <2>1 DEF Goes
  <2>3. PICK r \in Rooms : r = req[h].room
    BY <1>3, <1>4, <2>1, <2>2
  <2>4. Drawn(h, r) /\ FreshOK(h)
    BY <2>1, <2>2, <2>3 DEF Drawn, At, HandoffsOK
  <2>5. ~room'[r].exists /\ room'[r].match = 0 /\ told'[r] = {}
    <3>1. ~Matched(r) /\ ~Made(r)
      BY <1>4, <2>1, <2>2, <2>3, <2>4 DEF Matched, Made
    <3>2. QED
      BY <2>3, <2>4, <3>1 DEF FreshOK, Drawn, Stays, Vanishes
  <2>6. \A i \in Nat : ~MadeBy(i, r)'
    BY <1>2, <2>3, <2>4 DEF FreshOK, Drawn
  <2>7. \A u \in Users : roomOf'[u] # r
    BY <2>3, <2>4 DEF FreshOK, Drawn
  <2>8. \A g \in Requests : g # h /\ req'[g].room = r => req'[g].pc \in JoinLabels
    BY <2>3, <2>4 DEF FreshOK, Drawn, Goes
  <2>9. QED
    BY <2>2, <2>3, <2>5, <2>6, <2>7, <2>8 DEF FreshOK
<1>7. ClaimsOK'
  <2>1. SUFFICES ASSUME slow = 0, slow' = 0
                 PROVE  /\ OneRow' /\ OneWorker' /\ \A h \in Requests : RowFits(h)'
                        /\ \A h \in Requests : req'[h].room \in Rooms => ClaimFits(h)'
    BY DEF ClaimsOK
  <2>2. /\ OneRow /\ OneWorker /\ \A h \in Requests : RowFits(h)
        /\ \A h \in Requests : req[h].room \in Rooms => ClaimFits(h)
    BY <2>1 DEF HandoffsOK, ClaimsOK
  <2>3. OneRow'
    BY <1>2, <2>2 DEF OneRow
  <2>4. \A h \in Requests : req'[h].pc \in Working =>
           req[h].pc \in Working /\ req'[h].room = req[h].room /\ req'[h].owner = req[h].owner
    BY DEF Goes
  <2>5. OneWorker'
    BY <2>2, <2>4 DEF OneWorker
  <2>6. ASSUME NEW h \in Requests  PROVE  RowFits(h)'
    <3>1. SUFFICES ASSUME req'[h].pc \in Working, NEW i \in Nat, MadeBy(i, req[h].room)'
                   PROVE  /\ req'[h].pc \notin {"adoptGuest", "createRow"}
                          /\ matches'[i].players[1] = req'[h].owner
      BY DEF RowFits
    <3>2. req'[h].room \in Rooms
      BY <1>3, <1>4, <3>1
    <3>3. MadeBy(i, req[h].room) /\ matches'[i].players = matches[i].players
      BY <1>2, <2>4, <3>1, <3>2
    <3>4. matches[i].players[1] = req[h].owner /\ req[h].pc \notin {"adoptGuest", "createRow"}
      BY <2>2, <2>4, <3>1, <3>3 DEF RowFits
    <3>5. req'[h].pc \notin {"adoptGuest", "createRow"}
      BY <2>1, <2>4, <3>1, <3>3, <3>4 DEF Goes
    <3>6. QED
      BY <2>4, <3>1, <3>3, <3>4, <3>5
  <2>7. ASSUME NEW h \in Requests, NEW r \in Rooms, req'[h].room = r  PROVE  ClaimFits(h)'
    <3>1. SUFFICES ASSUME room'[r].exists, ~Made(r)  PROVE  ClaimFits(h)'
      BY <1>4, <2>7 DEF ClaimFits, Made, At
    <3>2. room[r].exists /\ (room[r].match # 0 => room'[r].match # 0)
      BY <3>1 DEF Stays, Vanishes, Matched
    <3>3. ASSUME Holds(h, r)', room'[r].match = 0 \/ req'[h].pc \in Working
          PROVE  claim'[r] = h
      <4>1. Holds(h, r) /\ (room[r].match = 0 \/ req[h].pc \in Working)
        <5>1. CASE req'[h].pc \in Working
          BY <1>4, <2>4, <2>7, <5>1 DEF Holds
        <5>2. CASE room'[r].match = 0
          BY <1>1, <3>2, <3>3, <5>2 DEF Holds
        <5>3. QED
          BY <3>3, <5>1, <5>2
      <4>2. claim[r] = h
        <5>1. ClaimFits(h) /\ req[h].room = r
          BY <2>2, <4>1 DEF Holds
        <5>2. req[h].pc \in Working \/ (req[h].pc = "done" /\ room[r].match = 0)
          BY <1>4, <4>1 DEF Holds
        <5>3. room[req[h].room].exists
          BY <3>2, <5>1
        <5>4. QED
          BY <5>1, <5>2, <5>3 DEF ClaimFits, At
      <4>3. QED
        BY <2>1, <3>1, <3>3, <4>2
    <3>4. req'[h].pc \in Working => claim'[r] = h
      BY <1>4, <2>7, <3>3 DEF Holds
    <3>5. req'[h].pc = "done" /\ room'[r].match = 0 => claim'[r] = h
      BY <1>4, <2>7, <3>3 DEF Holds
    <3>6. QED
      BY <2>7, <3>4, <3>5 DEF ClaimFits, At
  <2>8. QED
    BY <2>3, <2>5, <2>6, <2>7
<1>8. ASSUME NEW h \in Requests  PROVE  SeenOK(h)'
  <2>1. SUFFICES ASSUME NEW r \in Rooms, req'[h].room = r, req'[h].pc = "handoffClaim",
                        req'[h].match # 0, room'[r].exists
                 PROVE  room'[r].match # 0
    BY <1>3, <1>4 DEF SeenOK, At
  <2>2. room[r].exists /\ (room[r].match # 0 => room'[r].match # 0)
    BY <1>4, <2>1 DEF Stays, Vanishes, Matched, Made
  <2>3. CASE req'[h] = req[h]
    BY <2>1, <2>2, <2>3 DEF HandoffsOK, SeenOK, At
  <2>4. CASE Goes(h, req'[h])
    BY <2>1, <2>2, <2>4 DEF Goes
  <2>5. QED
    BY <2>3, <2>4
<1>9. QED
  BY <1>5, <1>6, <1>7, <1>8 DEF HandoffsOK
-----------------------------------------------------------------------------
(* Steps that change at most the rows, a code and a request.               *)

LEMMA QuietStep ==
  ASSUME EntryInv, RowsKept, Len(matches') \in Nat, codeOf' \subseteq Rooms,
         UNCHANGED <<room, roomOf, claim, told, stray, torn, slow>>,
         req' \in [Requests -> ReqRecord],
         \A g \in Requests :
            \/ req'[g] = req[g]
            \/ KnownOK(req'[g], Len(matches')) /\ Goes(g, req'[g]) /\ Continues(g, req'[g])
  PROVE  RoomInv'
<1>1. QueueShape /\ TypesOK /\ MembersOK /\ HandoffsOK /\ RoomShape
  BY DEF EntryInv, RoomInv, TypesOK
<1>2. TypesOK'
  BY <1>1, TypesStand DEF RoomShape, RowsKept
<1>3. MembersOK'
  BY <1>1, MembersStand DEF Lists
<1>4. HandoffsOK'
  <2>1. \A r \in Rooms : Stays(r)
    BY DEF Stays
  <2>2. QED
    BY <1>1, <1>2, <2>1, HandoffsStand
<1>5. QED
  BY <1>2, <1>3, <1>4 DEF RoomInv

\* The rooms sleep while the queue moves.
LEMMA RoomsSleep ==
  ASSUME EntryInv, RowsKept, Len(matches') \in Nat, UNCHANGED roomVars, slow' = slow
  PROVE  RoomInv'
<1>1. UNCHANGED <<room, codeOf, roomOf, claim, req, told, stray, torn>>
  BY DEF roomVars
<1>2. codeOf' \subseteq Rooms /\ req' \in [Requests -> ReqRecord]
  BY <1>1 DEF EntryInv, RoomInv, TypesOK, RoomShape
<1>3. QED
  BY <1>1, <1>2, QuietStep

\* One request goes on, and nothing else happens.
LEMMA LookStep ==
  ASSUME EntryInv, NEW h \in Requests, NEW c, Becomes(h, c),
         KnownOK(c, Len(matches)), Goes(h, c), Continues(h, c),
         UNCHANGED <<room, codeOf, roomOf, claim, told, stray, torn, matches, slow>>
  PROVE  RoomInv'
<1>1. /\ req' \in [Requests -> ReqRecord] /\ req'[h] = c
      /\ \A g \in Requests : g # h => req'[g] = req[g]
  BY TheRequests DEF EntryInv, RoomInv, TypesOK
<1>2. RowsKept /\ Len(matches') \in Nat /\ codeOf' \subseteq Rooms
  BY RowsStay DEF EntryInv, RoomInv, TypesOK, RoomShape, QueueShape
<1>3. QED
  BY <1>1, <1>2, QuietStep

LEMMA IdleIsOK ==
  ASSUME NEW h \in Requests, NEW n, TypesOK, RoomsAssumption
  PROVE  KnownOK(IdleRequest, n) /\ Goes(h, IdleRequest) /\ Continues(h, IdleRequest)
<1>1. /\ IdleRequest.pc = "idle" /\ IdleRequest.room = Nobody
      /\ "idle" \notin CreateLabels \union RoomLabels \union Working \union HandoffLabels
  BY DEF IdleRequest, CreateLabels, RoomLabels, JoinLabels, LeaveLabels, StartLabels, Working,
     HandoffLabels
<1>2. \A g \in Requests : ~Drawn(g, Nobody)
  BY DEF Drawn, At, TypesOK, KnownOK, RoomLabels, RoomsAssumption
<1>3. QED
  BY <1>1, <1>2 DEF KnownOK, Goes, Continues

LEMMA AnswerStep ==
  ASSUME EntryInv, RoomsAssumption, NEW h \in Requests, Answer(h),
         UNCHANGED <<room, codeOf, roomOf, claim, told, stray, torn, matches, slow>>
  PROVE  RoomInv'
BY IdleIsOK, Answered, LookStep DEF EntryInv, RoomInv

\* Whoever is not about to join a room knows that no creation has just drawn it.
LEMMA OldRoom ==
  ASSUME EntryInv, NEW h \in Requests, req[h].pc \notin JoinLabels
  PROVE  \A g \in Requests : g # h => ~Drawn(g, req[h].room)
BY DEF EntryInv, RoomInv, HandoffsOK, FreshOK, Drawn

\* A room that exists, or is somebody's, has not just been drawn either.
LEMMA OldPlace ==
  ASSUME EntryInv, NEW r, room[r].exists \/ \E u \in Users : roomOf[u] = r
  PROVE  \A g \in Requests : ~Drawn(g, r)
BY DEF EntryInv, RoomInv, HandoffsOK, FreshOK, Drawn

\* A request goes to a label that is about no handoff yet.
LEMMA PassStep ==
  ASSUME EntryInv, NEW h \in Requests, NEW label \in Labels, Go(h, label),
         UNCHANGED <<room, codeOf, roomOf, claim, told, stray, torn, matches, slow>>,
         label \notin HandoffLabels \union {"createHash", "handoffClaim"},
         req[h].pc # "idle", label \in RoomLabels => req[h].pc \in RoomLabels,
         req[h].pc \in JoinLabels => label \in JoinLabels,
         label \in CreateLabels =>
            req[h].pc \in CreateLabels /\ (req[h].pc \in HashWritten => label \in HashWritten)
  PROVE  RoomInv'
<1>1. PICK c : Becomes(h, c) /\ c.pc = label /\ c.user = req[h].user /\ c.room = req[h].room
  BY GoesOn DEF EntryInv, RoomInv, TypesOK
<1>2. Working \subseteq HandoffLabels /\ {"serve", "done"} \subseteq HandoffLabels
      /\ {"adoptGuest", "createRow"} \subseteq HandoffLabels
  BY DEF Working, HandoffLabels
<1>3. KnownOK(c, Len(matches))
  BY <1>1, <1>2 DEF KnownOK, EntryInv, RoomInv, TypesOK
<1>4. Goes(h, c)
  BY <1>1, <1>2, OldRoom DEF Goes
<1>5. Continues(h, c)
  BY <1>1 DEF Continues
<1>6. QED
  BY <1>1, <1>3, <1>4, <1>5, LookStep

LEMMA CheckSteps ==
  ASSUME EntryInv, RoomsAssumption, NEW h \in Requests, CheckNoMatch(h) \/ CheckNotQueued(h)
  PROVE  RoomInv'
<1>1. UNCHANGED <<room, codeOf, roomOf, claim, told, stray, torn, matches, slow>>
  BY DEF CheckNoMatch, CheckNotQueued, queueVars
<1>2. CASE Answer(h)
  BY <1>1, <1>2, AnswerStep
<1>3. ASSUME NEW label, Go(h, label),
             \/ /\ label \in {"createQueued", "createCode", "createUndo"}
                /\ req[h].pc \in {"createActive", "createQueued"}
             \/ label \in {"joinQueued", "joinClaim"} /\ req[h].pc \in {"joinActive", "joinQueued"}
      PROVE  RoomInv'
  <2>1. /\ label \in Labels /\ label \notin HandoffLabels \union {"createHash", "handoffClaim"}
        /\ req[h].pc # "idle" /\ (label \in RoomLabels => req[h].pc \in RoomLabels)
        /\ req[h].pc \in JoinLabels => label \in JoinLabels
        /\ label \in CreateLabels =>
              req[h].pc \in CreateLabels /\ (req[h].pc \in HashWritten => label \in HashWritten)
    BY <1>3 DEF Labels, CreateLabels, JoinLabels, LeaveLabels, StartLabels, RoomLabels, Working,
       HandoffLabels, HashWritten
  <2>2. QED
    BY <1>1, <1>3, <2>1, PassStep
<1>4. QED
  BY <1>2, <1>3 DEF CheckNoMatch, CheckNotQueued, At

\* A request about a room begins; if it is not to join, the room is the user's.
LEMMA BeginSteps ==
  ASSUME EntryInv, RoomsAssumption, NEW h \in Requests, NEW u \in Users,
         \/ GetMyRoom(h, u) \/ LeaveRoom(h, u) \/ StartRoom(h, u)
         \/ \E r \in Rooms : JoinRoom(h, u, r)
  PROVE  RoomInv'
<1>1. UNCHANGED <<room, codeOf, roomOf, claim, told, stray, torn, matches, slow>>
  BY DEF GetMyRoom, LeaveRoom, StartRoom, JoinRoom, queueVars
<1>2. PICK r \in Rooms, label \in {"joinMapping", "getLoad", "leave", "startLoad"} :
         Begin(h, u, label, r) /\ (label # "joinMapping" => roomOf[u] = r)
  BY DEF GetMyRoom, LeaveRoom, StartRoom, JoinRoom
<1>3. /\ label \in Labels /\ label # "idle" /\ "joinMapping" \in JoinLabels
      /\ label \notin HandoffLabels \union Working \union CreateLabels
                        \union {"createHash", "handoffClaim", "serve", "done"}
  BY DEF Labels, CreateLabels, JoinLabels, LeaveLabels, StartLabels, Working, HandoffLabels
<1>4. PICK c : Becomes(h, c) /\ c.pc = label /\ c.user = u /\ c.room = r
  BY <1>2, <1>3, Begins DEF EntryInv, RoomInv, TypesOK
<1>5. KnownOK(c, Len(matches))
  BY <1>3, <1>4 DEF KnownOK
<1>6. Goes(h, c)
  <2>1. {"adoptGuest", "createRow"} \subseteq Working
    BY DEF Working
  <2>2. QED
    BY <1>2, <1>3, <1>4, <2>1, OldPlace DEF Goes
<1>7. Continues(h, c)
  BY <1>3, <1>4 DEF Continues
<1>8. QED
  BY <1>1, <1>4, <1>5, <1>6, <1>7, LookStep

LEMMA LookSteps ==
  ASSUME EntryInv, RoomsAssumption, NEW h \in Requests,
         JoinMapping(h) \/ GetLoad(h) \/ StartLoad(h)
  PROVE  RoomInv'
<1>1. UNCHANGED <<room, codeOf, roomOf, claim, told, stray, torn, matches, slow>>
  BY DEF JoinMapping, GetLoad, StartLoad, queueVars
<1>2. CASE Answer(h)
  BY <1>1, <1>2, AnswerStep
<1>3. ASSUME NEW label, Go(h, label),
             \/ label = "joinActive" /\ req[h].pc = "joinMapping"
             \/ label = "dropMapping" /\ req[h].pc = "getLoad"
             \/ label = "handoffLoad" /\ req[h].pc = "startLoad"
      PROVE  RoomInv'
  <2>1. /\ label \in Labels /\ label \notin HandoffLabels \union {"createHash", "handoffClaim"}
        /\ req[h].pc # "idle" /\ req[h].pc \in RoomLabels
        /\ req[h].pc \in JoinLabels => label \in JoinLabels
        /\ label \notin CreateLabels
    BY <1>3 DEF Labels, CreateLabels, JoinLabels, LeaveLabels, StartLabels, RoomLabels, Working,
       HandoffLabels
  <2>2. QED
    BY <1>1, <1>3, <2>1, PassStep
<1>4. QED
  BY <1>2, <1>3 DEF JoinMapping, GetLoad, StartLoad, At
-----------------------------------------------------------------------------
(* A handoff.                                                              *)

\* What there is to know of a request on its way through a handoff.
LEMMA WorkerFacts ==
  ASSUME EntryInv, NEW h \in Requests,
         req[h].pc \in {"handoffLoad", "handoffClaim", "done"} \union Working
  PROVE  /\ req[h] \in ReqRecord /\ KnownOK(req[h], Len(matches))
         /\ req[h].user \in Users /\ req[h].room \in Rooms /\ req[h].pc \in RoomLabels
         /\ req[h].pc \notin JoinLabels \union CreateLabels
         /\ room[req[h].room] \in RoomRecord /\ RecordOK(room[req[h].room], Len(matches))
         /\ \A g \in Requests : ~Drawn(g, req[h].room)
<1>1. /\ req[h].pc \in RoomLabels /\ req[h].pc # "idle" /\ req[h].pc # "createHash"
      /\ req[h].pc \notin JoinLabels \union CreateLabels
  BY DEF RoomLabels, StartLabels, Working, JoinLabels, CreateLabels
<1>2. /\ req[h] \in ReqRecord /\ KnownOK(req[h], Len(matches))
      /\ req[h].user \in Users /\ req[h].room \in Rooms
      /\ room[req[h].room] \in RoomRecord /\ RecordOK(room[req[h].room], Len(matches))
  BY <1>1 DEF EntryInv, RoomInv, TypesOK, RoomShape, KnownOK
<1>3. \A g \in Requests : ~Drawn(g, req[h].room)
  BY <1>1, OldRoom DEF Drawn, At
<1>4. QED
  BY <1>1, <1>2, <1>3

LEMMA HandoffLoadStep ==
  ASSUME EntryInv, NEW h \in Requests, HandoffLoad(h)
  PROVE  RoomInv'
<1> DEFINE view == room[req[h].room]
           c == [req[h] EXCEPT !.pc = "handoffClaim", !.owner = view.owner,
                               !.guest = view.guest, !.match = view.match]
<1>1. UNCHANGED <<room, codeOf, roomOf, claim, told, stray, torn, matches, slow>>
  BY DEF HandoffLoad, queueVars
<1>2. /\ req[h] \in ReqRecord /\ KnownOK(req[h], Len(matches))
      /\ req[h].user \in Users /\ req[h].room \in Rooms
      /\ view \in RoomRecord /\ RecordOK(view, Len(matches))
      /\ \A g \in Requests : ~Drawn(g, req[h].room)
  BY WorkerFacts DEF HandoffLoad, At
<1>3. /\ c \in ReqRecord /\ c.pc = "handoffClaim" /\ c.user = req[h].user
      /\ c.room = req[h].room /\ c.match = view.match
  BY <1>2 DEF ReqRecord, RoomRecord, Labels, StartLabels
<1>4. Becomes(h, c)
  BY <1>3 DEF Becomes, HandoffLoad
<1>5. c.pc \notin Working \union HandoffLabels \union CreateLabels
  BY <1>3 DEF Working, HandoffLabels, CreateLabels
<1>6. KnownOK(c, Len(matches))
  BY <1>2, <1>3, <1>5 DEF KnownOK, RecordOK
<1>7. Goes(h, c) /\ Continues(h, c)
  BY <1>2, <1>3, <1>5 DEF Goes, Continues
<1>8. QED
  BY <1>1, <1>4, <1>6, <1>7, LookStep

\* A worker stays a worker: its next label is about the same handoff.
LEMMA WorkStep ==
  ASSUME EntryInv, NEW h \in Requests, req[h].pc \in Working, NEW c, Becomes(h, c),
         c.pc \in HandoffLabels, c.user = req[h].user, c.room = req[h].room,
         c.owner = req[h].owner, c.guest = req[h].guest,
         c.pc \in {"serve", "done"} => c.match \in 1 .. Len(matches'),
         slow = 0 /\ c.pc \in {"adoptGuest", "createRow"} =>
            \A i \in Nat : ~MadeBy(i, req[h].room),
         RowsKept, Len(matches') \in Nat,
         UNCHANGED <<room, codeOf, roomOf, claim, told, stray, torn, slow>>
  PROVE  RoomInv'
<1>1. /\ req' \in [Requests -> ReqRecord] /\ req'[h] = c
      /\ \A g \in Requests : g # h => req'[g] = req[g]
  BY TheRequests DEF EntryInv, RoomInv, TypesOK
<1>2. codeOf' \subseteq Rooms
  BY DEF EntryInv, RoomInv, TypesOK, RoomShape
<1>3. /\ req[h].user \in Users /\ req[h].room \in Rooms /\ KnownOK(req[h], Len(matches))
      /\ \A g \in Requests : ~Drawn(g, req[h].room)
  BY WorkerFacts
<1>4. c.pc # "createHash" /\ c.pc # "handoffClaim" /\ c.pc \notin CreateLabels
      /\ req[h].pc \in HandoffLabels
  BY DEF HandoffLabels, CreateLabels, Working
<1>5. KnownOK(c, Len(matches'))
  BY <1>3, <1>4 DEF KnownOK
<1>6. Goes(h, c) /\ Continues(h, c)
  BY <1>3, <1>4 DEF Goes, Continues, Holds
<1>7. QED
  BY <1>1, <1>2, <1>5, <1>6, QuietStep

LEMMA LiveRow ==
  ASSUME QueueShape, NEW i \in 1 .. Len(matches), matches[i].active
  PROVE  /\ matches[i].players \in Pairs /\ matches[i].by \in Origins
         /\ i \in DOMAIN matches
<1>1. matches[i] \in Rows /\ i \in DOMAIN matches
  BY DEF QueueShape
<1>2. matches[i] # EndedMatch
  BY DEF EndedMatch
<1>3. QED
  BY <1>1, <1>2 DEF Rows

LEMMA AdoptStep ==
  ASSUME EntryInv, NEW h \in Requests, AdoptOwner(h) \/ AdoptGuest(h)
  PROVE  RoomInv'
<1>1. UNCHANGED <<room, codeOf, roomOf, claim, told, stray, torn, matches, slow>>
  BY DEF AdoptOwner, AdoptGuest, queueVars
<1>2. req[h].pc \in {"adoptOwner", "adoptGuest"} /\ req[h].pc \in Working
  BY DEF AdoptOwner, AdoptGuest, At, Working
<1>3. req[h] \in ReqRecord
  BY <1>2, WorkerFacts
<1>4. RowsKept /\ Len(matches') \in Nat
  BY <1>1, RowsStay DEF EntryInv, QueueShape
<1>5. ASSUME NEW i \in DOMAIN matches,
             req' = [req EXCEPT ![h] = [@ EXCEPT !.pc = "done", !.match = i]]
      PROVE  RoomInv'
  <2> DEFINE c == [req[h] EXCEPT !.pc = "done", !.match = i]
  <2>1. i \in 1 .. Len(matches) /\ i \in Nat
    BY <1>5 DEF EntryInv, QueueShape
  <2>2. /\ c \in ReqRecord /\ c.pc = "done" /\ c.match = i /\ c.user = req[h].user
        /\ c.room = req[h].room /\ c.owner = req[h].owner /\ c.guest = req[h].guest
    BY <1>3, <2>1 DEF ReqRecord, Labels, StartLabels
  <2>3. Becomes(h, c) /\ c.pc \in HandoffLabels
    BY <1>5, <2>2 DEF Becomes, HandoffLabels
  <2>4. QED
    BY <1>1, <1>2, <1>4, <2>1, <2>2, <2>3, WorkStep
<1>6. ASSUME NEW label \in {"adoptGuest", "createRow"}, Go(h, label),
             slow = 0 => \A i \in Nat : ~MadeBy(i, req[h].room)
      PROVE  RoomInv'
  <2>1. label \in Labels /\ label \in HandoffLabels
    BY DEF Labels, StartLabels, Working, HandoffLabels
  <2>2. PICK c : /\ Becomes(h, c) /\ c.pc = label /\ c.user = req[h].user
                 /\ c.room = req[h].room /\ c.owner = req[h].owner /\ c.guest = req[h].guest
    BY <1>6, <2>1, GoesOn DEF EntryInv, RoomInv, TypesOK
  <2>3. QED
    BY <1>1, <1>2, <1>4, <1>6, <2>1, <2>2, WorkStep
<1>7. slow = 0 => RowFits(h)
  BY DEF EntryInv, RoomInv, HandoffsOK, ClaimsOK
<1>8. CASE AdoptOwner(h)
  <2>1. CASE InMatch(req[h].owner)
    BY <1>5, <1>8, <2>1 DEF AdoptOwner, Adopt, MatchesOf
  <2>2. CASE ~InMatch(req[h].owner)
    <3>1. Go(h, "adoptGuest")
      BY <1>8, <2>2 DEF AdoptOwner, Adopt
    <3>2. ASSUME slow = 0, NEW i \in Nat, MadeBy(i, req[h].room)  PROVE  FALSE
      <4>1. i \in 1 .. Len(matches) /\ matches[i].active
        BY <3>2 DEF MadeBy
      <4>2. matches[i].players[1] = req[h].owner
        BY <1>2, <1>7, <3>2 DEF RowFits
      <4>3. matches[i].players \in Pairs /\ i \in DOMAIN matches
        BY <4>1, LiveRow DEF EntryInv
      <4>4. req[h].owner \in ToSet(matches[i].players)
        BY <4>2, <4>3, PairSet
      <4>5. QED
        BY <2>2, <4>1, <4>3, <4>4 DEF InMatch, MatchesOf
    <3>3. QED
      BY <1>6, <3>1, <3>2
  <2>3. QED
    BY <2>1, <2>2
<1>9. CASE AdoptGuest(h)
  <2>1. CASE InMatch(req[h].guest)
    BY <1>5, <1>9, <2>1 DEF AdoptGuest, Adopt, MatchesOf
  <2>2. CASE ~InMatch(req[h].guest)
    <3>1. Go(h, "createRow") /\ req[h].pc = "adoptGuest"
      BY <1>9, <2>2 DEF AdoptGuest, Adopt, At
    <3>2. slow = 0 => \A i \in Nat : ~MadeBy(i, req[h].room)
      BY <1>2, <1>7, <3>1 DEF RowFits
    <3>3. QED
      BY <1>6, <3>1, <3>2
  <2>3. QED
    BY <2>1, <2>2
<1>10. QED
  BY <1>8, <1>9

LEMMA ServeStep ==
  ASSUME EntryInv, NEW h \in Requests, Serve(h)
  PROVE  EntryInv' /\ RowsKept
<1>1. req[h].pc = "serve" /\ req[h].pc \in Working
  BY DEF Serve, At, Working
<1>2. PICK k \in 1 .. Len(matches) : k = req[h].match
  BY <1>1, WorkerFacts DEF KnownOK
<1>3. /\ matches' = [matches EXCEPT ![k].served = TRUE] /\ Go(h, "done")
      /\ UNCHANGED <<queue, joining, poll, crashes, faults, slow, promised>>
      /\ UNCHANGED <<room, codeOf, roomOf, claim, told, stray, torn>>
  BY <1>2 DEF Serve
<1>4. matches' \in Seq(Rows) /\ Len(matches') = Len(matches) /\ RowsKept
  BY <1>2, <1>3, RowServed DEF EntryInv
<1>5. Len(matches') \in Nat
  BY <1>4
<1>6. QueueShape'
  BY <1>3, <1>4 DEF EntryInv, QueueShape, IsPoll
<1>7. "done" \in Labels /\ "done" \in HandoffLabels
  BY DEF Labels, StartLabels, HandoffLabels
<1>8. PICK c : /\ Becomes(h, c) /\ c.pc = "done" /\ c.user = req[h].user /\ c.match = k
               /\ c.room = req[h].room /\ c.owner = req[h].owner /\ c.guest = req[h].guest
  BY <1>2, <1>3, <1>7, GoesOn DEF EntryInv, RoomInv, TypesOK
<1>9. RoomInv'
  BY <1>1, <1>3, <1>4, <1>5, <1>7, <1>8, WorkStep
<1>10. QED
  BY <1>4, <1>6, <1>9 DEF EntryInv

LEMMA CallFailsStep ==
  ASSUME EntryInv, RoomsAssumption, NEW h \in Requests, CallFails(h)
  PROVE  RoomInv'
<1>1. UNCHANGED <<room, codeOf, roomOf, claim, told, stray, torn, matches, slow>>
  BY DEF CallFails
<1>2. CASE Answer(h)
  BY <1>1, <1>2, AnswerStep
<1>3. CASE req[h].pc \in CreateLabels \ {"createUndo"} /\ Go(h, "createUndo")
  <2>1. /\ "createUndo" \in Labels /\ req[h].pc # "idle" /\ req[h].pc \notin JoinLabels
        /\ "createUndo" \notin HandoffLabels \union {"createHash", "handoffClaim"} \union RoomLabels
        /\ "createUndo" \in HashWritten
    BY <1>3 DEF Labels, CreateLabels, JoinLabels, LeaveLabels, StartLabels, RoomLabels, Working,
       HandoffLabels, HashWritten
  <2>2. QED
    BY <1>1, <1>3, <2>1, PassStep
<1>4. CASE req[h].pc \in {"createRow", "serve"} /\ Go(h, "abort")
  <2>1. "abort" \in Labels /\ "abort" \in HandoffLabels /\ req[h].pc \in Working
    BY <1>4 DEF Labels, StartLabels, Working, HandoffLabels
  <2>2. PICK c : /\ Becomes(h, c) /\ c.pc = "abort" /\ c.user = req[h].user
                 /\ c.room = req[h].room /\ c.owner = req[h].owner /\ c.guest = req[h].guest
    BY <1>4, <2>1, GoesOn DEF EntryInv, RoomInv, TypesOK
  <2>3. RowsKept /\ Len(matches') \in Nat
    BY <1>1, RowsStay DEF EntryInv, QueueShape
  <2>4. QED
    BY <1>1, <2>1, <2>2, <2>3, WorkStep
<1>5. QED
  BY <1>2, <1>3, <1>4 DEF CallFails, At

LEMMA HandoffClaimStep ==
  ASSUME EntryInv, RoomsAssumption, NEW h \in Requests, HandoffClaim(h)
  PROVE  RoomInv'
<1> DEFINE r == req[h].room  me == room[r]
<1>1. UNCHANGED <<room, codeOf, roomOf, told, stray, torn, matches, slow>>
  BY DEF HandoffClaim, queueVars
<1>2. /\ req[h].pc = "handoffClaim" /\ req[h] \in ReqRecord /\ KnownOK(req[h], Len(matches))
      /\ req[h].user \in Users /\ r \in Rooms /\ me \in RoomRecord
      /\ RecordOK(me, Len(matches)) /\ \A g \in Requests : ~Drawn(g, r)
  BY WorkerFacts DEF HandoffClaim, At
<1>3. TypesOK /\ MembersOK /\ HandoffsOK /\ RoomShape /\ QueueShape
  BY DEF EntryInv, RoomInv, TypesOK
<1>4. CASE Answer(h) /\ UNCHANGED claim
  BY <1>1, <1>4, AnswerStep
<1>5. CASE Go(h, "done") /\ UNCHANGED claim /\ me.exists /\ req[h].match # 0
  <2>1. /\ "done" \in Labels /\ "done" \notin Working \union CreateLabels
        /\ {"adoptGuest", "createRow"} \subseteq Working
    BY DEF Labels, StartLabels, Working, CreateLabels
  <2>2. PICK c : /\ Becomes(h, c) /\ c.pc = "done" /\ c.user = req[h].user /\ c.room = r
                 /\ c.match = req[h].match
    BY <1>3, <1>5, <2>1, GoesOn
  <2>3. KnownOK(c, Len(matches))
    BY <1>2, <1>5, <2>1, <2>2 DEF KnownOK
  <2>4. me.match # 0
    BY <1>2, <1>3, <1>5 DEF HandoffsOK, SeenOK, At
  <2>5. Goes(h, c) /\ Continues(h, c)
    BY <1>2, <2>1, <2>2, <2>4 DEF Goes, Continues
  <2>6. QED
    BY <1>1, <1>5, <2>2, <2>3, <2>5, LookStep
<1>6. CASE me.exists /\ me.status = "full" /\ claim[r] = Nobody
  <2> DEFINE c == [req[h] EXCEPT !.pc = "adoptOwner", !.owner = me.owner, !.guest = me.guest]
  <2>1. claim' = [claim EXCEPT ![r] = h] /\ req' = [req EXCEPT ![h] = c]
    BY <1>6 DEF HandoffClaim
  <2>2. /\ c \in ReqRecord /\ c.pc = "adoptOwner" /\ c.user = req[h].user /\ c.room = r
        /\ c.owner = me.owner /\ c.guest = me.guest
    BY <1>2 DEF ReqRecord, RoomRecord, Labels, StartLabels, Working
  <2> HIDE DEF c
  <2>3. /\ req' \in [Requests -> ReqRecord] /\ req'[h] = c
        /\ \A g \in Requests : g # h => req'[g] = req[g]
    BY <1>3, <2>1, <2>2, TheRequests DEF Becomes
  <2>4. claim' \in [Rooms -> Requests \union {Nobody}] /\ claim'[r] = h
        /\ \A s \in Rooms : s # r => claim'[s] = claim[s]
    BY <1>2, <1>3, <2>1 DEF RoomShape
  <2>5. /\ c.pc \in Working /\ c.pc \notin CreateLabels \union JoinLabels
        /\ c.pc \notin {"serve", "done", "handoffClaim", "createHash", "adoptGuest", "createRow"}
        /\ Working \subseteq RoomLabels /\ req[h].pc \notin Working \union HandoffLabels
    BY <1>2, <2>2 DEF Working, CreateLabels, JoinLabels, RoomLabels, StartLabels, HandoffLabels
  <2>6. KnownOK(c, Len(matches))
    BY <1>2, <1>6, <2>2, <2>5 DEF KnownOK, RecordOK
  <2>7. TypesOK'
    BY <1>1, <1>3, <2>3, <2>4, <2>6, TypesStand DEF RoomShape, QueueShape
  <2>8. MembersOK'
    <3>1. Continues(h, c)
      BY <2>5 DEF Continues
    <3>2. QED
      BY <1>1, <1>3, <2>3, <3>1, MembersStand DEF Lists
  <2>9. \A s \in Rooms : ToldOK(s)' /\ OwnerOK(s)'
    <3>1. ASSUME NEW s \in Rooms  PROVE  ToldOK(s)' /\ OwnerOK(s)'
      <4>1. ToldOK(s) /\ OwnerOK(s)
        BY <1>3 DEF HandoffsOK
      <4>2. ToldOK(s)'
        BY <1>1, <1>6, <2>2, <2>3, <4>1 DEF ToldOK, Holds
      <4>3. OwnerOK(s)'
        BY <1>1, <2>2, <2>3, <4>1 DEF OwnerOK, MadeBy
      <4>4. QED
        BY <4>2, <4>3
    <3>2. QED
      BY <3>1
  <2>10. \A g \in Requests : FreshOK(g)' /\ SeenOK(g)'
    <3>1. ASSUME NEW g \in Requests  PROVE  FreshOK(g)' /\ SeenOK(g)'
      <4>1. FreshOK(g) /\ SeenOK(g)
        BY <1>3 DEF HandoffsOK
      <4>2. CASE g = h
        BY <2>3, <2>5, <4>2 DEF FreshOK, SeenOK, At
      <4>3. CASE g # h
        <5>1. ~Drawn(g, r)
          BY <1>2
        <5>2. FreshOK(g)'
          BY <1>1, <2>2, <2>3, <4>1, <4>3, <5>1 DEF FreshOK, At, Drawn, MadeBy
        <5>3. SeenOK(g)'
          BY <1>1, <2>3, <4>1, <4>3 DEF SeenOK, At
        <5>4. QED
          BY <5>2, <5>3
      <4>4. QED
        BY <4>2, <4>3
    <3>2. QED
      BY <3>1
  <2>11. ClaimsOK'
    <3>1. SUFFICES ASSUME slow = 0
                   PROVE  /\ OneRow' /\ OneWorker' /\ \A g \in Requests : RowFits(g)'
                          /\ \A g \in Requests : req'[g].room \in Rooms => ClaimFits(g)'
      BY <1>1 DEF ClaimsOK
    <3>2. /\ OneRow /\ OneWorker /\ \A g \in Requests : RowFits(g)
          /\ \A g \in Requests : req[g].room \in Rooms => ClaimFits(g)
      BY <1>3, <3>1 DEF HandoffsOK, ClaimsOK
    <3>3. \A g \in Requests : claim[r] # g
      BY <1>6 DEF RoomsAssumption
    <3>4. \A g \in Requests : req[g].room = r =>
             /\ req[g].pc \notin Working
             /\ req[g].pc = "done" => me.match # 0
      BY <1>2, <1>6, <3>2, <3>3 DEF ClaimFits, At
    <3>5. OneRow'
      BY <1>1, <3>2 DEF OneRow, MadeBy
    <3>6. OneWorker'
      BY <2>2, <2>3, <3>2, <3>4 DEF OneWorker
    <3>7. ASSUME NEW g \in Requests  PROVE  RowFits(g)'
      <4>1. CASE g = h
        <5>1. \A i \in Nat : MadeBy(i, r) => matches[i].players[1] = me.owner
          BY <1>2, <1>3, <1>6 DEF HandoffsOK, OwnerOK
        <5>2. QED
          BY <1>1, <2>2, <2>3, <2>5, <4>1, <5>1 DEF RowFits, MadeBy
      <4>2. CASE g # h
        BY <1>1, <2>3, <3>2, <4>2 DEF RowFits, MadeBy
      <4>3. QED
        BY <4>1, <4>2
    <3>8. ASSUME NEW g \in Requests, req'[g].room \in Rooms  PROVE  ClaimFits(g)'
      <4>1. CASE g = h
        BY <2>2, <2>3, <2>4, <4>1 DEF ClaimFits, At
      <4>2. CASE g # h /\ req[g].room = r
        BY <1>1, <2>3, <3>4, <4>2 DEF ClaimFits, At
      <4>3. CASE g # h /\ req[g].room # r
        BY <1>1, <2>3, <2>4, <3>2, <3>8, <4>3 DEF ClaimFits, At
      <4>4. QED
        BY <4>1, <4>2, <4>3
    <3>9. QED
      BY <3>5, <3>6, <3>7, <3>8
  <2>12. QED
    BY <2>7, <2>8, <2>9, <2>10, <2>11 DEF RoomInv, HandoffsOK
<1>7. QED
  BY <1>4, <1>5, <1>6 DEF HandoffClaim, At

\* A worker's row is the new last one.
LEMMA NewRow ==
  ASSUME QueueShape, NEW p \in Pairs, NEW r \in Rooms, NEW row, row = NewMatch(p, r),
         matches' = Append(matches, row)
  PROVE  /\ matches' \in Seq(Rows) /\ Len(matches') = Len(matches) + 1
         /\ matches'[Len(matches) + 1] = row
         /\ \A i \in 1 .. Len(matches) : matches'[i] = matches[i]
         /\ row.players = p /\ row.by = r
<1>1. row \in Rows /\ row.players = p /\ row.by = r
  BY DEF NewMatch, Rows, Origins
<1>2. QED
  BY <1>1 DEF QueueShape

LEMMA CreateRowStep ==
  ASSUME EntryInv, NEW h \in Requests, CreateRow(h)
  PROVE  /\ EntryInv'
         /\ \A i \in Nat : MadeBy(i, "queue")' =>
               MadeBy(i, "queue") \/ req[h].room = "queue"
         /\ \A i \in 1 .. Len(matches) : matches'[i] = matches[i]
<1>0. PICK r, p : r = req[h].room /\ p = <<req[h].owner, req[h].guest>>
  OBVIOUS
<1>1. req[h].pc = "createRow" /\ req[h].pc \in Working
  BY DEF CreateRow, At, Working
<1>2. /\ req[h] \in ReqRecord /\ KnownOK(req[h], Len(matches))
      /\ req[h].user \in Users /\ r \in Rooms /\ \A g \in Requests : ~Drawn(g, r)
  BY <1>0, <1>1, WorkerFacts
<1>3. TypesOK /\ MembersOK /\ HandoffsOK /\ RoomShape /\ QueueShape
  BY DEF EntryInv, RoomInv, TypesOK
<1>4. PICK n \in Nat : n = Len(matches)
  BY <1>3 DEF QueueShape
<1>5. /\ UNCHANGED <<queue, joining, poll, crashes, faults, slow, promised>>
      /\ UNCHANGED <<room, codeOf, roomOf, claim, told, stray, torn>>
      /\ matches' = Append(matches, NewMatch(p, r))
      /\ req' = [req EXCEPT ![h].pc = "serve", ![h].match = n + 1]
  BY <1>0, <1>4 DEF CreateRow
<1>6. p \in Pairs /\ p[1] = req[h].owner
  BY <1>0, <1>1, <1>2 DEF KnownOK, Pairs
<1>7. /\ matches' \in Seq(Rows) /\ Len(matches') = n + 1 /\ matches'[n + 1].players = p
      /\ \A i \in 1 .. n : matches'[i] = matches[i]
      /\ \A i \in Nat : \A s \in Origins : MadeBy(i, s)' =>
            \/ MadeBy(i, s) /\ matches'[i].players = matches[i].players
            \/ i = n + 1 /\ s = r
  <2>1. PICK row : row = NewMatch(p, r)
    OBVIOUS
  <2>2. /\ matches' \in Seq(Rows) /\ Len(matches') = n + 1 /\ matches'[n + 1] = row
        /\ \A i \in 1 .. n : matches'[i] = matches[i]
        /\ row.players = p /\ row.by = r
    BY <1>2, <1>3, <1>4, <1>5, <1>6, <2>1, NewRow
  <2>3. ASSUME NEW i \in Nat, NEW s \in Origins, MadeBy(i, s)', i # n + 1
        PROVE  MadeBy(i, s) /\ matches'[i].players = matches[i].players
    <3>1. i \in 1 .. (n + 1) /\ matches'[i].active /\ matches'[i].by = s
      BY <2>2, <2>3 DEF MadeBy
    <3>2. i \in 1 .. n
      BY <2>3, <3>1
    <3>3. QED
      BY <1>4, <2>2, <3>1, <3>2 DEF MadeBy
  <2>4. ASSUME NEW s \in Origins, MadeBy(n + 1, s)'  PROVE  s = r
    BY <2>2, <2>4 DEF MadeBy
  <2>5. QED
    BY <2>2, <2>3, <2>4
<1>8. PICK c : c = [req[h] EXCEPT !.pc = "serve", !.match = n + 1]
  OBVIOUS
<1>9. /\ c \in ReqRecord /\ c.pc = "serve" /\ c.match = n + 1 /\ c.user = req[h].user
      /\ c.room = r /\ c.owner = req[h].owner /\ c.guest = req[h].guest
  <2>1. "serve" \in Labels /\ n + 1 \in Nat
    BY DEF Labels, StartLabels, Working
  <2>2. QED
    BY <1>0, <1>2, <1>8, <2>1 DEF ReqRecord
<1>10. req' = [req EXCEPT ![h] = c]
  BY <1>5, <1>8
<1>11. /\ req' \in [Requests -> ReqRecord] /\ req'[h] = c
       /\ \A g \in Requests : g # h => req'[g] = req[g]
  BY <1>3, <1>9, <1>10, TheRequests DEF Becomes
<1>12. c.pc \in Working /\ c.pc \notin CreateLabels \union JoinLabels
       /\ c.pc \notin {"done", "handoffClaim", "createHash", "adoptGuest", "createRow"}
       /\ HandoffLabels = Working \union {"done"} /\ Rooms \subseteq Origins
  BY <1>9 DEF Working, CreateLabels, JoinLabels, HandoffLabels, Origins
<1>13. QueueShape'
  <2>1. Len(matches') \in Nat /\ Len(matches') >= Len(matches)
    BY <1>4, <1>7
  <2>2. \A t \in Polls : IsPoll(poll[t])'
    BY <1>3, <1>4, <1>5, <1>7 DEF QueueShape, IsPoll
  <2>3. QED
    BY <1>3, <1>5, <1>7, <2>2 DEF QueueShape
<1>14. TypesOK'
  <2>1. KnownOK(c, Len(matches'))
    BY <1>1, <1>2, <1>7, <1>9, <1>12 DEF KnownOK
  <2>2. Len(matches') \in Nat /\ Len(matches') >= Len(matches)
    BY <1>4, <1>7
  <2>3. QED
    BY <1>3, <1>5, <1>11, <2>1, <2>2, TypesStand DEF RoomShape
<1>15. MembersOK'
  <2>1. Continues(h, c)
    BY <1>12 DEF Continues
  <2>2. QED
    BY <1>3, <1>5, <1>11, <2>1, MembersStand DEF Lists
<1>16. ASSUME NEW s \in Rooms  PROVE  ToldOK(s)' /\ OwnerOK(s)'
  <2>1. ToldOK(s) /\ OwnerOK(s)
    BY <1>3 DEF HandoffsOK
  <2>2. \A g \in Requests : Holds(g, s)' => Holds(g, s)
    BY <1>0, <1>1, <1>9, <1>11, <1>12 DEF Holds
  <2>3. ToldOK(s)'
    BY <1>5, <2>1, <2>2 DEF ToldOK
  <2>4. ASSUME room[s].exists, NEW i \in Nat, MadeBy(i, s)'
        PROVE  matches'[i].players[1] = room[s].owner
    <3>1. s = r => req[h].owner = room[s].owner
      BY <1>0, <1>1, <2>1, <2>4 DEF OwnerOK
    <3>2. MadeBy(i, s) => matches[i].players[1] = room[s].owner
      BY <2>1, <2>4 DEF OwnerOK
    <3>3. QED
      BY <1>6, <1>7, <1>12, <2>4, <3>1, <3>2
  <2>5. \A g \in Requests : req'[g].pc \in Working =>
           req[g].pc \in Working /\ req'[g].room = req[g].room /\ req'[g].owner = req[g].owner
    BY <1>0, <1>1, <1>9, <1>11
  <2>6. OwnerOK(s)'
    BY <1>5, <2>1, <2>4, <2>5 DEF OwnerOK
  <2>7. QED
    BY <2>3, <2>6
<1>17. ASSUME NEW g \in Requests  PROVE  FreshOK(g)' /\ SeenOK(g)'
  <2>1. FreshOK(g) /\ SeenOK(g)
    BY <1>3 DEF HandoffsOK
  <2>2. CASE g = h
    BY <1>11, <1>12, <2>2 DEF FreshOK, SeenOK, At
  <2>3. CASE g # h
    <3>1. ~Drawn(g, r) /\ (At(g, "createHash") => req[g].room \in Rooms)
      BY <1>2, <1>3 DEF TypesOK, KnownOK, RoomLabels, At
    <3>2. FreshOK(g)'
      <4>1. SUFFICES ASSUME At(g, "createHash")  PROVE  FreshOK(g)'
        BY <1>11, <2>3 DEF FreshOK, At
      <4>2. \A i \in Nat : ~MadeBy(i, req[g].room)'
        <5>1. req[g].room \in Origins /\ req[g].room # r
          BY <1>12, <3>1, <4>1 DEF Drawn
        <5>2. \A i \in Nat : ~MadeBy(i, req[g].room)
          BY <2>1, <4>1 DEF FreshOK
        <5>3. QED
          BY <1>7, <1>11, <2>3, <5>1, <5>2
      <4>3. QED
        BY <1>5, <1>9, <1>11, <2>1, <2>3, <3>1, <4>1, <4>2 DEF FreshOK, Drawn
    <3>3. SeenOK(g)'
      BY <1>5, <1>11, <2>1, <2>3 DEF SeenOK, At
    <3>4. QED
      BY <3>2, <3>3
  <2>4. QED
    BY <2>2, <2>3
<1>18. ClaimsOK'
  <2>1. SUFFICES ASSUME slow = 0
                 PROVE  /\ OneRow' /\ OneWorker' /\ \A g \in Requests : RowFits(g)'
                        /\ \A g \in Requests : req'[g].room \in Rooms => ClaimFits(g)'
    BY <1>5 DEF ClaimsOK
  <2>2. /\ OneRow /\ OneWorker /\ \A g \in Requests : RowFits(g)
        /\ \A g \in Requests : req[g].room \in Rooms => ClaimFits(g)
    BY <1>3, <2>1 DEF HandoffsOK, ClaimsOK
  <2>3. \A i \in Nat : ~MadeBy(i, r)
    BY <1>0, <1>1, <2>2 DEF RowFits
  <2>4. OneRow'
    <3>1. ASSUME NEW s \in Rooms, NEW i \in Nat, NEW j \in Nat, MadeBy(i, s)', MadeBy(j, s)'
          PROVE  i = j
      BY <1>7, <1>12, <2>2, <2>3, <3>1 DEF OneRow
    <3>2. QED
      BY <3>1 DEF OneRow
  <2>5. OneWorker'
    BY <1>0, <1>1, <1>9, <1>11, <2>2 DEF OneWorker
  <2>6. ASSUME NEW g \in Requests, req'[g].pc \in Working, NEW i \in Nat, MadeBy(i, req[g].room)'
        PROVE  /\ req'[g].pc \notin {"adoptGuest", "createRow"}
               /\ matches'[i].players[1] = req'[g].owner
    <3>1. CASE g = h
      BY <1>0, <1>2, <1>6, <1>7, <1>9, <1>11, <1>12, <2>3, <2>6, <3>1
    <3>2. CASE g # h
      <4>1. req'[g] = req[g] /\ req[g].room # r
        BY <1>0, <1>1, <1>11, <2>2, <2>6, <3>2 DEF OneWorker
      <4>2. req[g].room \in Rooms
        BY <2>6, <4>1, WorkerFacts
      <4>3. MadeBy(i, req[g].room) /\ matches'[i].players = matches[i].players
        BY <1>7, <1>12, <2>6, <4>1, <4>2
      <4>4. QED
        BY <2>2, <2>6, <4>1, <4>3 DEF RowFits
    <3>3. QED
      BY <3>1, <3>2
  <2>7. \A g \in Requests : RowFits(g)'
    BY <1>9, <1>11, <2>6 DEF RowFits
  <2>8. ASSUME NEW g \in Requests, req'[g].room \in Rooms  PROVE  ClaimFits(g)'
    <3>1. req'[g].room = req[g].room /\ ClaimFits(g)
      BY <1>0, <1>9, <1>11, <2>2, <2>8
    <3>2. CASE g = h
      BY <1>0, <1>1, <1>5, <1>9, <1>11, <3>1, <3>2 DEF ClaimFits, At
    <3>3. CASE g # h
      BY <1>5, <1>11, <3>1, <3>3 DEF ClaimFits, At
    <3>4. QED
      BY <3>2, <3>3
  <2>9. QED
    BY <2>4, <2>5, <2>7, <2>8
<1>19. EntryInv'
  BY <1>13, <1>14, <1>15, <1>16, <1>17, <1>18 DEF EntryInv, RoomInv, HandoffsOK
<1>20. \A i \in Nat : MadeBy(i, "queue")' => MadeBy(i, "queue") \/ req[h].room = "queue"
  <2>1. "queue" \in Origins
    BY DEF Origins
  <2>2. QED
    BY <1>0, <1>7, <2>1
<1>21. QED
  BY <1>0, <1>4, <1>7, <1>19, <1>20
-----------------------------------------------------------------------------
(* A claim is given back or lapses, and a match is recorded.               *)

\* Whoever is not stray afterwards is no longer placed, or was not excused.
LEMMA NotStray ==
  ASSUME NEW lost, Strays(lost), NEW u \in Users \ stray'
  PROVE  ~Placed(u)' \/ (u \notin stray /\ u \notin lost)
BY DEF Strays

LEMMA StraysAreUsers ==
  ASSUME NEW lost, Strays(lost), lost \subseteq Users, stray \subseteq Users
  PROVE  stray' \subseteq Users
BY DEF Strays

\* Who is at home in a room, or nowhere, makes none and is in no other.
LEMMA AtHome ==
  ASSUME EntryInv, RoomsAssumption, NEW u \in Users \ stray,
         NEW r \in Rooms \union {Nobody}, roomOf[u] \in {r, Nobody}
  PROVE  /\ \A s \in Rooms : Lists(s, u) => s = r
         /\ \A g \in Requests : ~Creating(g, u)
<1>1. Settled(u)
  BY DEF EntryInv, RoomInv, MembersOK
<1>2. roomOf[u] # "pending" /\ \A s \in Rooms : s # "pending" /\ s # Nobody
  BY DEF RoomsAssumption
<1>3. QED
  BY <1>1, <1>2 DEF Settled

\* A claim goes, and with it perhaps a request.
LEMMA ReleaseStep ==
  ASSUME EntryInv, RoomsAssumption, NEW r \in Rooms, QueueShape',
         UNCHANGED <<room, codeOf, roomOf, told, stray, torn, matches>>,
         slow' = 0 => slow = 0,
         claim' = claim \/ claim' = [claim EXCEPT ![r] = Nobody],
         req' \in [Requests -> ReqRecord],
         \A g \in Requests : req'[g] = req[g] \/ req'[g] = IdleRequest,
         \/ claim' = claim \/ slow' # 0
         \/ \A g \in Requests : claim[r] = g => ~Holds(g, r)'
  PROVE  RoomInv'
<1>1. TypesOK /\ MembersOK /\ HandoffsOK /\ RoomShape /\ QueueShape
  BY DEF EntryInv, RoomInv, TypesOK
<1>2. RowsKept /\ Len(matches') \in Nat
  BY <1>1, RowsStay DEF QueueShape
<1>3. \A g \in Requests : \/ req'[g] = req[g]
                          \/ /\ KnownOK(req'[g], Len(matches'))
                             /\ Goes(g, req'[g]) /\ Continues(g, req'[g])
  BY <1>1, IdleIsOK
<1>4. claim' \in [Rooms -> Requests \union {Nobody}]
      /\ \A s \in Rooms : s # r => claim'[s] = claim[s]
  BY <1>1 DEF RoomShape
<1>5. TypesOK'
  BY <1>1, <1>2, <1>3, <1>4, TypesStand DEF RoomShape, RowsKept
<1>6. MembersOK'
  BY <1>1, <1>3, MembersStand DEF Lists
<1>7. HandoffsOK'
  <2>1. \A s \in Rooms : Stays(s)
    BY DEF Stays
  <2>2. \A s \in Rooms : \/ claim'[s] = claim[s] \/ slow' # 0
                         \/ \A g \in Requests : claim[s] = g => ~Holds(g, s)'
    BY <1>4
  <2>3. QED
    BY <1>1, <1>2, <1>3, <1>5, <2>1, <2>2, HandoffsStand
<1>8. QED
  BY <1>5, <1>6, <1>7 DEF RoomInv

LEMMA AbortStep ==
  ASSUME EntryInv, RoomsAssumption, QueueShape', NEW h \in Requests, Abort(h)
  PROVE  RoomInv'
<1>0. PICK r \in Rooms : r = req[h].room
  BY WorkerFacts DEF Abort, At, Working
<1>1. /\ UNCHANGED <<room, codeOf, roomOf, told, stray, torn, matches, slow>>
      /\ claim' = Released(r, h) /\ Answer(h)
  BY <1>0 DEF Abort, queueVars
<1>3. /\ req' \in [Requests -> ReqRecord] /\ req'[h] = IdleRequest /\ IdleRequest.pc = "idle"
      /\ \A g \in Requests : g # h => req'[g] = req[g]
  BY <1>1, Answered, TheRequests DEF EntryInv, RoomInv, TypesOK
<1>4. /\ claim[r] = h => claim' = [claim EXCEPT ![r] = Nobody]
      /\ claim[r] # h => claim' = claim
  BY <1>0, <1>1 DEF Released, EntryInv, RoomInv, TypesOK, RoomShape
<1>5. claim[r] = h => \A g \in Requests : claim[r] = g => ~Holds(g, r)'
  BY <1>3 DEF Holds, HandoffLabels
<1>6. \A g \in Requests : req'[g] = req[g] \/ req'[g] = IdleRequest
  BY <1>3
<1>7. slow' = 0 => slow = 0
  BY <1>1
<1>8. claim' = claim \/ claim' = [claim EXCEPT ![r] = Nobody]
  BY <1>4
<1>9. claim' = claim \/ slow' # 0 \/ \A g \in Requests : claim[r] = g => ~Holds(g, r)'
  BY <1>4, <1>5
<1>10. QED
  BY <1>1, <1>3, <1>6, <1>7, <1>8, <1>9, ReleaseStep

LEMMA ClaimLapseStep ==
  ASSUME EntryInv, RoomsAssumption, QueueShape', NEW r \in Rooms, ClaimLapse(r)
  PROVE  RoomInv'
<1>1. /\ UNCHANGED <<room, codeOf, roomOf, told, stray, torn, matches, req>>
      /\ claim' = [claim EXCEPT ![r] = Nobody] /\ slow \in Nat
      /\ slow' = slow + 1 \/ (slow' = slow /\ ~Holds(claim[r], r))
  BY DEF ClaimLapse, EntryInv, QueueShape
<1>2. (slow' = 0 => slow = 0) /\ (slow' = slow + 1 => slow' # 0)
  BY <1>1
<1>3. req' \in [Requests -> ReqRecord]
  BY <1>1 DEF EntryInv, RoomInv, TypesOK, RoomShape
<1>4. slow' # 0 \/ \A g \in Requests : claim[r] = g => ~Holds(g, r)'
  BY <1>1, <1>2 DEF Holds
<1>5. QED
  BY <1>1, <1>2, <1>3, <1>4, ReleaseStep

LEMMA MatchDoneStep ==
  ASSUME EntryInv, RoomsAssumption, NEW h \in Requests, MatchDone(h)
  PROVE  RoomInv'
<1>0. PICK r, c, me : r = req[h].room /\ c = req[h] /\ me = room[r]
  OBVIOUS
<1>1. UNCHANGED <<matches, slow, torn>> /\ Answer(h) /\ req[h].pc = "done"
  BY DEF MatchDone, queueVars, At
<1>2. /\ KnownOK(c, Len(matches)) /\ r \in Rooms /\ me \in RoomRecord
      /\ RecordOK(me, Len(matches)) /\ \A g \in Requests : ~Drawn(g, r)
  BY <1>0, <1>1, WorkerFacts
<1>3. TypesOK /\ MembersOK /\ HandoffsOK /\ RoomShape /\ QueueShape
  BY DEF EntryInv, RoomInv, TypesOK
<1>4. RowsKept /\ Len(matches') \in Nat
  BY <1>1, <1>3, RowsStay DEF QueueShape
<1>5. /\ req' \in [Requests -> ReqRecord] /\ req'[h] = IdleRequest /\ IdleRequest.pc = "idle"
      /\ \A g \in Requests : g # h => req'[g] = req[g]
  BY <1>1, <1>3, Answered, TheRequests
<1>6. /\ KnownOK(IdleRequest, Len(matches'))
      /\ Goes(h, IdleRequest) /\ Continues(h, IdleRequest)
  BY <1>3, IdleIsOK
<1>7. CASE me.match # 0
  <2>1. /\ told' = [told EXCEPT ![r] = @ \union {me.match}]
        /\ UNCHANGED <<room, codeOf, roomOf, claim, stray>>
    BY <1>0, <1>7 DEF MatchDone, Recorded
  <2>2. /\ told' \in [Rooms -> SUBSET Nat] /\ told'[r] = told[r] \union {me.match}
        /\ \A s \in Rooms : s # r => told'[s] = told[s]
    BY <1>2, <1>3, <2>1 DEF RoomShape, RoomRecord
  <2>3. TypesOK'
    BY <1>1, <1>3, <1>4, <1>5, <1>6, <2>1, <2>2, TypesStand DEF RoomShape, RowsKept
  <2>4. MembersOK'
    BY <1>3, <1>5, <1>6, <2>1, MembersStand DEF Lists
  <2>5. Matched(r)
    <3>1. r \in torn' \/ told'[r] = {me.match}
      BY <1>0, <1>1, <1>2, <1>3, <1>7, <2>2 DEF HandoffsOK, ToldOK
    <3>2. QED
      BY <1>0, <1>2, <1>7, <2>1, <3>1 DEF Matched
  <2>6. \A s \in Rooms : s # r => Stays(s)
    BY <2>1, <2>2 DEF Stays
  <2>7. HandoffsOK'
    BY <1>1, <1>3, <1>4, <1>5, <1>6, <2>1, <2>3, <2>5, <2>6, HandoffsStand
  <2>8. QED
    BY <2>3, <2>4, <2>7 DEF RoomInv
<1>8. CASE me.match = 0
  <2>1. /\ room' = [room EXCEPT ![r].match = c.match, ![r].status = "matched",
                                ![r].expires = TRUE]
        /\ codeOf' = codeOf \ {r} /\ claim' = [claim EXCEPT ![r] = Nobody]
        /\ roomOf' = [u \in Users |-> IF u \in {c.owner, c.guest} /\ roomOf[u] = r
                                      THEN Nobody ELSE roomOf[u]]
        /\ told' = [told EXCEPT ![r] = @ \union {c.match}]
        /\ Strays({})
    BY <1>0, <1>8 DEF MatchDone, Recorded
  <2>2. PICK m \in Nat : m = c.match /\ m # 0 /\ m \in 1 .. Len(matches)
    BY <1>0, <1>1, <1>2 DEF KnownOK
  <2>3. PICK to : to = [me EXCEPT !.match = m, !.status = "matched", !.expires = TRUE]
    OBVIOUS
  <2>4. /\ to \in RoomRecord /\ to.match = m /\ to.status = "matched"
        /\ to.exists = me.exists /\ to.owner = me.owner
    BY <1>2, <2>2, <2>3 DEF RoomRecord
  <2>5. room' = [room EXCEPT ![r] = to]
    BY <1>0, <2>1, <2>2, <2>3
  <2>6. /\ room' \in [Rooms -> RoomRecord] /\ room'[r] = to
        /\ \A s \in Rooms : s # r => room'[s] = room[s]
    BY <1>2, <1>3, <2>4, <2>5 DEF RoomShape
  <2>7. /\ told' \in [Rooms -> SUBSET Nat] /\ told'[r] = told[r] \union {m}
        /\ \A s \in Rooms : s # r => told'[s] = told[s]
    BY <1>2, <1>3, <2>1, <2>2 DEF RoomShape
  <2>8. /\ claim' \in [Rooms -> Requests \union {Nobody}] /\ claim'[r] = Nobody
        /\ \A s \in Rooms : s # r => claim'[s] = claim[s]
    BY <1>2, <1>3, <2>1 DEF RoomShape
  <2>9. /\ roomOf' \in [Users -> Rooms \union {"pending", Nobody}]
        /\ \A u \in Users : roomOf'[u] = roomOf[u] \/ (roomOf[u] = r /\ roomOf'[u] = Nobody)
    BY <1>3, <2>1 DEF RoomShape
  <2>10. TypesOK'
    <3>1. RecordOK(to, Len(matches'))
      BY <1>1, <1>2, <2>2, <2>3, <2>4 DEF RecordOK, RoomRecord
    <3>2. codeOf' \subseteq Rooms /\ stray' \subseteq Users /\ torn' \subseteq Rooms
      BY <1>1, <1>3, <2>1, StraysAreUsers DEF RoomShape
    <3>3. QED
      BY <1>3, <1>4, <1>5, <1>6, <2>6, <2>7, <2>8, <2>9, <3>1, <3>2, TypesStand DEF RowsKept
  <2>11. MembersOK'
    <3>1. \A s \in Rooms, u \in Users : Lists(s, u)' =>
             s # r /\ Lists(s, u) /\ room'[s].owner = room[s].owner
      BY <2>2, <2>4, <2>6 DEF Lists
    <3>2. ASSUME NEW u \in Users \ stray'
          PROVE  (u \notin stray /\ roomOf'[u] = roomOf[u]) \/ ~Placed(u)'
      <4>1. CASE u \in stray
        BY <2>1, <3>2, <4>1, NotStray
      <4>2. CASE u \notin stray /\ roomOf[u] = r
        <5>1. \A s \in Rooms : ~Lists(s, u)'
          BY <1>2, <3>1, <4>2, AtHome
        <5>2. \A g \in Requests : ~Creating(g, u)'
          BY <1>2, <1>5, <1>6, <4>2, AtHome DEF Creating, Continues
        <5>3. QED
          BY <5>1, <5>2 DEF Placed
      <4>3. CASE u \notin stray /\ roomOf[u] # r
        BY <2>9, <4>3
      <4>4. QED
        BY <4>1, <4>2, <4>3
    <3>3. QED
      BY <1>3, <1>5, <1>6, <3>1, <3>2, MembersStand
  <2>12. HandoffsOK'
    <3>1. Holds(h, r)
      BY <1>0, <1>1 DEF Holds, HandoffLabels
    <3>2. Matched(r)
      <4>1. r \in torn' \/ told'[r] = {m}
        BY <1>0, <1>1, <1>2, <1>3, <1>8, <2>7, <3>1 DEF HandoffsOK, ToldOK
      <4>2. QED
        BY <1>0, <1>2, <1>8, <2>2, <2>4, <2>6, <4>1 DEF Matched
    <3>3. \A s \in Rooms : s # r => Stays(s)
      BY <2>6, <2>7 DEF Stays
    <3>4. \/ slow' # 0 \/ ~room'[r].exists
          \/ \A g \in Requests : claim[r] = g => ~Holds(g, r)'
      <4>1. SUFFICES ASSUME slow = 0, me.exists
                     PROVE  \A g \in Requests : claim[r] = g => ~Holds(g, r)'
        BY <1>1, <2>4, <2>6
      <4>2. claim[r] = h
        BY <1>0, <1>1, <1>2, <1>3, <1>8, <4>1 DEF HandoffsOK, ClaimsOK, ClaimFits, At
      <4>3. QED
        BY <1>5, <4>2 DEF Holds, HandoffLabels
    <3>5. \A s \in Rooms : \/ claim'[s] = claim[s] \/ slow' # 0 \/ ~room'[s].exists
                           \/ \A g \in Requests : claim[s] = g => ~Holds(g, s)'
      <4>1. SUFFICES ASSUME NEW s \in Rooms
                     PROVE  \/ claim'[s] = claim[s] \/ slow' # 0 \/ ~room'[s].exists
                            \/ \A g \in Requests : claim[s] = g => ~Holds(g, s)'
        OBVIOUS
      <4>2. CASE s = r
        BY <3>4, <4>2
      <4>3. CASE s # r
        BY <2>8, <4>3
      <4>4. QED
        BY <4>2, <4>3
    <3>6. \A u \in Users : roomOf'[u] = roomOf[u] \/ roomOf'[u] \notin Rooms
      BY <2>9 DEF RoomsAssumption
    <3>7. QED
      BY <1>1, <1>3, <1>4, <1>5, <1>6, <2>10, <3>2, <3>3, <3>5, <3>6, HandoffsStand
  <2>13. QED
    BY <2>10, <2>11, <2>12 DEF RoomInv
<1>9. QED
  BY <1>7, <1>8
-----------------------------------------------------------------------------
(* Rooms are created, joined and left, and keys lapse.                     *)

\* What these steps have in common: no row, claim or told match changes.
LEMMA PlaceStep ==
  ASSUME EntryInv, UNCHANGED <<claim, told, matches, slow>>,
         room' \in [Rooms -> RoomRecord],
         \A s \in Rooms : \/ room'[s] = room[s]
                          \/ /\ RecordOK(room'[s], Len(matches))
                             /\ Stays(s) \/ Vanishes(s) \/ Made(s),
         req' \in [Requests -> ReqRecord],
         \A g \in Requests : \/ req'[g] = req[g]
                             \/ KnownOK(req'[g], Len(matches)) /\ Goes(g, req'[g]),
         codeOf' \subseteq Rooms, stray' \subseteq Users,
         torn' \subseteq Rooms, torn \subseteq torn',
         roomOf' \in [Users -> Rooms \union {"pending", Nobody}],
         \A u \in Users : \/ roomOf'[u] = roomOf[u] \/ roomOf'[u] \notin Rooms
                          \/ \A g \in Requests : ~Drawn(g, roomOf'[u]),
         MembersOK'
  PROVE  RoomInv'
<1>1. QueueShape /\ TypesOK /\ HandoffsOK /\ RoomShape
  BY DEF EntryInv, RoomInv, TypesOK
<1>2. RowsKept /\ Len(matches') \in Nat /\ Len(matches') >= Len(matches)
  BY <1>1, RowsStay DEF QueueShape, RowsKept
<1>3. TypesOK'
  BY <1>1, <1>2, TypesStand DEF RoomShape
<1>4. HandoffsOK'
  <2>1. \A s \in Rooms : Stays(s) \/ Vanishes(s) \/ Made(s)
    BY DEF Stays
  <2>2. QED
    BY <1>1, <1>2, <1>3, <2>1, HandoffsStand
<1>5. QED
  BY <1>3, <1>4 DEF RoomInv

\* A user gets the placeholder, and a creation begins.
LEMMA CreateRoomStep ==
  ASSUME EntryInv, RoomsAssumption, NEW h \in Requests, NEW u \in Users, CreateRoom(h, u)
  PROVE  RoomInv'
<1>1. /\ UNCHANGED <<room, codeOf, claim, told, stray, torn, matches, slow>>
      /\ roomOf[u] = Nobody /\ roomOf' = [roomOf EXCEPT ![u] = "pending"]
      /\ Begin(h, u, "createActive", Nobody)
  BY DEF CreateRoom, queueVars
<1>2. TypesOK /\ MembersOK /\ RoomShape
  BY DEF EntryInv, RoomInv, TypesOK
<1>3. /\ "createActive" \in Labels /\ "createActive" \in CreateLabels
      /\ "createActive" \notin RoomLabels \union Working \union HandoffLabels
      /\ {"serve", "done", "createHash", "handoffClaim"} \subseteq RoomLabels
      /\ {"adoptGuest", "createRow"} \subseteq Working
      /\ req[h].pc = "idle" /\ "idle" \notin CreateLabels
  BY <1>1 DEF Labels, CreateLabels, RoomLabels, JoinLabels, LeaveLabels, StartLabels, Working,
     HandoffLabels, Begin, At
<1>4. PICK c : Becomes(h, c) /\ c.pc = "createActive" /\ c.user = u /\ c.room = Nobody
  BY <1>1, <1>2, <1>3, Begins
<1>5. /\ req' \in [Requests -> ReqRecord] /\ req'[h] = c
      /\ \A g \in Requests : g # h => req'[g] = req[g]
  BY <1>2, <1>4, TheRequests
<1>6. KnownOK(c, Len(matches))
  BY <1>3, <1>4 DEF KnownOK
<1>7. Goes(h, c)
  <2>1. \A g \in Requests : ~Drawn(g, Nobody)
    BY <1>2, <1>3 DEF Drawn, At, TypesOK, KnownOK, RoomsAssumption
  <2>2. QED
    BY <1>3, <1>4, <2>1 DEF Goes
<1>8. /\ roomOf' \in [Users -> Rooms \union {"pending", Nobody}] /\ roomOf'[u] = "pending"
      /\ \A v \in Users : v # u => roomOf'[v] = roomOf[v]
      /\ "pending" \notin Rooms
  BY <1>1, <1>2 DEF RoomShape, RoomsAssumption
<1>9. MembersOK'
  <2>1. SUFFICES ASSUME NEW v \in Users \ stray  PROVE  Settled(v)'
    BY <1>1 DEF MembersOK
  <2>2. Settled(v)
    BY <1>2, <2>1 DEF MembersOK
  <2>3. CASE v = u
    <3>1. /\ \A r \in Rooms : ~Lists(r, u)
          /\ \A g \in Requests : ~Creating(g, u)
      BY <1>1, <2>1, <2>3, AtHome DEF RoomsAssumption
    <3>2. \A r \in Rooms : ~Lists(r, u)'
      BY <1>1, <3>1 DEF Lists
    <3>3. \A g \in Requests : Creating(g, u)' => g = h
      BY <1>5, <3>1 DEF Creating
    <3>4. QED
      BY <1>8, <2>3, <3>2, <3>3 DEF Settled
  <2>4. CASE v # u
    <3>1. \A g \in Requests : Creating(g, v)' => Creating(g, v) /\ req'[g] = req[g]
      BY <1>4, <1>5, <2>4 DEF Creating
    <3>2. \A r \in Rooms : Lists(r, v)' <=> Lists(r, v)
      BY <1>1 DEF Lists
    <3>3. QED
      BY <1>1, <1>8, <2>2, <2>4, <3>1, <3>2 DEF Settled
  <2>5. QED
    BY <2>3, <2>4
<1>10. QED
  BY <1>1, <1>2, <1>5, <1>6, <1>7, <1>8, <1>9, PlaceStep DEF RoomShape

\* A creation draws an id that is named nowhere.
LEMMA ClaimCodeStep ==
  ASSUME EntryInv, RoomsAssumption, NEW h \in Requests, NEW r \in Rooms, ClaimCode(h, r)
  PROVE  RoomInv'
<1>1. /\ UNCHANGED <<room, roomOf, claim, told, stray, torn, matches, slow>>
      /\ codeOf' = codeOf \union {r} /\ req[h].pc = "createCode" /\ Unused(r)
      /\ req' = [req EXCEPT ![h].pc = "createHash", ![h].room = r]
  BY DEF ClaimCode, At, queueVars
<1>2. TypesOK /\ MembersOK /\ HandoffsOK /\ RoomShape /\ QueueShape
  BY DEF EntryInv, RoomInv, TypesOK
<1>3. PICK c : c = [req[h] EXCEPT !.pc = "createHash", !.room = r]
  OBVIOUS
<1>4. /\ c \in ReqRecord /\ c.pc = "createHash" /\ c.room = r /\ c.user = req[h].user
      /\ req[h].user \in Users
  <2>1. req[h] \in ReqRecord /\ KnownOK(req[h], Len(matches)) /\ "createHash" \in Labels
    BY <1>2 DEF TypesOK, RoomShape, Labels, CreateLabels
  <2>2. req[h].user \in Users
    BY <1>1, <2>1 DEF KnownOK
  <2>3. QED
    BY <1>3, <2>1, <2>2 DEF ReqRecord
<1>5. req' = [req EXCEPT ![h] = c]
  BY <1>1, <1>3
<1>6. /\ req' \in [Requests -> ReqRecord] /\ req'[h] = c
      /\ \A g \in Requests : g # h => req'[g] = req[g]
  BY <1>2, <1>4, <1>5, TheRequests DEF Becomes
<1>7. /\ c.pc \notin Working \union HandoffLabels \union {"serve", "done", "handoffClaim"}
      /\ c.pc \in CreateLabels /\ req[h].pc \in CreateLabels /\ req[h].pc \notin HashWritten
  BY <1>1, <1>4 DEF Working, HandoffLabels, CreateLabels, HashWritten
<1>8. RowsKept /\ Len(matches') \in Nat /\ Len(matches') >= Len(matches)
  BY <1>1, <1>2, RowsStay DEF QueueShape, RowsKept
<1>9. TypesOK'
  <2>1. KnownOK(c, Len(matches'))
    BY <1>4, <1>7 DEF KnownOK
  <2>2. QED
    BY <1>1, <1>2, <1>6, <1>8, <2>1, TypesStand DEF RoomShape
<1>10. MembersOK'
  <2>1. Continues(h, c)
    BY <1>4, <1>7 DEF Continues
  <2>2. QED
    BY <1>1, <1>2, <1>6, <2>1, MembersStand DEF Lists
<1>11. \A s \in Rooms : ToldOK(s)' /\ OwnerOK(s)'
  <2>1. ASSUME NEW s \in Rooms  PROVE  ToldOK(s)' /\ OwnerOK(s)'
    <3>1. ToldOK(s) /\ OwnerOK(s)
      BY <1>2 DEF HandoffsOK
    <3>2. ToldOK(s)'
      BY <1>1, <1>6, <1>7, <3>1 DEF ToldOK, Holds
    <3>3. OwnerOK(s)'
      BY <1>1, <1>6, <1>7, <3>1 DEF OwnerOK, MadeBy
    <3>4. QED
      BY <3>2, <3>3
  <2>2. QED
    BY <2>1
<1>12. ASSUME NEW g \in Requests  PROVE  FreshOK(g)' /\ SeenOK(g)'
  <2>1. CASE g = h
    <3>1. ~room[r].exists /\ room[r].match = 0 /\ told[r] = {}
      BY <1>1 DEF Unused, NoRoom
    <3>2. \A i \in Nat : ~MadeBy(i, r)
      BY <1>1, <1>2 DEF Unused, MadeBy, QueueShape
    <3>3. \A u \in Users : roomOf[u] # r
      BY <1>1 DEF Unused
    <3>4. \A k \in Requests : k # h => req'[k].room # r
      BY <1>1, <1>6 DEF Unused
    <3>5. FreshOK(h)'
      BY <1>1, <1>4, <1>6, <3>1, <3>2, <3>3, <3>4 DEF FreshOK, MadeBy
    <3>6. QED
      BY <1>4, <1>6, <2>1, <3>5 DEF SeenOK, At
  <2>2. CASE g # h
    <3>1. FreshOK(g) /\ SeenOK(g) /\ req[g].room # r
      BY <1>1, <1>2 DEF HandoffsOK, Unused
    <3>2. FreshOK(g)'
      BY <1>1, <1>4, <1>6, <2>2, <3>1 DEF FreshOK, MadeBy, At
    <3>3. SeenOK(g)'
      BY <1>1, <1>6, <2>2, <3>1 DEF SeenOK, At
    <3>4. QED
      BY <3>2, <3>3
  <2>3. QED
    BY <2>1, <2>2
<1>13. ClaimsOK'
  <2>1. SUFFICES ASSUME slow = 0
                 PROVE  /\ OneRow' /\ OneWorker' /\ \A g \in Requests : RowFits(g)'
                        /\ \A g \in Requests : req'[g].room \in Rooms => ClaimFits(g)'
    BY <1>1 DEF ClaimsOK
  <2>2. /\ OneRow /\ OneWorker /\ \A g \in Requests : RowFits(g)
        /\ \A g \in Requests : req[g].room \in Rooms => ClaimFits(g)
    BY <1>2, <2>1 DEF HandoffsOK, ClaimsOK
  <2>3. OneRow'
    BY <1>1, <2>2 DEF OneRow, MadeBy
  <2>4. OneWorker'
    BY <1>6, <1>7, <2>2 DEF OneWorker
  <2>5. ASSUME NEW g \in Requests  PROVE  RowFits(g)'
    BY <1>1, <1>6, <1>7, <2>2 DEF RowFits, MadeBy
  <2>6. ASSUME NEW g \in Requests, req'[g].room \in Rooms  PROVE  ClaimFits(g)'
    BY <1>1, <1>6, <1>7, <2>2, <2>6 DEF ClaimFits, At
  <2>7. QED
    BY <2>3, <2>4, <2>5, <2>6
<1>14. QED
  BY <1>9, <1>10, <1>11, <1>12, <1>13 DEF RoomInv, HandoffsOK

\* The owner is listed while he has the placeholder.
LEMMA CreateHashStep ==
  ASSUME EntryInv, RoomsAssumption, NEW h \in Requests, CreateHash(h)
  PROVE  RoomInv'
<1>0. PICK r, o : r = req[h].room /\ o = req[h].user
  OBVIOUS
<1>1. /\ UNCHANGED <<codeOf, roomOf, claim, told, stray, torn, matches, slow>>
      /\ req[h].pc = "createHash" /\ Go(h, "createExpire")
  BY DEF CreateHash, At, queueVars
<1>2. TypesOK /\ MembersOK /\ HandoffsOK /\ RoomShape /\ FreshOK(h)
  BY DEF EntryInv, RoomInv, TypesOK, HandoffsOK
<1>3. o \in Users /\ r \in Rooms
  BY <1>0, <1>1, <1>2 DEF TypesOK, KnownOK, RoomLabels
<1>4. PICK me : me = [exists |-> TRUE, expires |-> FALSE, owner |-> o, guest |-> Nobody,
                      status |-> "waiting", match |-> 0]
  OBVIOUS
<1>5. /\ me \in RoomRecord /\ RecordOK(me, Len(matches))
      /\ me.owner = o /\ me.guest = Nobody /\ me.match = 0
  BY <1>3, <1>4 DEF RoomRecord, RecordOK, Someone
<1>6. /\ room' = [room EXCEPT ![r] = me]
      /\ room' \in [Rooms -> RoomRecord] /\ room'[r] = me
      /\ \A s \in Rooms : s # r => room'[s] = room[s]
  <2>1. room' = [room EXCEPT ![r] = me]
    BY <1>0, <1>4 DEF CreateHash
  <2>2. QED
    BY <1>2, <1>3, <1>5, <2>1 DEF RoomShape
<1>7. /\ "createExpire" \in Labels /\ "createExpire" \in HashWritten
      /\ "createExpire" \notin Working \union HandoffLabels \union JoinLabels
                                 \union {"serve", "done", "handoffClaim", "createHash"}
      /\ "createHash" \in CreateLabels /\ "createHash" \notin HashWritten \union JoinLabels
      /\ {"adoptGuest", "createRow"} \subseteq Working
  BY DEF Labels, CreateLabels, HashWritten, Working, HandoffLabels, JoinLabels
<1>8. PICK c : Becomes(h, c) /\ c.pc = "createExpire" /\ c.user = o /\ c.room = r
  BY <1>0, <1>1, <1>2, <1>7, GoesOn
<1>9. /\ req' \in [Requests -> ReqRecord] /\ req'[h] = c
      /\ \A g \in Requests : g # h => req'[g] = req[g]
  BY <1>2, <1>8, TheRequests
<1>10. KnownOK(c, Len(matches))
  BY <1>3, <1>7, <1>8 DEF KnownOK
<1>11. \A g \in Requests : g # h /\ req[g].room = r => req[g].pc \in JoinLabels
  BY <1>0, <1>1, <1>2 DEF FreshOK, At
<1>12. Goes(h, c)
  BY <1>7, <1>8, <1>11 DEF Goes, Drawn, At
<1>13. Made(r)
  <2>1. told[r] = {} /\ \A i \in Nat : ~MadeBy(i, r)
    BY <1>0, <1>1, <1>2 DEF FreshOK, At
  <2>2. QED
    BY <1>1, <1>5, <1>6, <1>8, <1>9, <1>11, <2>1 DEF Made
<1>14. MembersOK'
  <2>1. SUFFICES ASSUME NEW v \in Users \ stray  PROVE  Settled(v)'
    BY <1>1 DEF MembersOK
  <2>2. Settled(v)
    BY <1>2, <2>1 DEF MembersOK
  <2>3. \A s \in Rooms : Lists(s, v)' =>
           \/ s # r /\ Lists(s, v) /\ room'[s].owner = room[s].owner
           \/ s = r /\ v = o /\ room'[s].owner = o
    BY <1>5, <1>6, <2>1 DEF Lists, RoomsAssumption
  <2>4. CASE v = o
    <3>1. Creating(h, o) /\ req[h].pc \notin HashWritten
      BY <1>0, <1>1, <1>7 DEF Creating
    <3>2. /\ roomOf[o] = "pending" /\ \A s \in Rooms : ~Lists(s, o)
          /\ \A g \in Requests : Creating(g, o) => g = h
      BY <2>2, <2>4, <3>1 DEF Settled
    <3>3. \A g \in Requests : Creating(g, o)' => g = h
      BY <1>9, <3>2 DEF Creating
    <3>4. QED
      BY <1>1, <1>7, <1>8, <1>9, <2>3, <2>4, <3>2, <3>3 DEF Settled
  <2>5. CASE v # o
    <3>1. \A g \in Requests : Creating(g, v)' => Creating(g, v) /\ req'[g] = req[g]
      BY <1>8, <1>9, <2>5 DEF Creating
    <3>2. QED
      BY <1>1, <2>2, <2>3, <2>5, <3>1 DEF Settled
  <2>6. QED
    BY <2>4, <2>5
<1>15. \A s \in Rooms : \/ room'[s] = room[s]
                        \/ /\ RecordOK(room'[s], Len(matches))
                           /\ Stays(s) \/ Vanishes(s) \/ Made(s)
  BY <1>5, <1>6, <1>13
<1>16. QED
  BY <1>1, <1>2, <1>6, <1>9, <1>10, <1>12, <1>14, <1>15, PlaceStep DEF RoomShape

LEMMA CreateExpireStep ==
  ASSUME EntryInv, RoomsAssumption, NEW h \in Requests, CreateExpire(h)
  PROVE  RoomInv'
<1>0. PICK r, me : r = req[h].room /\ me = [room[r] EXCEPT !.expires = room[r].exists]
  OBVIOUS
<1>1. /\ UNCHANGED <<codeOf, roomOf, claim, told, stray, torn, matches, slow>>
      /\ req[h].pc = "createExpire" /\ Go(h, "createMapping")
  BY DEF CreateExpire, At, queueVars
<1>2. TypesOK /\ MembersOK /\ RoomShape
  BY DEF EntryInv, RoomInv, TypesOK
<1>3. r \in Rooms /\ req[h].user \in Users
  BY <1>0, <1>1, <1>2 DEF TypesOK, KnownOK, RoomLabels
<1>4. /\ me \in RoomRecord /\ me.exists = room[r].exists /\ me.owner = room[r].owner
      /\ me.guest = room[r].guest /\ me.status = room[r].status /\ me.match = room[r].match
  <2>1. room[r] \in RoomRecord
    BY <1>2, <1>3 DEF RoomShape
  <2>2. QED
    BY <1>0, <2>1 DEF RoomRecord
<1>5. RecordOK(me, Len(matches))
  BY <1>2, <1>3, <1>4 DEF TypesOK, RecordOK
<1>6. /\ room' = [room EXCEPT ![r] = me]
      /\ room' \in [Rooms -> RoomRecord] /\ room'[r] = me
      /\ \A s \in Rooms : s # r => room'[s] = room[s]
  <2>1. room' = [room EXCEPT ![r] = me]
    BY <1>0, <1>2, <1>3 DEF CreateExpire, RoomShape
  <2>2. QED
    BY <1>2, <1>3, <1>4, <2>1 DEF RoomShape
<1>7. /\ "createMapping" \in Labels /\ "createMapping" \in HashWritten
      /\ "createMapping" \notin Working \union HandoffLabels \union JoinLabels
                                  \union {"serve", "done", "handoffClaim", "createHash"}
      /\ "createExpire" \in CreateLabels /\ "createExpire" \notin JoinLabels
      /\ {"adoptGuest", "createRow"} \subseteq Working
  BY DEF Labels, CreateLabels, HashWritten, Working, HandoffLabels, JoinLabels
<1>8. PICK c : /\ Becomes(h, c) /\ c.pc = "createMapping" /\ c.user = req[h].user
               /\ c.room = r
  BY <1>0, <1>1, <1>2, <1>7, GoesOn
<1>9. /\ req' \in [Requests -> ReqRecord] /\ req'[h] = c
      /\ \A g \in Requests : g # h => req'[g] = req[g]
  BY <1>2, <1>8, TheRequests
<1>10. KnownOK(c, Len(matches))
  BY <1>3, <1>7, <1>8 DEF KnownOK
<1>11. Goes(h, c) /\ Continues(h, c)
  BY <1>0, <1>1, <1>7, <1>8, OldRoom DEF Goes, Continues
<1>12. MembersOK'
  <2>1. \A s \in Rooms, u \in Users : Lists(s, u)' =>
           Lists(s, u) /\ room'[s].owner = room[s].owner
    BY <1>4, <1>6 DEF Lists
  <2>2. QED
    BY <1>1, <1>2, <1>9, <1>11, <2>1, MembersStand
<1>13. Stays(r)
  BY <1>1, <1>4, <1>6 DEF Stays
<1>14. \A s \in Rooms : \/ room'[s] = room[s]
                        \/ /\ RecordOK(room'[s], Len(matches))
                           /\ Stays(s) \/ Vanishes(s) \/ Made(s)
  BY <1>5, <1>6, <1>13
<1>15. QED
  BY <1>1, <1>2, <1>6, <1>9, <1>10, <1>11, <1>12, <1>14, PlaceStep DEF RoomShape

\* The owner gets the mapping of the room that lists him.
LEMMA CreateMappingStep ==
  ASSUME EntryInv, RoomsAssumption, NEW h \in Requests, CreateMapping(h)
  PROVE  RoomInv'
<1>0. PICK r, o : r = req[h].room /\ o = req[h].user
  OBVIOUS
<1>1. /\ UNCHANGED <<room, codeOf, claim, told, stray, torn, matches, slow>>
      /\ req[h].pc = "createMapping" /\ Answer(h) /\ roomOf' = [roomOf EXCEPT ![o] = r]
  BY <1>0 DEF CreateMapping, At, queueVars
<1>2. TypesOK /\ MembersOK /\ RoomShape
  BY DEF EntryInv, RoomInv, TypesOK
<1>3. o \in Users /\ r \in Rooms
  BY <1>0, <1>1, <1>2 DEF TypesOK, KnownOK, RoomLabels
<1>4. /\ req' \in [Requests -> ReqRecord] /\ req'[h] = IdleRequest /\ IdleRequest.pc = "idle"
      /\ \A g \in Requests : g # h => req'[g] = req[g]
  BY <1>1, <1>2, Answered, TheRequests
<1>5. KnownOK(IdleRequest, Len(matches)) /\ Goes(h, IdleRequest)
  BY <1>2, IdleIsOK
<1>6. /\ roomOf' \in [Users -> Rooms \union {"pending", Nobody}] /\ roomOf'[o] = r
      /\ \A v \in Users : v # o => roomOf'[v] = roomOf[v]
  BY <1>1, <1>2, <1>3 DEF RoomShape
<1>7. \A g \in Requests : ~Drawn(g, r)
  <2>1. "createMapping" \notin JoinLabels
    BY DEF JoinLabels
  <2>2. QED
    BY <1>0, <1>1, <2>1, OldRoom DEF Drawn, At
<1>8. MembersOK'
  <2>1. SUFFICES ASSUME NEW v \in Users \ stray  PROVE  Settled(v)'
    BY <1>1 DEF MembersOK
  <2>2. Settled(v)
    BY <1>2, <2>1 DEF MembersOK
  <2>3. \A s \in Rooms : Lists(s, v)' <=> Lists(s, v)
    BY <1>1 DEF Lists
  <2>4. \A g \in Requests : Creating(g, v)' => g # h /\ Creating(g, v) /\ req'[g] = req[g]
    BY <1>4 DEF Creating, CreateLabels
  <2>5. CASE v = o
    <3>1. Creating(h, o)
      BY <1>0, <1>1 DEF Creating, CreateLabels
    <3>2. /\ \A s \in Rooms : Lists(s, o) => s = r
          /\ \A g \in Requests : Creating(g, o) => g = h
      BY <1>0, <2>2, <2>5, <3>1 DEF Settled
    <3>3. QED
      BY <1>6, <2>3, <2>4, <2>5, <3>2 DEF Settled
  <2>6. CASE v # o
    BY <1>1, <1>6, <2>2, <2>3, <2>4, <2>6 DEF Settled
  <2>7. QED
    BY <2>5, <2>6
<1>9. \A g \in Requests : \/ req'[g] = req[g]
                          \/ KnownOK(req'[g], Len(matches)) /\ Goes(g, req'[g])
  BY <1>4, <1>5
<1>10. \A u \in Users : \/ roomOf'[u] = roomOf[u] \/ roomOf'[u] \notin Rooms
                        \/ \A g \in Requests : ~Drawn(g, roomOf'[u])
  BY <1>6, <1>7
<1>11. QED
  BY <1>1, <1>2, <1>4, <1>6, <1>8, <1>9, <1>10, PlaceStep DEF RoomShape

\* The owner gets the mapping, but is stray from now on: it is going to be deleted.
LEMMA CreateReplyLostStep ==
  ASSUME EntryInv, RoomsAssumption, NEW h \in Requests, CreateReplyLost(h)
  PROVE  RoomInv'
<1>0. PICK r, o, lost : r = req[h].room /\ o = req[h].user /\ lost = {o}
  OBVIOUS
<1>1. /\ UNCHANGED <<room, codeOf, claim, told, torn, matches, slow>>
      /\ req[h].pc = "createMapping" /\ Go(h, "createUndo") /\ Strays(lost)
      /\ roomOf' = [roomOf EXCEPT ![o] = r]
  BY <1>0 DEF CreateReplyLost, At
<1>2. TypesOK /\ MembersOK /\ RoomShape
  BY DEF EntryInv, RoomInv, TypesOK
<1>3. o \in Users /\ r \in Rooms
  BY <1>0, <1>1, <1>2 DEF TypesOK, KnownOK, RoomLabels
<1>4. /\ "createUndo" \in CreateLabels /\ "createUndo" \in HashWritten
      /\ "createUndo" \in Labels /\ "createMapping" \in CreateLabels
      /\ "createUndo" \notin HandoffLabels \union RoomLabels \union Working
      /\ {"adoptGuest", "createRow", "serve", "done"} \subseteq HandoffLabels
      /\ "createMapping" \notin JoinLabels
  BY DEF Labels, CreateLabels, JoinLabels, LeaveLabels, StartLabels, RoomLabels, Working,
     HandoffLabels, HashWritten
<1>5. PICK c : Becomes(h, c) /\ c.pc = "createUndo" /\ c.user = o /\ c.room = r
  BY <1>0, <1>1, <1>2, <1>4, GoesOn
<1>6. /\ req' \in [Requests -> ReqRecord] /\ req'[h] = c
      /\ \A g \in Requests : g # h => req'[g] = req[g]
  BY <1>2, <1>5, TheRequests
<1>7. /\ roomOf' \in [Users -> Rooms \union {"pending", Nobody}] /\ roomOf'[o] = r
      /\ \A v \in Users : v # o => roomOf'[v] = roomOf[v]
  BY <1>1, <1>2, <1>3 DEF RoomShape
<1>8. \A g \in Requests : ~Drawn(g, r)
  BY <1>0, <1>1, <1>4, OldRoom DEF Drawn, At
<1>9. KnownOK(c, Len(matches)) /\ Goes(h, c) /\ Continues(h, c)
  <2>1. KnownOK(c, Len(matches))
    BY <1>3, <1>4, <1>5 DEF KnownOK
  <2>2. Goes(h, c)
    BY <1>4, <1>5, <1>8 DEF Goes
  <2>3. QED
    BY <1>0, <1>1, <1>4, <1>5, <2>1, <2>2 DEF Continues
<1>10. stray' \subseteq Users
  BY <1>0, <1>1, <1>2, <1>3, StraysAreUsers DEF RoomShape
<1>11. MembersOK'
  <2>1. \A s \in Rooms, u \in Users : Lists(s, u)' =>
           Lists(s, u) /\ room'[s].owner = room[s].owner
    BY <1>1 DEF Lists
  <2>2. ASSUME NEW u \in Users \ stray'
        PROVE  (u \notin stray /\ roomOf'[u] = roomOf[u]) \/ ~Placed(u)'
    <3>1. ~Placed(u)' \/ (u \notin stray /\ u # o)
      BY <1>0, <1>1, <2>2, NotStray
    <3>2. QED
      BY <1>7, <3>1
  <2>3. QED
    BY <1>2, <1>6, <1>9, <2>1, <2>2, MembersStand
<1>12. \A g \in Requests : \/ req'[g] = req[g]
                           \/ KnownOK(req'[g], Len(matches)) /\ Goes(g, req'[g])
  BY <1>6, <1>9
<1>13. \A u \in Users : \/ roomOf'[u] = roomOf[u] \/ roomOf'[u] \notin Rooms
                        \/ \A g \in Requests : ~Drawn(g, roomOf'[u])
  BY <1>7, <1>8
<1>14. QED
  BY <1>1, <1>2, <1>6, <1>7, <1>10, <1>11, <1>12, <1>13, PlaceStep DEF RoomShape

\* A creation is undone: whoever is not stray then is in no room.
LEMMA CreateUndoStep ==
  ASSUME EntryInv, RoomsAssumption, NEW h \in Requests, CreateUndo(h)
  PROVE  RoomInv'
<1>0. PICK r, o, lost : /\ r = req[h].room /\ o = req[h].user
                        /\ lost = {v \in {o} : r \in Rooms /\ room[r].exists}
  OBVIOUS
<1>1. /\ UNCHANGED <<room, codeOf, claim, told, torn, matches, slow>>
      /\ req[h].pc = "createUndo" /\ Answer(h) /\ roomOf' = [roomOf EXCEPT ![o] = Nobody]
      /\ Strays(lost)
  BY <1>0 DEF CreateUndo, At, queueVars
<1>2. TypesOK /\ MembersOK /\ RoomShape
  BY DEF EntryInv, RoomInv, TypesOK
<1>3. o \in Users /\ lost \subseteq Users
  BY <1>0, <1>1, <1>2 DEF TypesOK, KnownOK
<1>4. /\ req' \in [Requests -> ReqRecord] /\ req'[h] = IdleRequest /\ IdleRequest.pc = "idle"
      /\ \A g \in Requests : g # h => req'[g] = req[g]
  BY <1>1, <1>2, Answered, TheRequests
<1>5. /\ KnownOK(IdleRequest, Len(matches))
      /\ Goes(h, IdleRequest) /\ Continues(h, IdleRequest)
  BY <1>2, IdleIsOK
<1>6. /\ roomOf' \in [Users -> Rooms \union {"pending", Nobody}] /\ roomOf'[o] = Nobody
      /\ \A v \in Users : v # o => roomOf'[v] = roomOf[v]
      /\ Nobody \notin Rooms
  BY <1>1, <1>2, <1>3 DEF RoomShape, RoomsAssumption
<1>7. stray' \subseteq Users
  BY <1>1, <1>2, <1>3, StraysAreUsers DEF RoomShape
<1>8. MembersOK'
  <2>1. \A s \in Rooms, u \in Users : Lists(s, u)' =>
           Lists(s, u) /\ room'[s].owner = room[s].owner
    BY <1>1 DEF Lists
  <2>2. ASSUME NEW u \in Users \ stray'
        PROVE  (u \notin stray /\ roomOf'[u] = roomOf[u]) \/ ~Placed(u)'
    <3>1. SUFFICES ASSUME u \notin stray, u \notin lost, u = o  PROVE  ~Placed(u)'
      BY <1>1, <1>6, <2>2, NotStray
    <3>2. Settled(u) /\ Creating(h, u)
      BY <1>0, <1>1, <1>2, <3>1 DEF MembersOK, Creating, CreateLabels
    <3>3. \A s \in Rooms : ~Lists(s, u)
      BY <1>0, <3>1, <3>2 DEF Settled, Lists
    <3>4. \A g \in Requests : ~Creating(g, u)'
      BY <1>4, <3>2 DEF Settled, Creating, CreateLabels
    <3>5. QED
      BY <2>1, <3>3, <3>4 DEF Placed
  <2>3. QED
    BY <1>2, <1>4, <1>5, <2>1, <2>2, MembersStand
<1>9. \A g \in Requests : \/ req'[g] = req[g]
                          \/ KnownOK(req'[g], Len(matches)) /\ Goes(g, req'[g])
  BY <1>4, <1>5
<1>10. \A u \in Users : roomOf'[u] = roomOf[u] \/ roomOf'[u] \notin Rooms
  BY <1>6
<1>11. QED
  BY <1>1, <1>2, <1>4, <1>6, <1>7, <1>8, <1>9, <1>10, PlaceStep DEF RoomShape

\* A mapping is deleted by a request that found the room gone.
LEMMA DropMappingStep ==
  ASSUME EntryInv, RoomsAssumption, NEW h \in Requests, DropMapping(h)
  PROVE  RoomInv'
<1>0. PICK r, o, lost : /\ r = req[h].room /\ o = req[h].user
                        /\ lost = {v \in {o} : Overtaken(v, r) \/ Lists(r, v)}
  OBVIOUS
<1>1. /\ UNCHANGED <<room, codeOf, claim, told, torn, matches, slow>>
      /\ req[h].pc = "dropMapping" /\ Answer(h) /\ roomOf' = [roomOf EXCEPT ![o] = Nobody]
      /\ Strays(lost)
  BY <1>0 DEF DropMapping, At, queueVars
<1>2. TypesOK /\ MembersOK /\ RoomShape
  BY DEF EntryInv, RoomInv, TypesOK
<1>3. o \in Users /\ lost \subseteq Users /\ r \in Rooms
  BY <1>0, <1>1, <1>2 DEF TypesOK, KnownOK, RoomLabels, LeaveLabels
<1>4. /\ req' \in [Requests -> ReqRecord] /\ req'[h] = IdleRequest /\ IdleRequest.pc = "idle"
      /\ \A g \in Requests : g # h => req'[g] = req[g]
  BY <1>1, <1>2, Answered, TheRequests
<1>5. /\ KnownOK(IdleRequest, Len(matches))
      /\ Goes(h, IdleRequest) /\ Continues(h, IdleRequest)
  BY <1>2, IdleIsOK
<1>6. /\ roomOf' \in [Users -> Rooms \union {"pending", Nobody}] /\ roomOf'[o] = Nobody
      /\ \A v \in Users : v # o => roomOf'[v] = roomOf[v]
      /\ Nobody \notin Rooms
  BY <1>1, <1>2, <1>3 DEF RoomShape, RoomsAssumption
<1>7. stray' \subseteq Users
  BY <1>1, <1>2, <1>3, StraysAreUsers DEF RoomShape
<1>8. MembersOK'
  <2>1. \A s \in Rooms, u \in Users : Lists(s, u)' =>
           Lists(s, u) /\ room'[s].owner = room[s].owner
    BY <1>1 DEF Lists
  <2>2. ASSUME NEW u \in Users \ stray'
        PROVE  (u \notin stray /\ roomOf'[u] = roomOf[u]) \/ ~Placed(u)'
    <3>1. SUFFICES ASSUME u \notin stray, u \notin lost, u = o  PROVE  ~Placed(u)'
      BY <1>1, <1>6, <2>2, NotStray
    <3>2. roomOf[u] \in {r, Nobody} /\ ~Lists(r, u)
      BY <1>0, <3>1 DEF Overtaken
    <3>3. /\ \A s \in Rooms : ~Lists(s, u)
          /\ \A g \in Requests : ~Creating(g, u)
      BY <1>3, <3>1, <3>2, AtHome
    <3>4. \A g \in Requests : ~Creating(g, u)'
      BY <1>4, <3>3 DEF Creating, CreateLabels
    <3>5. QED
      BY <2>1, <3>3, <3>4 DEF Placed
  <2>3. QED
    BY <1>2, <1>4, <1>5, <2>1, <2>2, MembersStand
<1>9. \A g \in Requests : \/ req'[g] = req[g]
                          \/ KnownOK(req'[g], Len(matches)) /\ Goes(g, req'[g])
  BY <1>4, <1>5
<1>10. \A u \in Users : roomOf'[u] = roomOf[u] \/ roomOf'[u] \notin Rooms
  BY <1>6
<1>11. QED
  BY <1>1, <1>2, <1>4, <1>6, <1>7, <1>8, <1>9, <1>10, PlaceStep DEF RoomShape

\* The guest was in no room, and is in this one now.
LEMMA JoinClaimStep ==
  ASSUME EntryInv, RoomsAssumption, NEW h \in Requests, JoinClaim(h)
  PROVE  RoomInv'
<1>0. PICK r, u, me : r = req[h].room /\ u = req[h].user /\ me = room[r]
  OBVIOUS
<1>1. /\ UNCHANGED <<codeOf, claim, told, stray, torn, matches, slow>>
      /\ req[h].pc = "joinClaim" /\ Answer(h)
  BY DEF JoinClaim, At, queueVars
<1>2. TypesOK /\ MembersOK /\ RoomShape
  BY DEF EntryInv, RoomInv, TypesOK
<1>3. u \in Users /\ r \in Rooms /\ me \in RoomRecord
  BY <1>0, <1>1, <1>2 DEF TypesOK, KnownOK, RoomLabels, JoinLabels, RoomShape
<1>4. CASE UNCHANGED <<room, roomOf>>
  BY <1>1, <1>4, AnswerStep
<1>5. CASE Admits(r, u)
  <2>1. /\ room' = [room EXCEPT ![r].guest = u, ![r].status = "full"]
        /\ roomOf' = [roomOf EXCEPT ![u] = r]
        /\ me.exists /\ me.owner # u /\ me.guest = Nobody /\ roomOf[u] = Nobody
    BY <1>0, <1>5 DEF JoinClaim, Admits
  <2>2. PICK to : to = [me EXCEPT !.guest = u, !.status = "full"]
    OBVIOUS
  <2>3. /\ to \in RoomRecord /\ to.guest = u /\ to.status = "full" /\ to.exists = me.exists
        /\ to.owner = me.owner /\ to.match = me.match
    BY <1>3, <2>1, <2>2 DEF RoomRecord, Someone
  <2>4. RecordOK(to, Len(matches))
    BY <1>0, <1>2, <1>3, <2>1, <2>3 DEF TypesOK, RecordOK
  <2>5. /\ room' \in [Rooms -> RoomRecord] /\ room'[r] = to
        /\ \A s \in Rooms : s # r => room'[s] = room[s]
    <3>1. room' = [room EXCEPT ![r] = to]
      BY <1>0, <2>1, <2>2
    <3>2. QED
      BY <1>2, <1>3, <2>3, <3>1 DEF RoomShape
  <2>6. /\ roomOf' \in [Users -> Rooms \union {"pending", Nobody}] /\ roomOf'[u] = r
        /\ \A v \in Users : v # u => roomOf'[v] = roomOf[v]
    BY <1>2, <1>3, <2>1 DEF RoomShape
  <2>7. /\ req' \in [Requests -> ReqRecord] /\ req'[h] = IdleRequest /\ IdleRequest.pc = "idle"
        /\ \A g \in Requests : g # h => req'[g] = req[g]
    BY <1>1, <1>2, Answered, TheRequests
  <2>8. KnownOK(IdleRequest, Len(matches)) /\ Goes(h, IdleRequest)
    BY <1>2, IdleIsOK
  <2>9. Stays(r)
    BY <1>0, <1>1, <2>1, <2>3, <2>5 DEF Stays
  <2>10. \A g \in Requests : ~Drawn(g, r)
    BY <1>0, <2>1, OldPlace
  <2>11. MembersOK'
    <3>1. SUFFICES ASSUME NEW v \in Users \ stray  PROVE  Settled(v)'
      BY <1>1 DEF MembersOK
    <3>2. Settled(v)
      BY <1>2, <3>1 DEF MembersOK
    <3>3. \A g \in Requests : Creating(g, v)' => Creating(g, v) /\ req'[g] = req[g]
      BY <2>7 DEF Creating, CreateLabels
    <3>4. \A s \in Rooms : Lists(s, v)' =>
             (Lists(s, v) \/ (s = r /\ v = u)) /\ room'[s].owner = room[s].owner
      BY <1>0, <2>1, <2>3, <2>5 DEF Lists
    <3>5. CASE v = u
      <4>1. /\ \A s \in Rooms : ~Lists(s, u)
            /\ \A g \in Requests : ~Creating(g, u)
        BY <2>1, <3>1, <3>5, AtHome DEF RoomsAssumption
      <4>2. QED
        BY <2>6, <3>3, <3>4, <3>5, <4>1 DEF Settled
    <3>6. CASE v # u
      BY <2>6, <3>2, <3>3, <3>4, <3>6 DEF Settled
    <3>7. QED
      BY <3>5, <3>6
  <2>12. \A g \in Requests : \/ req'[g] = req[g]
                             \/ KnownOK(req'[g], Len(matches)) /\ Goes(g, req'[g])
    BY <2>7, <2>8
  <2>13. \A v \in Users : \/ roomOf'[v] = roomOf[v] \/ roomOf'[v] \notin Rooms
                          \/ \A g \in Requests : ~Drawn(g, roomOf'[v])
    BY <2>6, <2>10
  <2>14. \A s \in Rooms : \/ room'[s] = room[s]
                          \/ /\ RecordOK(room'[s], Len(matches))
                             /\ Stays(s) \/ Vanishes(s) \/ Made(s)
    BY <2>4, <2>5, <2>9
  <2>15. QED
    BY <1>1, <1>2, <2>5, <2>6, <2>7, <2>11, <2>12, <2>13, <2>14, PlaceStep DEF RoomShape
<1>6. QED
  BY <1>0, <1>4, <1>5 DEF JoinClaim

(* A room lets go of users: who was at home there, and is not listed by it *)
(* any more, is in no room.                                                *)
LEMMA LetGo ==
  ASSUME EntryInv, RoomsAssumption, NEW r \in Rooms, NEW lost, Strays(lost),
         NEW h \in Requests, Answer(h),
         \A s \in Rooms, v \in Users : Lists(s, v)' =>
            Lists(s, v) /\ room'[s].owner = room[s].owner,
         \A v \in Users : \/ roomOf'[v] = roomOf[v]
                          \/ ~Lists(r, v)' /\ (Overtaken(v, r) => v \in lost)
  PROVE  MembersOK'
<1>1. MembersOK /\ TypesOK /\ RoomShape
  BY DEF EntryInv, RoomInv, TypesOK
<1>2. /\ req'[h] = IdleRequest /\ IdleRequest.pc = "idle"
      /\ \A g \in Requests : g # h => req'[g] = req[g]
  BY <1>1, Answered, TheRequests
<1>3. Continues(h, IdleRequest)
  BY <1>1, IdleIsOK
<1>4. ASSUME NEW v \in Users \ stray'
      PROVE  (v \notin stray /\ roomOf'[v] = roomOf[v]) \/ ~Placed(v)'
  <2>1. SUFFICES ASSUME v \notin stray, v \notin lost, roomOf'[v] # roomOf[v]  PROVE  ~Placed(v)'
    BY <1>4, NotStray
  <2>2. roomOf[v] \in {r, Nobody} /\ ~Lists(r, v)'
    BY <1>4, <2>1 DEF Overtaken
  <2>3. /\ \A s \in Rooms : Lists(s, v) => s = r
        /\ \A g \in Requests : ~Creating(g, v)
    BY <1>4, <2>1, <2>2, AtHome
  <2>4. \A s \in Rooms : ~Lists(s, v)'
    BY <1>4, <2>2, <2>3
  <2>5. \A g \in Requests : ~Creating(g, v)'
    BY <1>2, <2>3 DEF Creating, CreateLabels
  <2>6. QED
    BY <2>4, <2>5 DEF Placed
<1>5. QED
  BY <1>1, <1>2, <1>3, <1>4, MembersStand

LEMMA LeaveStep ==
  ASSUME EntryInv, RoomsAssumption, NEW h \in Requests, LeaveScript(h)
  PROVE  RoomInv'
<1>0. PICK r, u, me : r = req[h].room /\ u = req[h].user /\ me = room[r]
  OBVIOUS
<1>1. UNCHANGED <<claim, told, matches, slow>> /\ req[h].pc = "leave"
  BY DEF LeaveScript, At, queueVars
<1>2. TypesOK /\ MembersOK /\ RoomShape
  BY DEF EntryInv, RoomInv, TypesOK
<1>3. u \in Users /\ r \in Rooms /\ me \in RoomRecord /\ RecordOK(me, Len(matches))
  BY <1>0, <1>1, <1>2 DEF TypesOK, KnownOK, RoomLabels, LeaveLabels, RoomShape
<1>4. ASSUME Answer(h)
      PROVE  /\ req' \in [Requests -> ReqRecord]
             /\ \A g \in Requests : \/ req'[g] = req[g]
                                    \/ KnownOK(req'[g], Len(matches)) /\ Goes(g, req'[g])
  BY <1>2, <1>4, Answered, TheRequests, IdleIsOK
<1>5. CASE me.exists /\ me.owner = u
  <2> DEFINE lost == {v \in Users : v \in {u, me.guest} /\ Overtaken(v, r)}
  <2>1. /\ room' = [room EXCEPT ![r] = NoRoom] /\ codeOf' = codeOf \ {r}
        /\ roomOf' = [v \in Users |-> IF v \in {u, me.guest} THEN Nobody ELSE roomOf[v]]
        /\ torn' = IF me.match # 0 THEN torn \union {r} ELSE torn
        /\ Answer(h) /\ Strays(lost)
    BY <1>0, <1>5 DEF LeaveScript
  <2>2. NoRoom \in RoomRecord /\ RecordOK(NoRoom, Len(matches))
        /\ ~NoRoom.exists /\ NoRoom.match = 0
    BY DEF NoRoom, RoomRecord, RecordOK, Someone
  <2>3. /\ room' \in [Rooms -> RoomRecord] /\ room'[r] = NoRoom
        /\ \A s \in Rooms : s # r => room'[s] = room[s]
    BY <1>2, <1>3, <2>1, <2>2 DEF RoomShape
  <2>4. /\ roomOf' \in [Users -> Rooms \union {"pending", Nobody}]
        /\ \A v \in Users : v \notin {u, me.guest} => roomOf'[v] = roomOf[v]
        /\ \A v \in Users : v \in {u, me.guest} => roomOf'[v] = Nobody
        /\ Nobody \notin Rooms
    BY <1>2, <2>1 DEF RoomShape, RoomsAssumption
  <2>5. codeOf' \subseteq Rooms /\ torn' \subseteq Rooms /\ torn \subseteq torn'
    BY <1>2, <1>3, <2>1 DEF RoomShape
  <2>6. stray' \subseteq Users
    BY <1>2, <2>1, StraysAreUsers DEF RoomShape
  <2>7. Vanishes(r)
    BY <1>0, <1>1, <2>1, <2>2, <2>3 DEF Vanishes
  <2>8. MembersOK'
    <3>1. \A s \in Rooms, v \in Users : Lists(s, v)' =>
             s # r /\ Lists(s, v) /\ room'[s].owner = room[s].owner
      BY <2>2, <2>3 DEF Lists
    <3>2. \A v \in Users : \/ roomOf'[v] = roomOf[v]
                           \/ ~Lists(r, v)' /\ (Overtaken(v, r) => v \in lost)
      BY <1>3, <2>4, <3>1
    <3> HIDE DEF lost
    <3>3. QED
      BY <1>3, <2>1, <3>1, <3>2, LetGo
  <2>9. \A v \in Users : roomOf'[v] = roomOf[v] \/ roomOf'[v] \notin Rooms
    BY <2>4
  <2>10. \A s \in Rooms : \/ room'[s] = room[s]
                          \/ /\ RecordOK(room'[s], Len(matches))
                             /\ Stays(s) \/ Vanishes(s) \/ Made(s)
    BY <2>2, <2>3, <2>7
  <2>11. QED
    BY <1>1, <1>4, <2>1, <2>3, <2>4, <2>5, <2>6, <2>8, <2>9, <2>10, PlaceStep
<1>6. CASE me.exists /\ me.owner # u /\ me.guest = u
  <2> DEFINE lost == {v \in {u} : Overtaken(v, r)}
  <2>1. /\ room' = [room EXCEPT ![r] = WithoutGuest(me)]
        /\ roomOf' = [roomOf EXCEPT ![u] = Nobody]
        /\ UNCHANGED <<codeOf, torn>> /\ Answer(h) /\ Strays(lost)
    BY <1>0, <1>6 DEF LeaveScript
  <2>2. PICK to : to = WithoutGuest(me)
    OBVIOUS
  <2>3. /\ to \in RoomRecord /\ to.guest = Nobody /\ to.status = "waiting"
        /\ to.exists = me.exists /\ to.owner = me.owner /\ to.match = me.match
    BY <1>3, <1>6, <2>2 DEF RoomRecord, WithoutGuest, Someone
  <2>4. RecordOK(to, Len(matches))
    BY <1>3, <1>6, <2>3 DEF RecordOK
  <2>5. /\ room' \in [Rooms -> RoomRecord] /\ room'[r] = to
        /\ \A s \in Rooms : s # r => room'[s] = room[s]
    BY <1>2, <1>3, <2>1, <2>2, <2>3 DEF RoomShape
  <2>6. /\ roomOf' \in [Users -> Rooms \union {"pending", Nobody}] /\ roomOf'[u] = Nobody
        /\ \A v \in Users : v # u => roomOf'[v] = roomOf[v]
        /\ Nobody \notin Rooms \union Users
    BY <1>2, <1>3, <2>1 DEF RoomShape, RoomsAssumption
  <2>7. stray' \subseteq Users
    BY <1>2, <1>3, <2>1, StraysAreUsers DEF RoomShape
  <2>8. Stays(r)
    BY <1>0, <1>1, <1>6, <2>3, <2>5 DEF Stays
  <2>9. MembersOK'
    <3>1. \A s \in Rooms, v \in Users : Lists(s, v)' =>
             Lists(s, v) /\ room'[s].owner = room[s].owner
      BY <1>0, <1>6, <2>3, <2>5, <2>6 DEF Lists
    <3>2. ~Lists(r, u)'
      BY <1>3, <1>6, <2>3, <2>5, <2>6 DEF Lists
    <3>3. \A v \in Users : \/ roomOf'[v] = roomOf[v]
                           \/ ~Lists(r, v)' /\ (Overtaken(v, r) => v \in lost)
      BY <2>6, <3>2
    <3> HIDE DEF lost
    <3>4. QED
      BY <1>3, <2>1, <3>1, <3>3, LetGo
  <2>10. \A v \in Users : roomOf'[v] = roomOf[v] \/ roomOf'[v] \notin Rooms
    BY <2>6
  <2>11. \A s \in Rooms : \/ room'[s] = room[s]
                          \/ /\ RecordOK(room'[s], Len(matches))
                             /\ Stays(s) \/ Vanishes(s) \/ Made(s)
    BY <2>4, <2>5, <2>8
  <2>12. codeOf' \subseteq Rooms /\ torn' \subseteq Rooms /\ torn \subseteq torn'
    BY <1>2, <2>1 DEF RoomShape
  <2>13. QED
    BY <1>1, <1>4, <2>1, <2>5, <2>6, <2>7, <2>9, <2>10, <2>11, <2>12, PlaceStep
<1>7. CASE Go(h, "dropMapping") /\ UNCHANGED <<room, codeOf, roomOf, stray, torn>>
  <2>1. /\ "dropMapping" \in Labels /\ "dropMapping" \notin HandoffLabels \union CreateLabels
        /\ "dropMapping" \notin {"createHash", "handoffClaim"}
        /\ "leave" \in RoomLabels /\ "leave" \notin JoinLabels
    BY DEF Labels, CreateLabels, JoinLabels, LeaveLabels, RoomLabels, HandoffLabels
  <2>2. QED
    BY <1>1, <1>7, <2>1, PassStep
<1>8. QED
  BY <1>0, <1>5, <1>6, <1>7 DEF LeaveScript

\* Keys lapse.  A matched room lapses when nobody asks for its match any more.
LEMMA RoomLapseStep ==
  ASSUME EntryInv, RoomsAssumption, NEW r \in Rooms, RoomLapse(r)
  PROVE  RoomInv'
<1>1. /\ UNCHANGED <<roomOf, claim, req, told, torn, matches, slow>>
      /\ room' = [room EXCEPT ![r] = NoRoom] /\ codeOf' = codeOf \ {r} /\ Strays({})
      /\ room[r].match # 0 => \A h \in Requests : req[h].room # r
  BY DEF RoomLapse, queueVars
<1>2. TypesOK /\ MembersOK /\ RoomShape
  BY DEF EntryInv, RoomInv, TypesOK
<1>3. /\ NoRoom \in RoomRecord /\ RecordOK(NoRoom, Len(matches))
      /\ ~NoRoom.exists /\ NoRoom.match = 0
  BY DEF NoRoom, RoomRecord, RecordOK, Someone
<1>4. /\ room' \in [Rooms -> RoomRecord] /\ room'[r] = NoRoom
      /\ \A s \in Rooms : s # r => room'[s] = room[s]
  BY <1>1, <1>2, <1>3 DEF RoomShape
<1>5. codeOf' \subseteq Rooms /\ stray' \subseteq Users /\ torn' \subseteq Rooms
  BY <1>1, <1>2, StraysAreUsers DEF RoomShape
<1>6. MembersOK'
  <2>1. \A s \in Rooms, v \in Users : Lists(s, v)' =>
           Lists(s, v) /\ room'[s].owner = room[s].owner
    BY <1>3, <1>4 DEF Lists
  <2>2. \A v \in Users \ stray' : (v \notin stray /\ roomOf'[v] = roomOf[v]) \/ ~Placed(v)'
    BY <1>1, NotStray
  <2>3. QED
    BY <1>1, <1>2, <2>1, <2>2, MembersStand
<1>7. Vanishes(r)
  BY <1>1, <1>3, <1>4 DEF Vanishes
<1>8. \A s \in Rooms : \/ room'[s] = room[s]
                       \/ /\ RecordOK(room'[s], Len(matches))
                          /\ Stays(s) \/ Vanishes(s) \/ Made(s)
  BY <1>3, <1>4, <1>7
<1>9. QED
  BY <1>1, <1>2, <1>4, <1>5, <1>6, <1>8, PlaceStep DEF RoomShape

LEMMA CodeLapseStep ==
  ASSUME EntryInv, NEW r \in Rooms, CodeLapse(r)
  PROVE  RoomInv'
<1>1. /\ UNCHANGED <<room, roomOf, claim, req, told, stray, torn, matches, slow>>
      /\ codeOf' = codeOf \ {r}
  BY DEF CodeLapse, queueVars
<1>2. RowsKept /\ Len(matches') \in Nat
  BY <1>1, RowsStay DEF EntryInv, QueueShape
<1>3. codeOf' \subseteq Rooms /\ req' \in [Requests -> ReqRecord]
  BY <1>1 DEF EntryInv, RoomInv, TypesOK, RoomShape
<1>4. QED
  BY <1>1, <1>2, <1>3, QuietStep

LEMMA MappingLapseStep ==
  ASSUME EntryInv, RoomsAssumption, NEW u \in Users, MappingLapse(u)
  PROVE  RoomInv'
<1>1. /\ UNCHANGED <<room, codeOf, claim, req, told, torn, matches, slow>>
      /\ roomOf' = [roomOf EXCEPT ![u] = Nobody] /\ Strays({u})
  BY DEF MappingLapse, queueVars
<1>2. TypesOK /\ MembersOK /\ RoomShape
  BY DEF EntryInv, RoomInv, TypesOK
<1>3. /\ roomOf' \in [Users -> Rooms \union {"pending", Nobody}] /\ roomOf'[u] = Nobody
      /\ \A v \in Users : v # u => roomOf'[v] = roomOf[v]
      /\ Nobody \notin Rooms
  BY <1>1, <1>2 DEF RoomShape, RoomsAssumption
<1>4. stray' \subseteq Users
  BY <1>1, <1>2, StraysAreUsers DEF RoomShape
<1>5. MembersOK'
  <2>1. \A s \in Rooms, v \in Users : Lists(s, v)' =>
           Lists(s, v) /\ room'[s].owner = room[s].owner
    BY <1>1 DEF Lists
  <2>2. ASSUME NEW v \in Users \ stray'
        PROVE  (v \notin stray /\ roomOf'[v] = roomOf[v]) \/ ~Placed(v)'
    <3>1. ~Placed(v)' \/ (v \notin stray /\ v \notin {u})
      BY <1>1, <2>2, NotStray
    <3>2. QED
      BY <1>3, <2>2, <3>1
  <2>3. QED
    BY <1>1, <1>2, <2>1, <2>2, MembersStand
<1>6. \A v \in Users : roomOf'[v] = roomOf[v] \/ roomOf'[v] \notin Rooms
  BY <1>3
<1>7. QED
  BY <1>1, <1>2, <1>3, <1>4, <1>5, <1>6, PlaceStep DEF RoomShape
-----------------------------------------------------------------------------
(* The steps together.                                                     *)

LEMMA QueueSleeps ==
  ASSUME QueueShape, UNCHANGED queueVars
  PROVE  QueueShape' /\ (AllKept => AllKept')
BY DEF queueVars, QueueShape, IsPoll, AllKept, InHands, Queued

(* The rooms leave the queue and its poll alone; what they add to the      *)
(* table of matches, they add by CreateRow and Serve.                      *)
LEMMA RoomsLeaveQueue ==
  ASSUME RoomsNext, EntryInv
  PROVE  /\ UNCHANGED <<queue, poll, promised, crashes>>
         /\ \/ QueueShape' /\ UNCHANGED matches
            \/ \E h \in Requests : CreateRow(h) \/ Serve(h)
<1>1. ASSUME NEW h \in Requests, NEW u \in Users,
             \/ CreateRoom(h, u) \/ GetMyRoom(h, u) \/ LeaveRoom(h, u) \/ StartRoom(h, u)
             \/ \E r \in Rooms : JoinRoom(h, u, r)
      PROVE  UNCHANGED queueVars
  BY <1>1 DEF CreateRoom, GetMyRoom, LeaveRoom, StartRoom, JoinRoom
<1>2. ASSUME NEW h \in Requests,
             \/ CheckNoMatch(h) \/ CheckNotQueued(h)
             \/ CreateUndo(h) \/ CreateHash(h) \/ CreateExpire(h) \/ CreateMapping(h)
             \/ \E r \in Rooms : ClaimCode(h, r)
             \/ JoinMapping(h) \/ JoinClaim(h)
             \/ GetLoad(h) \/ LeaveScript(h) \/ DropMapping(h)
             \/ StartLoad(h) \/ HandoffLoad(h) \/ HandoffClaim(h)
             \/ AdoptOwner(h) \/ AdoptGuest(h) \/ Abort(h) \/ MatchDone(h)
      PROVE  UNCHANGED queueVars
  BY <1>2 DEF CheckNoMatch, CheckNotQueued, CreateUndo, CreateHash, CreateExpire, CreateMapping,
     ClaimCode, JoinMapping, JoinClaim, GetLoad, LeaveScript, DropMapping, StartLoad, HandoffLoad,
     HandoffClaim, AdoptOwner, AdoptGuest, Abort, MatchDone
<1>3. ASSUME NEW h \in Requests, CallFails(h) \/ CreateReplyLost(h)
      PROVE  /\ UNCHANGED <<queue, matches, joining, poll, crashes, slow, promised>>
             /\ faults' = faults + 1
  BY <1>3 DEF CallFails, CreateReplyLost
<1>4. ASSUME NEW h \in Requests, CreateRow(h) \/ Serve(h)
      PROVE  UNCHANGED <<queue, poll, promised, crashes>>
  BY <1>4 DEF CreateRow, Serve
<1>5. ASSUME NEW r \in Rooms, ClaimLapse(r)
      PROVE  /\ UNCHANGED <<queue, matches, joining, poll, crashes, faults, promised>>
             /\ slow' = slow \/ slow' = slow + 1
  BY <1>5 DEF ClaimLapse
<1>6. ASSUME NEW r \in Rooms, RoomLapse(r) \/ CodeLapse(r)  PROVE  UNCHANGED queueVars
  BY <1>6 DEF RoomLapse, CodeLapse
<1>7. ASSUME NEW u \in Users, MappingLapse(u)  PROVE  UNCHANGED queueVars
  BY <1>7 DEF MappingLapse
<1>8. CASE UNCHANGED queueVars
  BY <1>8, QueueSleeps DEF EntryInv, queueVars
<1>9. CASE \E h \in Requests : CallFails(h) \/ CreateReplyLost(h)
  BY <1>3, <1>9 DEF EntryInv, QueueShape, IsPoll
<1>10. CASE \E r \in Rooms : ClaimLapse(r)
  BY <1>5, <1>10 DEF EntryInv, QueueShape, IsPoll
<1>11. CASE \E h \in Requests : CreateRow(h) \/ Serve(h)
  BY <1>4, <1>11
<1>12. QED
  BY <1>1, <1>2, <1>6, <1>7, <1>8, <1>9, <1>10, <1>11 DEF RoomsNext

LEMMA RoomsStep ==
  ASSUME EntryInv, RoomsAssumption, RoomsNext
  PROVE  EntryInv'
<1>1. CASE \E h \in Requests : CreateRow(h) \/ Serve(h)
  BY <1>1, CreateRowStep, ServeStep
<1>2. CASE ~\E h \in Requests : CreateRow(h) \/ Serve(h)
  <2>1. QueueShape'
    BY <1>2, RoomsLeaveQueue
  <2>2. CASE \E h \in Requests, u \in Users :
                \/ CreateRoom(h, u) \/ GetMyRoom(h, u) \/ LeaveRoom(h, u) \/ StartRoom(h, u)
                \/ \E r \in Rooms : JoinRoom(h, u, r)
    BY <2>1, <2>2, CreateRoomStep, BeginSteps DEF EntryInv
  <2>3. CASE \E h \in Requests : CheckNoMatch(h) \/ CheckNotQueued(h) \/ JoinMapping(h)
                                 \/ GetLoad(h) \/ StartLoad(h) \/ HandoffLoad(h)
    BY <2>1, <2>3, CheckSteps, LookSteps, HandoffLoadStep DEF EntryInv
  <2>4. CASE \E h \in Requests : \/ CreateUndo(h) \/ CreateHash(h) \/ CreateExpire(h)
                                 \/ CreateMapping(h) \/ CreateReplyLost(h)
                                 \/ \E r \in Rooms : ClaimCode(h, r)
    BY <2>1, <2>4, CreateUndoStep, CreateHashStep, CreateExpireStep, CreateMappingStep,
       CreateReplyLostStep, ClaimCodeStep DEF EntryInv
  <2>5. CASE \E h \in Requests : JoinClaim(h) \/ LeaveScript(h) \/ DropMapping(h)
    BY <2>1, <2>5, JoinClaimStep, LeaveStep, DropMappingStep DEF EntryInv
  <2>6. CASE \E h \in Requests : \/ HandoffClaim(h) \/ AdoptOwner(h) \/ AdoptGuest(h)
                                 \/ CallFails(h) \/ Abort(h) \/ MatchDone(h)
    BY <2>1, <2>6, HandoffClaimStep, AdoptStep, CallFailsStep, AbortStep, MatchDoneStep
       DEF EntryInv
  <2>7. CASE \/ \E r \in Rooms : RoomLapse(r) \/ CodeLapse(r) \/ ClaimLapse(r)
             \/ \E u \in Users : MappingLapse(u)
    BY <2>1, <2>7, RoomLapseStep, CodeLapseStep, ClaimLapseStep, MappingLapseStep DEF EntryInv
  <2>8. QED
    BY <1>2, <2>2, <2>3, <2>4, <2>5, <2>6, <2>7 DEF RoomsNext
<1>3. QED
  BY <1>1, <1>2

\* A replica dies: a request of the rooms, or a poll, is no more.
LEMMA CrashStep ==
  ASSUME EntryInv, RoomsAssumption, Crash
  PROVE  /\ EntryInv' /\ UNCHANGED <<queue, matches, promised>>
         /\ (UNCHANGED <<poll, crashes>> \/ crashes' # 0)
         /\ \A t \in Polls : poll'[t] = poll[t] \/ poll'[t] = IdlePoll
<1>1. /\ UNCHANGED <<queue, matches, joining, slow, promised>>
      /\ UNCHANGED <<room, codeOf, roomOf, claim, told, stray, torn>>
      /\ crashes \in Nat /\ faults \in Nat
  BY DEF Crash, EntryInv, QueueShape
<1>2. CASE \E h \in Requests : /\ Answer(h) /\ faults' = faults + 1
                               /\ UNCHANGED <<poll, crashes>>
  <2>1. RoomInv'
    BY <1>1, <1>2, AnswerStep
  <2>2. QueueShape'
    BY <1>1, <1>2 DEF EntryInv, QueueShape, IsPoll
  <2>3. QED
    BY <1>1, <1>2, <2>1, <2>2 DEF EntryInv
<1>3. CASE \E t \in Polls : /\ poll' = [poll EXCEPT ![t] = IdlePoll]
                            /\ crashes' = crashes + 1 /\ UNCHANGED <<req, faults>>
  <2>1. PICK t \in Polls : poll' = [poll EXCEPT ![t] = IdlePoll]
    BY <1>3
  <2>2. Len(matches') \in Nat /\ Len(matches') >= Len(matches) /\ RowsKept
    BY <1>1, RowsStay DEF EntryInv, QueueShape
  <2>3. IdlePoll \in PollRecord /\ IsPoll(IdlePoll)'
    BY <2>2, IdleIsPoll DEF EntryInv
  <2>4. poll' \in [Polls -> PollRecord] /\ \A s \in Polls : IsPoll(poll[s])'
    BY <2>1, <2>2, <2>3, PollsTyped DEF EntryInv
  <2>5. QueueShape' /\ crashes' # 0
    BY <1>1, <1>3, <2>4 DEF EntryInv, QueueShape
  <2>6. RoomInv'
    BY <1>1, <1>3, <2>2, RoomsSleep DEF roomVars
  <2>7. \A s \in Polls : poll'[s] = poll[s] \/ poll'[s] = IdlePoll
    BY <2>1 DEF EntryInv, QueueShape
  <2>8. QED
    BY <1>1, <2>5, <2>6, <2>7 DEF EntryInv
<1>4. QED
  BY <1>2, <1>3 DEF Crash

LEMMA EntryInit ==
  ASSUME Init, EntryBounds, RoomsAssumption
  PROVE  EntryInv
<1>1. QueueShape
  <2>1. queue \in Seq(Users) /\ IsInjective(queue) /\ matches \in Seq(Rows)
    BY DEF Init, InitQueue, IsInjective
  <2>2. poll \in [Polls -> PollRecord] /\ \A t \in Polls : IsPoll(poll[t])
    BY DEF Init, InitQueue, IdlePoll, PollRecord, IsPoll
  <2>3. QED
    BY <2>1, <2>2 DEF Init, InitQueue, QueueShape
<1>2. /\ IdleRequest \in ReqRecord /\ IdleRequest.pc = "idle" /\ IdleRequest.room = Nobody
  BY DEF IdleRequest, ReqRecord, Labels, Someone
<1>3. /\ NoRoom \in RoomRecord /\ ~NoRoom.exists /\ NoRoom.match = 0 /\ NoRoom.status = "none"
  BY DEF NoRoom, RoomRecord, Someone
<1>4. /\ room = [r \in Rooms |-> NoRoom] /\ codeOf = {} /\ roomOf = [u \in Users |-> Nobody]
      /\ claim = [r \in Rooms |-> Nobody] /\ req = [h \in Requests |-> IdleRequest]
      /\ told = [r \in Rooms |-> {}] /\ stray = {} /\ torn = {} /\ matches = <<>>
  BY DEF Init, InitQueue, InitRooms
<1> HIDE DEF IdleRequest, NoRoom
<1>5. RoomShape
  BY <1>2, <1>3, <1>4 DEF RoomShape
<1>6. TypesOK
  <2>1. \A r \in Rooms : RecordOK(room[r], Len(matches))
    BY <1>3, <1>4 DEF RecordOK
  <2>2. \A h \in Requests : req[h] = IdleRequest
    BY <1>4
  <2>3. \A h \in Requests : KnownOK(req[h], Len(matches))
    BY <1>2, <2>2 DEF KnownOK, RoomLabels, JoinLabels, LeaveLabels, StartLabels, Working
  <2>4. QED
    BY <1>5, <2>1, <2>3 DEF TypesOK
<1>7. MembersOK
  BY <1>2, <1>3, <1>4 DEF MembersOK, Settled, Lists, Creating, CreateLabels
<1>8. \A i \in Nat : \A r : ~MadeBy(i, r)
  <2>1. Len(matches) = 0
    BY <1>4
  <2>2. QED
    BY <2>1 DEF MadeBy
<1>9. HandoffsOK
  <2>1. \A h \in Requests : req[h].pc = "idle" /\ req[h].room = Nobody
    BY <1>2, <1>4
  <2>2. \A r \in Rooms : ToldOK(r) /\ OwnerOK(r)
    BY <1>3, <1>4 DEF ToldOK, OwnerOK
  <2>3. \A h \in Requests : FreshOK(h) /\ SeenOK(h)
    BY <2>1 DEF FreshOK, SeenOK, At
  <2>4. ClaimsOK
    <3>1. \A h \in Requests : req[h].pc \notin Working /\ req[h].room \notin Rooms
      BY <2>1 DEF Working, RoomsAssumption
    <3>2. QED
      BY <1>8, <3>1 DEF ClaimsOK, OneRow, OneWorker, RowFits
  <2>5. QED
    BY <2>2, <2>3, <2>4 DEF HandoffsOK
<1>10. QED
  BY <1>1, <1>6, <1>7, <1>9 DEF EntryInv, RoomInv

LEMMA EntryStep ==
  ASSUME EntryInv, RoomsAssumption, [Next]_entryVars
  PROVE  EntryInv'
<1>1. CASE QueueNext /\ UNCHANGED roomVars
  <2>1. QueueShape' /\ RowsKept /\ slow' = slow
    BY <1>1, QueueStep DEF EntryInv
  <2>2. Len(matches') \in Nat
    BY <2>1 DEF QueueShape
  <2>3. RoomInv'
    BY <1>1, <2>1, <2>2, RoomsSleep
  <2>4. QED
    BY <2>1, <2>3 DEF EntryInv
<1>2. CASE RoomsNext
  BY <1>2, RoomsStep
<1>3. CASE Crash
  BY <1>3, CrashStep
<1>4. CASE UNCHANGED entryVars
  <2>1. UNCHANGED <<queueVars, roomVars>>
    BY <1>4 DEF entryVars
  <2>2. QueueShape'
    BY <2>1, QueueSleeps DEF EntryInv
  <2>3. RowsKept /\ Len(matches') \in Nat /\ slow' = slow
    BY <2>1, RowsStay DEF queueVars, EntryInv, QueueShape
  <2>4. RoomInv'
    BY <2>1, <2>3, RoomsSleep
  <2>5. QED
    BY <2>2, <2>4 DEF EntryInv
<1>5. QED
  BY <1>1, <1>2, <1>3, <1>4 DEF Next

LEMMA EntryInvariant == Spec => []EntryInv
<1>1. Init => EntryInv
  BY EntryInit, EntryBounds, RoomsAssumption
<1>2. EntryInv /\ [Next]_entryVars => EntryInv'
  BY EntryStep, RoomsAssumption
<1>3. QED
  BY <1>1, <1>2, PTL DEF Spec
-----------------------------------------------------------------------------
(* Theorems.                                                               *)

(* The queue and the rooms keep their types: no member of the queue twice, *)
(* no match of a user with himself, a full room has its guest, a matched   *)
(* one its match, and a worker past the claim knows both players.          *)
THEOREM EntryTypes == Spec => []EntryTypeOK
<1>1. EntryInv => EntryTypeOK
  <2>1. SUFFICES ASSUME EntryInv  PROVE  EntryTypeOK
    OBVIOUS
  <2>2. QueueShape /\ RoomShape
    BY <2>1 DEF EntryInv, RoomInv, TypesOK
  <2>3. ToSet(queue) \subseteq Users /\ IsInjective(queue)
    BY <2>2 DEF QueueShape, ToSet
  <2>4. ASSUME NEW i \in DOMAIN matches, matches[i] # EndedMatch
        PROVE  /\ matches[i].players \in Users \X Users /\ IsInjective(matches[i].players)
               /\ matches[i].by \in {"queue"} \union Rooms
    <3>1. matches[i] \in Rows
      BY <2>2 DEF QueueShape
    <3>2. matches[i].players \in Pairs /\ matches[i].by \in Origins
      BY <2>4, <3>1 DEF Rows
    <3>3. PICK p \in Pairs : p = matches[i].players
      BY <3>2
    <3>4. p \in Users \X Users
      BY DEF Pairs
    <3>5. IsInjective(p)
      BY PairSet DEF IsInjective
    <3>6. QED
      BY <3>2, <3>3, <3>4, <3>5 DEF Origins
  <2>5. ASSUME NEW r \in Rooms
        PROVE  /\ room[r].status = "full" => room[r].guest \in Users \ {room[r].owner}
               /\ room[r].status = "matched" => room[r].match \in DOMAIN matches
    <3>1. RecordOK(room[r], Len(matches)) /\ room[r] \in RoomRecord
          /\ DOMAIN matches = 1 .. Len(matches)
      BY <2>1, <2>2 DEF EntryInv, RoomInv, TypesOK, QueueShape, RoomShape
    <3>2. QED
      BY <3>1 DEF RecordOK
  <2>6. ASSUME NEW h \in Requests, req[h].pc \in HandoffLabels \ {"done"}
        PROVE  {req[h].owner, req[h].guest} \subseteq Users
    <3>1. req[h].pc \in Working
      BY <2>6 DEF HandoffLabels, Working
    <3>2. KnownOK(req[h], Len(matches))
      BY <2>1 DEF EntryInv, RoomInv, TypesOK
    <3>3. QED
      BY <3>1, <3>2 DEF KnownOK
  <2>7. QED
    BY <2>2, <2>3, <2>4, <2>5, <2>6 DEF EntryTypeOK, QueueShape, RoomShape
<1>2. QED
  BY <1>1, EntryInvariant, PTL

(* Whoever a waiting or full room lists has his mapping on it (its owner   *)
(* the placeholder until the mapping is written) and is listed by no other *)
(* room, whatever requests of him run at once, die or fail, and whichever  *)
(* keys lapse: the stray users apart, who lost a mapping to a call that    *)
(* had not looked at it, or to a lapse under a room that still lists them. *)
THEOREM SingleMembership == Spec => []MembershipAgrees
<1>1. EntryInv => MembershipAgrees
  <2>1. SUFFICES ASSUME MembersOK  PROVE  MembershipAgrees
    BY DEF EntryInv, RoomInv
  <2>2. \A u \in Users \ stray, r \in Rooms : Lists(r, u) =>
           /\ roomOf[u] = r \/ (roomOf[u] = "pending" /\ u = room[r].owner)
           /\ \A s \in Rooms : Lists(s, u) => s = r
    BY <2>1 DEF MembersOK, Settled
  <2>3. QED
    BY <2>2 DEF MembershipAgrees
<1>2. QED
  BY <1>1, EntryInvariant, PTL

(* As long as no claim lapses under its holder, of the matches made for a  *)
(* room at most one is live, whatever crashes, fails and is pressed again. *)
THEOREM OneHandoff == Spec => []HandoffOnce
<1>1. EntryInv => HandoffOnce
  <2>1. SUFFICES ASSUME EntryInv, slow = 0, NEW i \in DOMAIN matches, NEW j \in DOMAIN matches,
                        matches[i].by \in Rooms, matches[i].by = matches[j].by,
                        matches[i].active, matches[j].active
                 PROVE  i = j
    BY DEF HandoffOnce
  <2>2. DOMAIN matches = 1 .. Len(matches) /\ i \in Nat /\ j \in Nat
    BY <2>1 DEF EntryInv, QueueShape
  <2>3. MadeBy(i, matches[i].by) /\ MadeBy(j, matches[i].by)
    BY <2>1, <2>2 DEF MadeBy
  <2>4. OneRow
    BY <2>1 DEF EntryInv, RoomInv, HandoffsOK, ClaimsOK
  <2>5. QED
    BY <2>1, <2>2, <2>3, <2>4 DEF OneRow
<1>2. QED
  BY <1>1, EntryInvariant, PTL

(* All who ask for the match of a room are sent to the same one, also when *)
(* a claim lapsed and two workers finished the handoff, unless the owner's *)
(* leave took the record away in between.                                  *)
THEOREM SameMatchTold == Spec => []OneMatchTold
<1>1. EntryInv => OneMatchTold
  <2>1. SUFFICES ASSUME EntryInv, NEW r \in Rooms \ torn  PROVE  Cardinality(told[r]) <= 1
    BY DEF OneMatchTold
  <2>2. told[r] = {} \/ \E m \in Nat : told[r] = {m}
    <3>1. ToldOK(r) /\ room[r].match \in Nat
      BY <2>1 DEF EntryInv, RoomInv, HandoffsOK, TypesOK, RoomShape, RoomRecord
    <3>2. QED
      BY <2>1, <3>1 DEF ToldOK
  <2>3. QED
    <3>1. Cardinality({}) = 0 /\ \A m : Cardinality({m}) = 1
      BY FS_EmptySet, FS_Singleton
    <3>2. Cardinality(told[r]) \in {0, 1}
      BY <2>2, <3>1
    <3>3. QED
      BY <3>2
<1>2. QED
  BY <1>1, EntryInvariant, PTL

(* Whoever joined and did not leave stays in the queue or in the hands of  *)
(* a poll until he has a match, unless a poll dies or gives up.            *)
THEOREM NobodyIsLost == Spec => []NobodyLost
<1> DEFINE Kept == crashes = 0 => AllKept
<1>1. Init => Kept
  BY DEF Init, InitQueue, AllKept
<1>2. ASSUME EntryInv, Kept, [Next]_entryVars  PROVE  Kept'
  <2>1. CASE QueueNext
    BY <1>2, <2>1, QueueStep, RoomsAssumption DEF EntryInv
  <2>2. CASE RoomsNext
    BY <1>2, <2>2, RoomsLeaveQueue DEF AllKept, InHands, Queued
  <2>3. CASE Crash
    BY <1>2, <2>3, CrashStep, RoomsAssumption DEF AllKept, InHands, Queued
  <2>4. CASE UNCHANGED entryVars
    BY <1>2, <2>4 DEF entryVars, queueVars, AllKept, InHands, Queued
  <2>5. QED
    BY <1>2, <2>1, <2>2, <2>3, <2>4 DEF Next
<1>3. Kept => NobodyLost
  BY DEF AllKept, InHands, NobodyLost
<1>4. QED
  BY <1>1, <1>2, <1>3, EntryInvariant, PTL DEF Spec

-----------------------------------------------------------------------------
(* The queue matches a player once.  joinQueue and tryPair look for a live *)
(* match first; what makes the look of one poll good until its row is      *)
(* there is that no other poll is between its pop and its row.             *)

OnePoll == \A s, t \in Polls :
    poll[s].pc \in {"check", "create"} /\ poll[t].pc \in {"check", "create"} => s = t

QueueRow(i) == MadeBy(i, "queue")

\* Whom the poll has checked has no live match of the queue.
CheckedIsFree ==
    \A t \in Polls : poll[t].pc = "create" =>
        \A i \in Nat : QueueRow(i) =>
            ToSet(poll[t].pair) \intersect ToSet(matches[i].players) = {}

RowsApart == \A i, j \in Nat :
    i # j /\ QueueRow(i) /\ QueueRow(j) =>
        ToSet(matches[i].players) \intersect ToSet(matches[j].players) = {}

\* Without a new row of the queue, and a poll that has not looked.
LEMMA ApartStays ==
  ASSUME CheckedIsFree, RowsApart,
         \A i \in Nat : QueueRow(i)' => QueueRow(i) /\ matches'[i].players = matches[i].players,
         \A t \in Polls : poll'[t].pc = "create" => poll'[t] = poll[t]
  PROVE  CheckedIsFree' /\ RowsApart'
<1>1. CheckedIsFree'
  BY DEF CheckedIsFree
<1>2. RowsApart'
  BY DEF RowsApart
<1>3. QED
  BY <1>1, <1>2

LEMMA QueueRowsStay ==
  ASSUME QueueShape,
         \/ UNCHANGED matches
         \/ \E k \in 1 .. Len(matches) :
               \/ matches' = [matches EXCEPT ![k].served = TRUE]
               \/ matches' = [matches EXCEPT ![k] = EndedMatch]
  PROVE  \A i \in Nat : QueueRow(i)' => QueueRow(i) /\ matches'[i].players = matches[i].players
<1>1. CASE UNCHANGED matches
  BY <1>1 DEF QueueRow, MadeBy
<1>2. CASE \E k \in 1 .. Len(matches) :
               \/ matches' = [matches EXCEPT ![k].served = TRUE]
               \/ matches' = [matches EXCEPT ![k] = EndedMatch]
  BY <1>2, RowServed DEF QueueRow
<1>3. QED
  BY <1>1, <1>2

\* A match of a room is none of the queue's.
LEMMA RoomsAddNone ==
  ASSUME EntryInv, RoomsAssumption, RoomsNext
  PROVE  /\ UNCHANGED poll
         /\ \A i \in Nat : QueueRow(i)' => QueueRow(i) /\ matches'[i].players = matches[i].players
<1>1. UNCHANGED poll
  BY RoomsLeaveQueue
<1>2. CASE \E h \in Requests : CreateRow(h)
  <2>1. PICK h \in Requests : CreateRow(h)
    BY <1>2
  <2>2. req[h].room # "queue"
    <3>1. req[h].pc \in Working
      BY <2>1 DEF CreateRow, At, Working
    <3>2. QED
      BY <3>1, WorkerFacts DEF RoomsAssumption
  <2>3. /\ \A i \in Nat : QueueRow(i)' => QueueRow(i)
        /\ \A i \in 1 .. Len(matches) : matches'[i] = matches[i]
    BY <2>1, <2>2, CreateRowStep DEF QueueRow
  <2>4. QED
    BY <1>1, <2>3 DEF QueueRow, MadeBy
<1>3. CASE \E h \in Requests : Serve(h)
  <2>1. PICK h \in Requests : Serve(h)
    BY <1>3
  <2>2. req[h].pc = "serve" /\ req[h].pc \in Working
    BY <2>1 DEF Serve, At, Working
  <2>3. req[h].match \in 1 .. Len(matches)
    BY <2>2, WorkerFacts DEF KnownOK
  <2>4. matches' = [matches EXCEPT ![req[h].match].served = TRUE]
    BY <2>1 DEF Serve
  <2>5. QED
    BY <1>1, <2>3, <2>4, QueueRowsStay DEF EntryInv
<1>4. CASE UNCHANGED matches
  BY <1>1, <1>4, QueueRowsStay DEF EntryInv
<1>5. QED
  BY <1>2, <1>3, <1>4, RoomsLeaveQueue

\* What the poll has looked at holds until its row is there.
LEMMA CheckIsGood ==
  ASSUME EntryInv, CheckedIsFree, NEW t \in Polls, CheckActive(t), RowsApart
  PROVE  CheckedIsFree' /\ RowsApart'
<1> DEFINE p == poll[t].pair
<1>1. p \in Pairs /\ UNCHANGED matches
  BY DEF CheckActive, EntryInv, QueueShape, IsPoll
<1>2. \A i \in Nat : QueueRow(i)' <=> QueueRow(i)
  BY <1>1 DEF QueueRow, MadeBy
<1>3. RowsApart'
  BY <1>1, <1>2 DEF RowsApart
<1>4. \A s \in Polls : s # t => poll'[s] = poll[s]
  BY DEF CheckActive, EntryInv, QueueShape
<1>5. CASE Free(p) = ToSet(p)
  <2>1. poll'[t].pair = p
    BY <1>5 DEF CheckActive, EntryInv, QueueShape, PollRecord
  <2>2. ASSUME NEW i \in Nat, QueueRow(i)
        PROVE  ToSet(p) \intersect ToSet(matches[i].players) = {}
    <3>1. i \in DOMAIN matches /\ matches[i].active
      BY <2>2, LiveRow DEF QueueRow, MadeBy, EntryInv
    <3>2. \A u \in ToSet(p) : ~InMatch(u)
      BY <1>5 DEF Free
    <3>3. QED
      BY <3>1, <3>2 DEF InMatch, MatchesOf
  <2>3. CheckedIsFree'
    <3>1. SUFFICES ASSUME NEW s \in Polls, poll'[s].pc = "create", NEW i \in Nat, QueueRow(i)
                   PROVE  ToSet(poll'[s].pair) \intersect ToSet(matches[i].players) = {}
      BY <1>1, <1>2 DEF CheckedIsFree
    <3>2. CASE s = t
      BY <2>1, <2>2, <3>1, <3>2
    <3>3. CASE s # t
      BY <1>4, <3>1, <3>3 DEF CheckedIsFree
    <3>4. QED
      BY <3>2, <3>3
  <2>4. QED
    BY <1>3, <2>3
<1>6. CASE Free(p) # ToSet(p)
  <2>1. poll'[t] = IdlePoll
    BY <1>6 DEF CheckActive, EntryInv, QueueShape
  <2>2. CheckedIsFree'
    <3>1. SUFFICES ASSUME NEW s \in Polls, poll'[s].pc = "create", NEW i \in Nat, QueueRow(i)
                   PROVE  ToSet(poll'[s].pair) \intersect ToSet(matches[i].players) = {}
      BY <1>1, <1>2 DEF CheckedIsFree
    <3>2. s # t
      BY <2>1, <3>1 DEF IdlePoll
    <3>3. QED
      BY <1>4, <3>1, <3>2 DEF CheckedIsFree
  <2>3. QED
    BY <1>3, <2>2
<1>7. QED
  BY <1>5, <1>6

LEMMA CreateIsGood ==
  ASSUME EntryInv, OnePoll, CheckedIsFree, RowsApart, NEW t \in Polls, CreateMatch(t)
  PROVE  CheckedIsFree' /\ RowsApart'
<1>1. PICK n \in Nat : n = Len(matches)
  BY DEF EntryInv, QueueShape
<1>2. PICK p \in Pairs : p = poll[t].pair
  BY DEF CreateMatch, EntryInv, QueueShape, IsPoll
<1>3. PICK row : row = NewMatch(p, "queue")
  OBVIOUS
<1>4. /\ poll[t].pc = "create" /\ matches' = Append(matches, row) /\ row.players = p
      /\ poll' = [poll EXCEPT ![t] = [pc |-> "initialize", pair |-> <<>>, match |-> n + 1]]
  BY <1>1, <1>2, <1>3 DEF CreateMatch, NewMatch
<1>5. /\ Len(matches') = n + 1 /\ matches'[n + 1] = row
      /\ \A i \in 1 .. n : matches'[i] = matches[i]
  BY <1>1, <1>4 DEF EntryInv, QueueShape
<1>6. ASSUME NEW i \in Nat, QueueRow(i)', i # n + 1
      PROVE  QueueRow(i) /\ matches'[i] = matches[i]
  <2>1. i \in 1 .. (n + 1) /\ matches'[i].active /\ matches'[i].by = "queue"
    BY <1>5, <1>6 DEF QueueRow, MadeBy
  <2>2. i \in 1 .. n /\ matches'[i] = matches[i]
    BY <1>5, <1>6, <2>1
  <2>3. QED
    BY <1>1, <2>1, <2>2 DEF QueueRow, MadeBy
<1>7. CheckedIsFree'
  <2>1. \A s \in Polls : poll'[s].pc # "create"
    <3>1. \A s \in Polls : poll'[s] = IF s = t
                THEN [pc |-> "initialize", pair |-> <<>>, match |-> n + 1] ELSE poll[s]
      BY <1>4 DEF EntryInv, QueueShape
    <3>2. \A s \in Polls : s # t => poll[s].pc # "create"
      BY <1>4 DEF OnePoll
    <3>3. QED
      BY <3>1, <3>2
  <2>2. QED
    BY <2>1 DEF CheckedIsFree
<1>8. RowsApart'
  <2>1. \A i \in Nat : QueueRow(i) => ToSet(p) \intersect ToSet(matches[i].players) = {}
    BY <1>2, <1>4 DEF CheckedIsFree
  <2>2. matches'[n + 1].players = p
    BY <1>4, <1>5
  <2>3. QED
    BY <1>6, <2>1, <2>2 DEF RowsApart
<1>9. QED
  BY <1>7, <1>8

LEMMA ApartStep ==
  ASSUME EntryInv, RoomsAssumption, OnePoll, CheckedIsFree, RowsApart, [Next]_entryVars
  PROVE  CheckedIsFree' /\ RowsApart'
<1>1. CASE \E u \in Users : JoinQueue(u) \/ AddToQueue(u) \/ LeaveQueue(u)
  <2>1. UNCHANGED <<matches, poll>>
    BY <1>1 DEF JoinQueue, AddToQueue, LeaveQueue
  <2>2. QED
    BY <2>1, QueueRowsStay, ApartStays DEF EntryInv
<1>2. CASE \E t \in Polls : Pop(t) \/ CreateFails(t) \/ GiveUp(t) \/ InitializeFails(t)
  <2>1. UNCHANGED matches
    BY <1>2 DEF Pop, CreateFails, GiveUp, InitializeFails
  <2>2. \A t \in Polls : poll'[t].pc = "create" => poll'[t] = poll[t]
    BY <1>2 DEF Pop, CreateFails, GiveUp, InitializeFails, IdlePoll, EntryInv, QueueShape
  <2>3. QED
    BY <2>1, <2>2, QueueRowsStay, ApartStays DEF EntryInv
<1>3. CASE \E t \in Polls : CheckActive(t)
  BY <1>3, CheckIsGood
<1>4. CASE \E t \in Polls : CreateMatch(t)
  BY <1>4, CreateIsGood
<1>5. CASE \E t \in Polls : InitializeMatch(t)
  <2>1. PICK t \in Polls : InitializeMatch(t)
    BY <1>5
  <2>2. /\ poll[t].match \in 1 .. Len(matches)
        /\ matches' = [matches EXCEPT ![poll[t].match].served = TRUE]
        /\ \A s \in Polls : poll'[s].pc = "create" => poll'[s] = poll[s]
    BY <2>1 DEF InitializeMatch, EntryInv, QueueShape, IsPoll, IdlePoll
  <2>3. QED
    BY <2>2, QueueRowsStay, ApartStays DEF EntryInv
<1>6. CASE \E i \in DOMAIN matches : MatchEnds(i)
  <2>1. PICK k \in DOMAIN matches : MatchEnds(k)
    BY <1>6
  <2>2. /\ k \in 1 .. Len(matches) /\ matches' = [matches EXCEPT ![k] = EndedMatch]
        /\ UNCHANGED poll
    BY <2>1 DEF MatchEnds, EntryInv, QueueShape
  <2>3. QED
    BY <2>2, QueueRowsStay, ApartStays DEF EntryInv
<1>7. CASE RoomsNext
  BY <1>7, RoomsAddNone, ApartStays
<1>8. CASE Crash
  <2>1. UNCHANGED matches /\ \A t \in Polls : poll'[t].pc = "create" => poll'[t] = poll[t]
    BY <1>8, CrashStep DEF IdlePoll
  <2>2. QED
    BY <2>1, QueueRowsStay, ApartStays DEF EntryInv
<1>9. CASE UNCHANGED entryVars
  <2>1. UNCHANGED <<matches, poll>>
    BY <1>9 DEF entryVars, queueVars
  <2>2. QED
    BY <2>1, QueueRowsStay, ApartStays DEF EntryInv
<1>10. QED
  BY <1>1, <1>2, <1>3, <1>4, <1>5, <1>6, <1>7, <1>8, <1>9 DEF Next, QueueNext

(* As long as one poll at a time is between its pop and its row, no player *)
(* is in two live matches of the queue, however often he joins again and   *)
(* whatever room he is in meanwhile.                                       *)
THEOREM MatchedOnce == Spec /\ []OnePoll => []QueueMatchesOnce
<1> DEFINE Apart == CheckedIsFree /\ RowsApart
<1>1. Init => Apart
  <2>1. SUFFICES ASSUME Init  PROVE  Apart
    OBVIOUS
  <2>2. Len(matches) = 0 /\ \A t \in Polls : poll[t].pc = "idle"
    BY <2>1 DEF Init, InitQueue, IdlePoll
  <2>3. QED
    BY <2>2 DEF CheckedIsFree, RowsApart, QueueRow, MadeBy
<1>2. EntryInv /\ OnePoll /\ Apart /\ [Next]_entryVars => Apart'
  BY ApartStep, RoomsAssumption
<1>3. EntryInv /\ Apart => QueueMatchesOnce
  <2>1. SUFFICES ASSUME EntryInv, RowsApart  PROVE  QueueMatchesOnce
    OBVIOUS
  <2>2. DOMAIN matches = 1 .. Len(matches) /\ \A i \in DOMAIN matches : i \in Nat
    BY <2>1 DEF EntryInv, QueueShape
  <2>3. \A i \in DOMAIN matches : matches[i].active /\ matches[i].by = "queue" => QueueRow(i)
    BY <2>2 DEF QueueRow, MadeBy
  <2>4. QED
    BY <2>1, <2>2, <2>3 DEF RowsApart, QueueMatchesOnce
<1>4. QED
  BY <1>1, <1>2, <1>3, EntryInvariant, PTL DEF Spec
=============================================================================
