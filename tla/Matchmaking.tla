---------------------------- MODULE Matchmaking ----------------------------
(***************************************************************************)
(* The public queue: matchmaking.service.ts, matchmaking.processor.ts,     *)
(* match_pair.lua, the rows of MatchRepository that say who is in a match  *)
(* and MatchRuntimeAdapter.initializeMatch.  Requests of players and polls *)
(* of the queue run at once, on any replica; what they share is the sorted *)
(* set matchmaking:queue and the table of matches.  One action is what a   *)
(* handler does up to its next await.                                      *)
(***************************************************************************)
EXTENDS Naturals, Sequences, SequencesExt, FiniteSets

CONSTANTS
    Users,
    Queuers,       \* the users whose clients use the public queue
    Polls,         \* match-pair jobs that can be in progress at once
    MaxMatches,    \* bound: after that many nobody asks for a match
    MaxMishaps     \* bound: handlers killed, calls of a match's creation
                   \* that fail, claims that lapse under a live holder

ASSUME EntryBounds ==
    /\ Queuers \subseteq Users
    /\ MaxMatches \in Nat /\ MaxMishaps \in Nat

VARIABLES
    queue,         \* matchmaking:queue, by score
    matches,       \* rows of matches, in the order of their creation
    joining,       \* users whose join has passed its active-match check
    poll,          \* the match-pair jobs: where they are, whom they took
    crashes, faults, slow,
    promised       \* history: who joined, did not leave, is unmatched and was
                   \* not given up by a poll

queueVars == <<queue, matches, joining, poll, crashes, faults, slow, promised>>

Queued(u) == u \in ToSet(queue)

(* "served" is set once the match has its runtime hash and first timer;    *)
(* "by" is the queue or the room the match was made for: a ghost.          *)
NewMatch(pair, by) ==
    [players |-> pair, active |-> TRUE, served |-> FALSE, by |-> by]

\* What is over is of no further interest to this model.
EndedMatch == [players |-> <<>>, active |-> FALSE, served |-> TRUE, by |-> "over"]

MatchesOf(u) ==
    {i \in DOMAIN matches : matches[i].active /\ u \in ToSet(matches[i].players)}

InMatch(u) == MatchesOf(u) # {}

IdlePoll == [pc |-> "idle", pair |-> <<>>, match |-> 0]

\* A slip: ZADD without NX, a member that is there is added again.
EnqueueAgain(q, u) == Append(q, u)

EnqueueNX(q, u) == IF u \in ToSet(q) THEN q ELSE Append(q, u)

\* A slip: after a failure only the older of the two gets the place back.
RequeueFirstOnly(pair, back) ==
    IF pair[1] \in back THEN EnqueueNX(queue, pair[1]) ELSE queue

\* Those of the pair that are in back, in their order.
Requeue(pair, back) ==
    LET q == IF pair[1] \in back THEN EnqueueNX(queue, pair[1]) ELSE queue
    IN  IF pair[2] \in back THEN EnqueueNX(q, pair[2]) ELSE q

MayFail == crashes + faults + slow < MaxMishaps

Asking == Len(matches) < MaxMatches

InitQueue ==
    /\ queue = <<>> /\ matches = <<>> /\ joining = {}
    /\ poll = [t \in Polls |-> IdlePoll]
    /\ crashes = 0 /\ faults = 0 /\ slow = 0 /\ promised = {}

-----------------------------------------------------------------------------
(* Joining and leaving.                                                    *)

JoinQueue(u) ==
    /\ Asking /\ u \in Queuers \ joining /\ ~InMatch(u)
    /\ joining' = joining \union {u}
    /\ UNCHANGED <<queue, matches, poll, crashes, faults, slow, promised>>

AddToQueue(u) ==
    /\ u \in joining
    /\ joining' = joining \ {u}
    /\ queue' = EnqueueNX(queue, u)
    /\ promised' = promised \union {u}
    /\ UNCHANGED <<matches, poll, crashes, faults, slow>>

\* By request, or because the user's last socket has closed.
LeaveQueue(u) ==
    /\ \E i \in DOMAIN queue : queue[i] = u /\ queue' = RemoveAt(queue, i)
    /\ promised' = promised \ {u}
    /\ UNCHANGED <<matches, joining, poll, crashes, faults, slow>>

-----------------------------------------------------------------------------
(* A poll.                                                                 *)

Pop(t) ==
    /\ poll[t].pc = "idle" /\ Asking /\ Len(queue) >= 2
    /\ poll' = [poll EXCEPT ![t] = [pc |-> "check", match |-> 0,
                                    pair |-> SubSeq(queue, 1, 2)]]
    /\ queue' = SubSeq(queue, 3, Len(queue))
    /\ UNCHANGED <<matches, joining, crashes, faults, slow, promised>>

\* A slip: the entry is taken for free without looking at the matches.
FreeUnchecked(pair) == ToSet(pair)

Free(pair) == {u \in ToSet(pair) : ~InMatch(u)}

CheckActive(t) ==
    LET pair == poll[t].pair  free == Free(pair) IN
    /\ poll[t].pc = "check"
    /\ IF free = ToSet(pair)
       THEN /\ poll' = [poll EXCEPT ![t].pc = "create"]
            /\ UNCHANGED <<queue, promised>>
       ELSE /\ queue' = Requeue(pair, free)
            /\ promised' = promised \ (ToSet(pair) \ free)
            /\ poll' = [poll EXCEPT ![t] = IdlePoll]
    /\ UNCHANGED <<matches, joining, crashes, faults, slow>>

CreateMatch(t) ==
    /\ poll[t].pc = "create"
    /\ matches' = Append(matches, NewMatch(poll[t].pair, "queue"))
    /\ poll' = [poll EXCEPT ![t] = [pc |-> "initialize", pair |-> <<>>,
                                    match |-> Len(matches) + 1]]
    /\ promised' = promised \ ToSet(poll[t].pair)
    /\ UNCHANGED <<queue, joining, crashes, faults, slow>>

CreateFails(t) ==
    /\ poll[t].pc = "create" /\ MayFail
    /\ faults' = faults + 1
    /\ queue' = Requeue(poll[t].pair, ToSet(poll[t].pair))
    /\ poll' = [poll EXCEPT ![t] = IdlePoll]
    /\ UNCHANGED <<matches, joining, crashes, slow, promised>>

\* The reads of the two players are outside tryPair's try, and a requeue that
\* fails is only logged: the pair is in nobody's hands.
GiveUp(t) ==
    /\ poll[t].pc \in {"check", "create"} /\ MayFail
    /\ faults' = faults + 1
    /\ promised' = promised \ ToSet(poll[t].pair)
    /\ poll' = [poll EXCEPT ![t] = IdlePoll]
    /\ UNCHANGED <<queue, matches, joining, crashes, slow>>

InitializeMatch(t) ==
    /\ poll[t].pc = "initialize"
    /\ matches' = [matches EXCEPT ![poll[t].match].served = TRUE]
    /\ poll' = [poll EXCEPT ![t] = IdlePoll]
    /\ UNCHANGED <<queue, joining, crashes, faults, slow, promised>>

InitializeFails(t) ==
    /\ poll[t].pc = "initialize" /\ MayFail
    /\ faults' = faults + 1
    /\ poll' = [poll EXCEPT ![t] = IdlePoll]
    /\ UNCHANGED <<queue, matches, joining, crashes, slow, promised>>

-----------------------------------------------------------------------------
(* MatchService.finalize: only a match with a runtime comes to an end.     *)
MatchEnds(i) ==
    /\ matches[i].active /\ matches[i].served
    /\ matches' = [matches EXCEPT ![i] = EndedMatch]
    /\ UNCHANGED <<queue, joining, poll, crashes, faults, slow, promised>>

QueueNext ==
    \/ \E u \in Users : JoinQueue(u) \/ AddToQueue(u) \/ LeaveQueue(u)
    \/ \E t \in Polls : \/ Pop(t) \/ CheckActive(t)
                        \/ CreateMatch(t) \/ CreateFails(t) \/ GiveUp(t)
                        \/ InitializeMatch(t) \/ InitializeFails(t)
    \/ \E i \in DOMAIN matches : MatchEnds(i)

-----------------------------------------------------------------------------
(* Nobody is lost between the queue and a match: whoever joined and did    *)
(* not leave stays queued, or in the hands of a poll, until a match with   *)
(* him exists, whatever other request runs, and also when the row cannot   *)
(* be created (the requeue of tryPair).  A crash of the poll loses the     *)
(* pair it holds, and so does GiveUp.                                      *)
NobodyLost ==
    crashes = 0 =>
        \A u \in promised : Queued(u) \/ \E t \in Polls : u \in ToSet(poll[t].pair)

(* What tryPair says of itself: a database that fails for a moment loses   *)
(* no player.  A popped player goes on only to a match.                    *)
PoppedPlayersAreKept ==
    [][\A u \in promised \ promised' : Queued(u) \/ InMatch(u)']_queueVars

(* The queue never puts a player into two live matches: joinQueue and      *)
(* tryPair both look for an active match first, so a second entry of a     *)
(* player who is being paired is discarded when it is popped.              *)
QueueMatchesOnce ==
    \A i, j \in DOMAIN matches :
        /\ i # j /\ matches[i].by = "queue" /\ matches[j].by = "queue"
        /\ matches[i].active /\ matches[j].active
        => ToSet(matches[i].players) \intersect ToSet(matches[j].players) = {}
=============================================================================
