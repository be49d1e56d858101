----------------------------- MODULE MatchEntry -----------------------------
(***************************************************************************)
(* The two ways into a match, the public queue and the private rooms,      *)
(* together: they share the players, the table of matches and nothing      *)
(* else, and neither holds a lock while it looks at the other.             *)
(***************************************************************************)
EXTENDS PrivateRooms

Init == InitQueue /\ InitRooms

(* A replica dies: a poll or a request of it goes no further.  (A request  *)
(* that dies is counted with those that fail, a poll by itself.)           *)
Crash ==
    /\ MayFail
    /\ \/ \E t \in Polls : /\ poll[t] # IdlePoll
                           /\ poll' = [poll EXCEPT ![t] = IdlePoll]
                           /\ crashes' = crashes + 1
                           /\ UNCHANGED <<req, faults>>
       \/ \E h \in Requests : /\ ~At(h, "idle") /\ Answer(h)
                              /\ faults' = faults + 1
                              /\ UNCHANGED <<poll, crashes>>
    /\ UNCHANGED <<queue, matches, joining, slow, promised,
                   room, codeOf, roomOf, claim, told, stray, torn>>

Next ==
    \/ QueueNext /\ UNCHANGED roomVars
    \/ RoomsNext
    \/ Crash

Spec == Init /\ [][Next]_entryVars

-----------------------------------------------------------------------------
(* Every variable keeps its type; a room that does not wait for a guest    *)
(* has one, and a request past its claim knows the two players.            *)
EntryTypeOK ==
    /\ ToSet(queue) \subseteq Users /\ IsInjective(queue)
    /\ \A i \in DOMAIN matches : matches[i] # EndedMatch =>
         /\ matches[i].players \in Users \X Users /\ IsInjective(matches[i].players)
         /\ matches[i].by \in {"queue"} \union Rooms
    /\ joining \union promised \union stray \subseteq Users
    /\ codeOf \union torn \subseteq Rooms
    /\ roomOf \in [Users -> Rooms \union {"pending", Nobody}]
    /\ claim \in [Rooms -> Requests \union {Nobody}]
    /\ \A r \in Rooms :
         /\ room[r].status = "full" => room[r].guest \in Users \ {room[r].owner}
         /\ room[r].status = "matched" => room[r].match \in DOMAIN matches
    /\ \A h \in Requests :
         req[h].pc \in HandoffLabels \ {"done"}
         => {req[h].owner, req[h].guest} \subseteq Users

(* Single membership: the players a waiting or full room lists have their  *)
(* mapping on that room, so each can find, start and leave it, and no      *)
(* player is in two rooms, whatever requests of him run at once.  A room's *)
(* owner gets the mapping last.  Stray users are the only exceptions: a    *)
(* creation failed after its hash was written, a key lapsed under a hash   *)
(* that is younger or has no TTL, or a DEL (leaveRoom's, getMyRoom's, the  *)
(* script's) took away a mapping made after the one it had looked at.      *)
MembershipAgrees ==
    \A r \in Rooms, u \in Users \ stray : Lists(r, u) =>
        /\ \/ roomOf[u] = r
           \/ roomOf[u] = "pending" /\ u = room[r].owner
        /\ \A s \in Rooms : Lists(s, u) => s = r

(* One handoff, one match: of the matches made for a room at most one is   *)
(* live, although the owner may press start again, the worker may die or   *)
(* fail between the row and the record, and two replicas may take up the   *)
(* start.  (As long as no claim lapses under a worker that is only slow.)  *)
HandoffOnce ==
    slow = 0 =>
        \A i, j \in DOMAIN matches :
            matches[i].by \in Rooms /\ matches[i].by = matches[j].by
            /\ matches[i].active /\ matches[j].active => i = j

(* Both players and every retry are sent to the same match, even when the  *)
(* claim lapsed under its holder and two workers finished the handoff, or  *)
(* the room closed or lapsed under them.  (Only the owner's leave from     *)
(* before the match, when its script runs after it, takes the record away.)*)
OneMatchTold == \A r \in Rooms \ torn : Cardinality(told[r]) <= 1

(* What the service says of the claim on user:room:<uid> (NX): creations   *)
(* collapse to one winner, so a player is in one room.                     *)
OneRoomEach ==
    \A r, s \in Rooms, u \in Users : Lists(r, u) /\ Lists(s, u) => r = s

(* What createRoomMatch says of the match it adopts: it can only be the    *)
(* room's own, left by an attempt that crashed.  So the match a handoff is *)
(* about to record is one of exactly the two players it was started for.   *)
AdoptsOwnMatch ==
    \A h \in Requests :
        LET c == req[h] IN
        /\ At(h, "done") /\ claim[c.room] = h /\ matches[c.match].active
        => ToSet(matches[c.match].players) = {c.owner, c.guest}

(* What createRoomMatch says of a failed handoff: nothing is half          *)
(* committed, so the match a room records has its runtime.                 *)
NothingHalfCommitted ==
    \A r \in Rooms :
        room[r].status = "matched" => matches[room[r].match].served
=============================================================================
