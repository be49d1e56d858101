---------------------------- MODULE PrivateRooms ----------------------------
(***************************************************************************)
(* Private rooms and the way from a room to a match: room.service.ts and   *)
(* the scripts room_join, room_leave, room_start_match, room_match_done    *)
(* and room_match_abort.  A request is a sequence of steps, one for each   *)
(* await; requests of different players, or of two devices of one player,  *)
(* interleave, a call of a request may fail, and a request may die half    *)
(* way.                                                                    *)
(*                                                                         *)
(* A join code is claimed with NX for one room, so it is represented by    *)
(* its room: codeOf is the set of rooms whose code still resolves.         *)
(***************************************************************************)
EXTENDS Matchmaking

CONSTANTS
    Rooms,         \* room ids, each given out once
    Requests,      \* requests that can be in progress at once
    Nobody         \* no user, no room, no request (the code's '' and null)

ASSUME RoomsAssumption ==
    /\ Nobody \notin Users \union Rooms \union Requests \union {"pending"}
    /\ {"pending", "queue"} \intersect Rooms = {}

VARIABLES
    room,          \* the hashes room:<id>
    codeOf,        \* rooms with a key room:code:<code>
    roomOf,        \* user:room:<user>: a room, "pending" or Nobody
    claim,         \* room:<id>:handoff: the request that holds it
    req,           \* the requests in progress
    told,          \* history: the matches a room's players were sent to
    stray,         \* history: users whose mapping a call takes away that has
                   \* not looked at it, or a key that lapsed under a room
    torn           \* history: rooms left by the owner after their match

roomVars  == <<room, codeOf, roomOf, claim, req, told, stray, torn>>
entryVars == <<queueVars, roomVars>>

(* "exists" is HEXISTS roomId: room_match_done may recreate a hash that    *)
(* only holds a match.  "expires": the key has a TTL.                      *)
NoRoom == [exists |-> FALSE, expires |-> FALSE, owner |-> Nobody,
           guest |-> Nobody, status |-> "none", match |-> 0]

IdleRequest == [pc |-> "idle", user |-> Nobody, room |-> Nobody,
                owner |-> Nobody, guest |-> Nobody, match |-> 0]

InitRooms ==
    /\ room = [r \in Rooms |-> NoRoom] /\ codeOf = {}
    /\ roomOf = [u \in Users |-> Nobody]
    /\ claim = [r \in Rooms |-> Nobody]
    /\ req = [h \in Requests |-> IdleRequest]
    /\ told = [r \in Rooms |-> {}] /\ stray = {} /\ torn = {}

At(h, label) == req[h].pc = label

Go(h, label)  == req' = [req EXCEPT ![h].pc = label]
Answer(h)     == req' = [req EXCEPT ![h] = IdleRequest]

HandoffLabels == {"adoptOwner", "adoptGuest", "createRow", "serve", "done", "abort"}

Holds(h, r) == req[h].room = r /\ req[h].pc \in HandoffLabels

(* The calls of createRoom, in their order; the catch around them ends in  *)
(* createUndo.                                                             *)
CreateLabels == {"createActive", "createQueued", "createCode",
                 "createHash", "createExpire", "createMapping", "createUndo"}

Creating(h, u) == req[h].user = u /\ req[h].pc \in CreateLabels

InTheMaking(r) == \E h \in Requests : req[h].room = r /\ req[h].pc \in CreateLabels

\* Not the mapping that a request for room r looked at before it deletes it.
Overtaken(u, r) == roomOf[u] \notin {r, Nobody}

Lists(r, u) == /\ room[r].exists /\ room[r].match = 0
               /\ u \in {room[r].owner, room[r].guest}

\* In a room or making one: of other users there is nothing to excuse.
Placed(u) == \/ \E r \in Rooms : Lists(r, u)
             \/ \E h \in Requests : Creating(h, u)

\* The users in lost become stray, and who is not placed any more is not.
Strays(lost) == stray' = {u \in stray \union lost : Placed(u)'}

(* A request starts.  No guard keeps the requests of a user apart.         *)
Begin(h, u, label, r) ==
    /\ At(h, "idle")
    /\ req' = [req EXCEPT ![h] = [IdleRequest EXCEPT !.pc = label, !.user = u,
                                                     !.room = r]]

\* An id is random: the one of a new room is named nowhere.
Unused(r) == /\ room[r] = NoRoom /\ r \notin codeOf /\ claim[r] = Nobody
             /\ told[r] = {}
             /\ \A u \in Users : roomOf[u] # r
             /\ \A g \in Requests : req[g].room # r
             /\ \A i \in DOMAIN matches : matches[i].by # r

-----------------------------------------------------------------------------
(* The two checks that creating and joining share, one await each.         *)

CheckNoMatch(h) ==
    /\ req[h].pc \in {"createActive", "joinActive"}
    /\ IF ~InMatch(req[h].user)
       THEN Go(h, IF At(h, "createActive") THEN "createQueued" ELSE "joinQueued")
       ELSE IF At(h, "createActive") THEN Go(h, "createUndo") ELSE Answer(h)
    /\ UNCHANGED <<queueVars, room, codeOf, roomOf, claim, told, stray, torn>>

CheckNotQueued(h) ==
    /\ req[h].pc \in {"createQueued", "joinQueued"}
    /\ IF ~Queued(req[h].user)
       THEN Go(h, IF At(h, "createQueued") THEN "createCode" ELSE "joinClaim")
       ELSE IF At(h, "createQueued") THEN Go(h, "createUndo") ELSE Answer(h)
    /\ UNCHANGED <<queueVars, room, codeOf, roomOf, claim, told, stray, torn>>

-----------------------------------------------------------------------------
(* createRoom.                                                             *)

CreateRoom(h, u) ==
    /\ Asking /\ roomOf[u] = Nobody
    /\ Begin(h, u, "createActive", Nobody)
    /\ roomOf' = [roomOf EXCEPT ![u] = "pending"]
    /\ UNCHANGED <<queueVars, room, codeOf, claim, told, stray, torn>>

(* The DEL of the catch: the owner is stray when the hash is written.      *)
CreateUndo(h) ==
    LET u == req[h].user  r == req[h].room IN
    /\ At(h, "createUndo")
    /\ roomOf' = [roomOf EXCEPT ![u] = Nobody]
    /\ Answer(h)
    /\ UNCHANGED <<queueVars, room, codeOf, claim, told, torn>>
    /\ Strays({v \in {u} : r \in Rooms /\ room[r].exists})

ClaimCode(h, r) ==
    /\ At(h, "createCode") /\ Unused(r)
    /\ codeOf' = codeOf \union {r}
    /\ req' = [req EXCEPT ![h].pc = "createHash", ![h].room = r]
    /\ UNCHANGED <<queueVars, room, roomOf, claim, told, stray, torn>>

CreateHash(h) ==
    /\ At(h, "createHash")
    /\ room' = [room EXCEPT ![req[h].room] =
                  [exists |-> TRUE, expires |-> FALSE, owner |-> req[h].user,
                   guest |-> Nobody, status |-> "waiting", match |-> 0]]
    /\ Go(h, "createExpire")
    /\ UNCHANGED <<queueVars, codeOf, roomOf, claim, told, stray, torn>>

CreateExpire(h) ==
    LET r == req[h].room IN
    /\ At(h, "createExpire")
    /\ room' = [room EXCEPT ![r].expires = room[r].exists]
    /\ Go(h, "createMapping")
    /\ UNCHANGED <<queueVars, codeOf, roomOf, claim, told, stray, torn>>

CreateMapping(h) ==
    /\ At(h, "createMapping")
    /\ roomOf' = [roomOf EXCEPT ![req[h].user] = req[h].room]
    /\ Answer(h)
    /\ UNCHANGED <<queueVars, room, codeOf, claim, told, stray, torn>>

(* The SET takes effect, but its reply is lost: the catch is going to      *)
(* delete the mapping.                                                     *)
CreateReplyLost(h) ==
    LET u == req[h].user IN
    /\ At(h, "createMapping") /\ MayFail
    /\ faults' = faults + 1
    /\ roomOf' = [roomOf EXCEPT ![u] = req[h].room]
    /\ Go(h, "createUndo")
    /\ UNCHANGED <<queue, matches, joining, poll, crashes, slow, promised,
                   room, codeOf, claim, told, torn>>
    /\ Strays({u})

-----------------------------------------------------------------------------
(* joinRoom.  A request of the room's own guest is answered and changes    *)
(* nothing.                                                                *)

JoinRoom(h, u, r) ==
    /\ Asking /\ r \in codeOf
    /\ Begin(h, u, "joinMapping", r)
    /\ UNCHANGED <<queueVars, room, codeOf, roomOf, claim, told, stray, torn>>

JoinMapping(h) ==
    /\ At(h, "joinMapping")
    /\ IF roomOf[req[h].user] = Nobody THEN Go(h, "joinActive") ELSE Answer(h)
    /\ UNCHANGED <<queueVars, room, codeOf, roomOf, claim, told, stray, torn>>

Admits(r, u) ==
    /\ room[r].exists /\ room[r].owner # u /\ roomOf[u] = Nobody
    /\ room[r].guest = Nobody /\ room[r].status = "waiting"

JoinClaim(h) ==
    LET r == req[h].room  u == req[h].user IN
    /\ At(h, "joinClaim")
    /\ IF Admits(r, u)
       THEN /\ room' = [room EXCEPT ![r].guest = u, ![r].status = "full"]
            /\ roomOf' = [roomOf EXCEPT ![u] = r]
       ELSE UNCHANGED <<room, roomOf>>
    /\ Answer(h)
    /\ UNCHANGED <<queueVars, codeOf, claim, told, stray, torn>>

-----------------------------------------------------------------------------
(* getMyRoom and leaveRoom.  Both delete the caller's mapping when the     *)
(* room it named is gone, without looking at it again.                     *)

GetMyRoom(h, u) ==
    /\ roomOf[u] \in Rooms
    /\ Begin(h, u, "getLoad", roomOf[u])
    /\ UNCHANGED <<queueVars, room, codeOf, roomOf, claim, told, stray, torn>>

GetLoad(h) ==
    /\ At(h, "getLoad")
    /\ IF room[req[h].room].exists THEN Answer(h) ELSE Go(h, "dropMapping")
    /\ UNCHANGED <<queueVars, room, codeOf, roomOf, claim, told, stray, torn>>

LeaveRoom(h, u) ==
    /\ roomOf[u] \in Rooms
    /\ Begin(h, u, "leave", roomOf[u])
    /\ UNCHANGED <<queueVars, room, codeOf, roomOf, claim, told, stray, torn>>

\* A slip: the guest's leave opens the room and forgets the slot.
WithoutGuestStatusOnly(me) == [me EXCEPT !.status = "waiting"]

WithoutGuest(me) == [me EXCEPT !.guest = Nobody, !.status = "waiting"]

LeaveScript(h) ==
    LET r == req[h].room  u == req[h].user  me == room[r] IN
    /\ At(h, "leave")
    /\ CASE me.exists /\ me.owner = u ->
              /\ room' = [room EXCEPT ![r] = NoRoom]
              /\ codeOf' = codeOf \ {r}
              /\ roomOf' = [v \in Users |-> IF v \in {u, me.guest}
                                            THEN Nobody ELSE roomOf[v]]
              /\ torn' = IF me.match # 0 THEN torn \union {r} ELSE torn
              /\ Answer(h)
              /\ Strays({v \in Users : v \in {u, me.guest} /\ Overtaken(v, r)})
         [] me.exists /\ me.owner # u /\ me.guest = u ->
              /\ room' = [room EXCEPT ![r] = WithoutGuest(me)]
              /\ roomOf' = [roomOf EXCEPT ![u] = Nobody]
              /\ Answer(h) /\ UNCHANGED <<codeOf, torn>>
              /\ Strays({v \in {u} : Overtaken(v, r)})
         [] OTHER -> /\ Go(h, "dropMapping")
                     /\ UNCHANGED <<room, codeOf, roomOf, stray, torn>>
    /\ UNCHANGED <<queueVars, claim, told>>

(* The mapping may be another one by now, or the user a member again.      *)
DropMapping(h) ==
    LET u == req[h].user  r == req[h].room IN
    /\ At(h, "dropMapping")
    /\ roomOf' = [roomOf EXCEPT ![u] = Nobody]
    /\ Answer(h)
    /\ UNCHANGED <<queueVars, room, codeOf, claim, told, torn>>
    /\ Strays({v \in {u} : Overtaken(v, r) \/ Lists(r, v)})

-----------------------------------------------------------------------------
(* startRoomForOwner and the handoff.                                      *)

StartRoom(h, u) ==
    /\ Asking /\ roomOf[u] \in Rooms
    /\ Begin(h, u, "startLoad", roomOf[u])
    /\ UNCHANGED <<queueVars, room, codeOf, roomOf, claim, told, stray, torn>>

StartLoad(h) ==
    LET view == room[req[h].room] IN
    /\ At(h, "startLoad")
    /\ IF view.exists /\ view.owner = req[h].user /\ view.status = "full"
       THEN Go(h, "handoffLoad") ELSE Answer(h)
    /\ UNCHANGED <<queueVars, room, codeOf, roomOf, claim, told, stray, torn>>

HandoffLoad(h) ==
    LET view == room[req[h].room] IN
    /\ At(h, "handoffLoad")
    /\ req' = [req EXCEPT ![h] = [@ EXCEPT !.pc = "handoffClaim",
                 !.owner = view.owner, !.guest = view.guest, !.match = view.match]]
    /\ UNCHANGED <<queueVars, room, codeOf, roomOf, claim, told, stray, torn>>

HandoffClaim(h) ==
    LET r == req[h].room IN
    /\ At(h, "handoffClaim")
    /\ IF room[r].exists /\ room[r].status = "full" /\ claim[r] = Nobody
       THEN /\ claim' = [claim EXCEPT ![r] = h]
            /\ req' = [req EXCEPT ![h] = [@ EXCEPT !.pc = "adoptOwner",
                         !.owner = room[r].owner, !.guest = room[r].guest]]
       ELSE /\ IF room[r].exists /\ req[h].match # 0
               THEN Go(h, "done") ELSE Answer(h)
            /\ UNCHANGED claim
    /\ UNCHANGED <<queueVars, room, codeOf, roomOf, told, stray, torn>>

\* A slip: a retry does not look for the match of the attempt before it.
AdoptNothing(h, u, otherwise) == Go(h, otherwise)

(* createRoomMatch: a match one of the two is already in is adopted.       *)
Adopt(h, u, otherwise) ==
    IF InMatch(u)
    THEN \E i \in MatchesOf(u) :
            req' = [req EXCEPT ![h] = [@ EXCEPT !.pc = "done", !.match = i]]
    ELSE Go(h, otherwise)

AdoptOwner(h) ==
    /\ At(h, "adoptOwner")
    /\ Adopt(h, req[h].owner, "adoptGuest")
    /\ UNCHANGED <<queueVars, room, codeOf, roomOf, claim, told, stray, torn>>

AdoptGuest(h) ==
    /\ At(h, "adoptGuest")
    /\ Adopt(h, req[h].guest, "createRow")
    /\ UNCHANGED <<queueVars, room, codeOf, roomOf, claim, told, stray, torn>>

CreateRow(h) ==
    LET c == req[h] IN
    /\ At(h, "createRow")
    /\ matches' = Append(matches, NewMatch(<<c.owner, c.guest>>, c.room))
    /\ req' = [req EXCEPT ![h].pc = "serve", ![h].match = Len(matches) + 1]
    /\ UNCHANGED <<queue, joining, poll, crashes, faults, slow, promised,
                   room, codeOf, roomOf, claim, told, stray, torn>>

Serve(h) ==
    /\ At(h, "serve")
    /\ matches' = [matches EXCEPT ![req[h].match].served = TRUE]
    /\ Go(h, "done")
    /\ UNCHANGED <<queue, joining, poll, crashes, faults, slow, promised,
                   room, codeOf, roomOf, claim, told, stray, torn>>

Released(r, h) == [claim EXCEPT ![r] = IF @ = h THEN Nobody ELSE @]

Abort(h) ==
    /\ At(h, "abort")
    /\ claim' = Released(req[h].room, h)
    /\ Answer(h)
    /\ UNCHANGED <<queueVars, room, codeOf, roomOf, told, stray, torn>>

\* A slip: the script forgets that a match is recorded already.
RecordedNever(r) == FALSE

Recorded(r) == room[r].match # 0

MatchDone(h) ==
    LET r == req[h].room  c == req[h] IN
    /\ At(h, "done")
    /\ IF Recorded(r)
       THEN /\ told' = [told EXCEPT ![r] = @ \union {room[r].match}]
            /\ Answer(h)
            /\ UNCHANGED <<room, codeOf, roomOf, claim, stray>>
       ELSE /\ room' = [room EXCEPT ![r].match = c.match, ![r].status = "matched",
                                    ![r].expires = TRUE]
            /\ codeOf' = codeOf \ {r}
            /\ claim' = [claim EXCEPT ![r] = Nobody]
            /\ roomOf' = [u \in Users |-> IF u \in {c.owner, c.guest} /\ roomOf[u] = r
                                          THEN Nobody ELSE roomOf[u]]
            /\ told' = [told EXCEPT ![r] = @ \union {c.match}]
            /\ Answer(h) /\ Strays({})
    /\ UNCHANGED <<queueVars, torn>>

-----------------------------------------------------------------------------
(* A call of a request fails, without effect: a lost reply is the failure  *)
(* of the next call, or the death of the request, or CreateReplyLost (that *)
(* of initializeMatch is not lost after it took effect).  The catch of     *)
(* createRoom deletes the mapping, that of createRoomMatch is around the   *)
(* creation only (a failing read before it keeps the claim); a failing DEL *)
(* of a mapping is swallowed.                                              *)
CallFails(h) ==
    /\ ~At(h, "idle") /\ MayFail
    /\ faults' = faults + 1
    /\ CASE req[h].pc \in CreateLabels \ {"createUndo"} -> Go(h, "createUndo")
         [] req[h].pc \in {"createRow", "serve"}         -> Go(h, "abort")
         [] OTHER                                        -> Answer(h)
    /\ UNCHANGED <<queue, matches, joining, poll, crashes, slow, promised,
                   room, codeOf, roomOf, claim, told, stray, torn>>

(* Keys lapse.  A room's code, hash and mappings get the same TTL of 45    *)
(* minutes one after the other, so they go in this order (the milliseconds *)
(* in between are neglected); the placeholder "pending" is older than the  *)
(* hash, and a hash whose EXPIRE was never made stays.  The requests of a  *)
(* creation do not take that long, nor does any request take the 300 s of  *)
(* a matched room.  The claim's 120 s may pass while its holder still      *)
(* waits for PostgreSQL.                                                   *)

RoomLapse(r) ==
    /\ room[r].expires /\ ~InTheMaking(r)
    /\ room[r].match # 0 => \A h \in Requests : req[h].room # r
    /\ room' = [room EXCEPT ![r] = NoRoom]
    /\ codeOf' = codeOf \ {r}
    /\ UNCHANGED <<queueVars, roomOf, claim, req, told, torn>>
    /\ Strays({})

CodeLapse(r) ==
    /\ r \in codeOf /\ ~room[r].expires /\ ~InTheMaking(r)
    /\ codeOf' = codeOf \ {r}
    /\ UNCHANGED <<queueVars, room, roomOf, claim, req, told, stray, torn>>

\* The user is stray when a room that is open still lists him.
MappingLapse(u) ==
    /\ roomOf[u] # Nobody
    /\ roomOf[u] = "pending" => \A h \in Requests : ~Creating(h, u)
    /\ \A r \in Rooms : roomOf[u] = r =>
           /\ ~InTheMaking(r)
           /\ ~(room[r].exists /\ room[r].expires /\ room[r].match = 0)
    /\ roomOf' = [roomOf EXCEPT ![u] = Nobody]
    /\ UNCHANGED <<queueVars, room, codeOf, claim, req, told, torn>>
    /\ Strays({u})

ClaimLapse(r) ==
    /\ claim[r] # Nobody
    /\ claim' = [claim EXCEPT ![r] = Nobody]
    /\ IF Holds(claim[r], r)
       THEN MayFail /\ slow' = slow + 1
       ELSE UNCHANGED slow
    /\ UNCHANGED <<queue, matches, joining, poll, crashes, faults, promised,
                   room, codeOf, roomOf, req, told, stray, torn>>

RoomsNext ==
    \/ \E h \in Requests :
         \/ \E u \in Users :
              \/ CreateRoom(h, u) \/ GetMyRoom(h, u)
              \/ LeaveRoom(h, u) \/ StartRoom(h, u)
              \/ \E r \in Rooms : JoinRoom(h, u, r)
         \/ CheckNoMatch(h) \/ CheckNotQueued(h)
         \/ CreateUndo(h) \/ CreateHash(h) \/ CreateExpire(h)
         \/ CreateMapping(h) \/ CreateReplyLost(h)
         \/ \E r \in Rooms : ClaimCode(h, r)
         \/ JoinMapping(h) \/ JoinClaim(h)
         \/ GetLoad(h) \/ LeaveScript(h) \/ DropMapping(h)
         \/ StartLoad(h) \/ HandoffLoad(h) \/ HandoffClaim(h)
         \/ AdoptOwner(h) \/ AdoptGuest(h)
         \/ CreateRow(h) \/ Serve(h)
         \/ Abort(h) \/ MatchDone(h) \/ CallFails(h)
    \/ \E r \in Rooms : RoomLapse(r) \/ CodeLapse(r) \/ ClaimLapse(r)
    \/ \E u \in Users : MappingLapse(u)
=============================================================================
