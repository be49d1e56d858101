------------------------------ MODULE WsFanout ------------------------------
(***************************************************************************)
(* The websocket gateway of every replica, the publish/subscribe bridge    *)
(* between the replicas, and what the two players of ONE match are shown.  *)
(*                                                                         *)
(* Every replica keeps its sockets in memory: WsGateway.connectedSockets   *)
(* and PubsubBridge.localUserSockets (written together: registered), the   *)
(* sockets that receive the match's events (localSubscribers: subs), and   *)
(* the subscriptions a disconnect undoes (socketMatches: recorded).  Redis *)
(* carries a publication to every replica in one order.  A player has one  *)
(* device, which opens a new socket when it has lost the former one; the   *)
(* server learns of the loss later.                                        *)
(***************************************************************************)
EXTENDS Integers, Sequences, FiniteSets

CONSTANTS
    Users,      \* the two players of the match
    Replicas,   \* the Nest processes behind the load balancer
    Sockets,    \* the connections a run can see, each used once
    Actors,     \* the players who change their roster, once each
    MaxPhase,   \* bound: phases of the match; odd is planning, even is battle
    MaxLag,     \* bound: publications a replica may be behind
    MaxMishaps, \* bound: lost publications and failed resumes
    Nobody

ASSUME FanoutBounds ==
    /\ Actors \subseteq Users /\ Nobody \notin Users
    /\ MaxPhase \in Nat \ {0} /\ MaxLag \in Nat \ {0} /\ MaxMishaps \in Nat

VARIABLES
    socket,     \* per connection: owner, replica, stage, superseded
    since,      \* ghost: the phase that was current when it connected
    registered, \* per replica: its connected sockets
    subs,       \* per replica: the sockets its bridge sends the match's events to
    recorded,   \* the sockets whose subscription a disconnect will undo
    resume,     \* per socket: how far resumeActiveMatch has got
    match,      \* the row's stage, and of the runtime hash: phase, combat, rosters
    acting,     \* per player: a roster action between its read and its publication
    outbox,     \* the publication a phase writer has yet to make
    bus,        \* per replica: the publications not yet handled
    view,       \* per player: what the device was last shown
    blind,      \* ghost: the sockets a mishap hid something from
    leaving,    \* disconnections whose forfeit is being decided
    forfeited,
    mishaps

vars == <<socket, since, registered, subs, recorded, resume, match, acting,
          outbox, bus, view, blind, leaving, forfeited, mishaps>>

conn   == <<socket, since, registered, recorded>>
player == <<match, acting, outbox, forfeited>>

Rosters == [Users -> Nat]

\* game:match:phase, with the two private states published right behind it.
PhaseEvent(n)   == [type |-> "phase", n |-> n, own |-> match.roster]
CombatEvents(n) == [type |-> "combat", n |-> n, own |-> [u \in Users |-> 0]]
StateEvent(own) == [type |-> "state", n |-> 0, own |-> own]

\* No replica is further behind than MaxLag publications.
Room == \A r \in Replicas : Len(bus[r]) < MaxLag

Published(m) == [r \in Replicas |-> Append(bus[r], m)]

Active  == match.stage \in {"row", "live"}
SocketsOf(u) == {s \in Sockets : socket[s].user = u}
Open(s) == socket[s].stage = "open"

\* What m makes of the device of u: of a private state it is sent its own part.
Shown(v, u, m) ==
    CASE m.type = "phase"  -> [v EXCEPT !.phase = m.n, !.own = m.own[u]]
      [] m.type = "combat" -> [v EXCEPT !.combat = m.n]
      [] m.type = "state"  -> [v EXCEPT !.own = m.own[u]]

\* The clients of the sockets in S are shown m.
Seen(S, m) ==
    [u \in Users |-> IF \E s \in S \intersect SocketsOf(u) : Open(s)
                    THEN Shown(view[u], u, m) ELSE view[u]]

\* registerUserSocket of the sockets in new, unregisterUserSocket of old.
Registered(r, old, new) == [registered EXCEPT ![r] = (@ \ old) \union new]

\* PubsubBridge.subscribe: idempotent.
Subscribed(r, S) == [subs EXCEPT ![r] = @ \union S]

\* PubsubBridge.unsubscribe, of the subscriptions the gateway has recorded.
Unsubscribed(r, S) == [subs EXCEPT ![r] = @ \ (S \intersect recorded)]

\* The match has a runtime hash that can be read.
Served == match.phase > 0

Idle    == [at |-> "none", own |-> 0]
NoAct   == [at |-> "rest", own |-> [u \in Users |-> 0]]

Init ==
    /\ socket = [s \in Sockets |-> [user |-> Nobody, replica |-> Nobody,
                                    stage |-> "unused", superseded |-> FALSE]]
    /\ since = [s \in Sockets |-> 0]
    /\ registered = [r \in Replicas |-> {}]
    /\ subs = [r \in Replicas |-> {}]
    /\ recorded = {}
    /\ resume = [s \in Sockets |-> Idle]
    /\ match = [stage |-> "none", phase |-> 0, combat |-> 0,
                roster |-> [u \in Users |-> 0]]
    /\ acting = [u \in Users |-> NoAct]
    /\ outbox = <<>>
    /\ bus = [r \in Replicas |-> <<>>]
    /\ view = [u \in Users |-> [phase |-> 0, combat |-> 0, own |-> 0]]
    /\ blind = {} /\ leaving = {} /\ forfeited = Nobody /\ mishaps = 0

----------------------------------------------------------------------------
(* Connections *)

\* A slip: no socket is ever found to replace.
PreviousNone(u, r) == {}

\* dedupePreviousSockets: the sockets of u this replica still knows.
Previous(u, r) == registered[r] \intersect SocketsOf(u)

\* The marks and disconnections of dedupePreviousSockets, then the new socket.
Superseding(u, r, s) ==
    [[x \in Sockets |-> IF x \in Previous(u, r)
                      THEN [socket[x] EXCEPT !.stage = "closed", !.superseded = TRUE]
                      ELSE socket[x]]
        EXCEPT ![s] = [user |-> u, replica |-> r, stage |-> "open",
                       superseded |-> FALSE]]

\* A slip: the mark of a superseded socket is not looked at.
LeftAll(old, new) == old

\* handleDisconnect forfeits unless the socket was superseded.
Left(old, new) == {x \in old : ~new[x].superseded}

\* What is left of a resume emits to its own socket: past the subscription it
\* has no effect any more once that socket is closed.
Silenced(S) == [x \in Sockets |-> IF x \in S /\ resume[x].at # "find" THEN Idle
                                  ELSE resume[x]]

\* handleConnection with a valid token: each superseded socket runs its own
\* handleDisconnect before the new one is registered and starts to resume.
Connect(u, r, s) ==
    LET old == Previous(u, r)
        new == Superseding(u, r, s)
    IN  /\ socket[s].stage = "unused"
        /\ \A x \in SocketsOf(u) : ~Open(x)
        /\ match.stage # "over"
        /\ socket' = new
        /\ since' = [since EXCEPT ![s] = match.phase]
        /\ registered' = Registered(r, old, {s})
        /\ subs' = Unsubscribed(r, old)
        /\ recorded' = recorded \ old
        /\ leaving' = leaving \union Left(old, new)
        /\ resume' = [Silenced(old) EXCEPT ![s].at = "find"]
        /\ UNCHANGED <<player, bus, view, blind, mishaps>>

\* authenticateOrDisconnect refuses a missing, expired or refresh token: the
\* socket never gets a user, and its handleDisconnect returns at once.
Refuse(s) ==
    /\ socket[s].stage = "unused"
    /\ socket' = [socket EXCEPT ![s].stage = "closed"]
    /\ UNCHANGED <<since, registered, subs, recorded, resume, player, bus,
                   view, blind, leaving, mishaps>>

\* The device loses the connection; no replica knows.
Cut(s) ==
    /\ Open(s)
    /\ socket' = [socket EXCEPT ![s].stage = "cut"]
    /\ UNCHANGED <<since, registered, subs, recorded, resume, player, bus,
                   view, blind, leaving, mishaps>>

\* handleDisconnect, when the transport has noticed.
Disconnect(s) ==
    LET r == socket[s].replica
        new == [socket EXCEPT ![s].stage = "closed"]
    IN  /\ socket[s].stage = "cut"
        /\ socket' = new
        /\ registered' = Registered(r, {s}, {})
        /\ subs' = Unsubscribed(r, {s})
        /\ recorded' = recorded \ {s}
        /\ leaving' = leaving \union Left({s}, new)
        /\ resume' = Silenced({s})
        /\ UNCHANGED <<since, player, bus, view, blind, mishaps>>

\* handleClientDisconnect, after leaveQueue: the player of an active match
\* that is still live forfeits it.
Forfeit(s) ==
    /\ s \in leaving
    /\ leaving' = leaving \ {s}
    /\ IF Active
       THEN /\ match' = [match EXCEPT !.stage = "over"]
            /\ forfeited' = socket[s].user
       ELSE UNCHANGED <<match, forfeited>>
    /\ UNCHANGED <<conn, subs, resume, acting, outbox, bus, view, blind, mishaps>>

----------------------------------------------------------------------------
(* resumeActiveMatch *)

\* A slip: client.connected is not asked after the read.
StillConnectedAssumed(s) == TRUE

\* Whether the socket is still connected when the row has been read.
StillConnected(s) == s \in registered[socket[s].replica]

\* findActiveByUserId, then subscribeToMatch in the same turn of the loop.
ResumeFind(s) ==
    /\ resume[s].at = "find"
    /\ IF Active /\ StillConnected(s)
       THEN /\ subs' = Subscribed(socket[s].replica, {s})
            /\ recorded' = recorded \union {s}
            /\ resume' = [resume EXCEPT ![s].at = "read"]
       ELSE /\ resume' = [resume EXCEPT ![s] = Idle]
            /\ UNCHANGED <<subs, recorded>>
    /\ UNCHANGED <<socket, since, registered, player, bus, view, blind, leaving,
                   mishaps>>

\* statePayloadForUser reads the runtime hash, which must exist ...
ResumeRead(s) ==
    /\ resume[s].at = "read"
    /\ resume' = [resume EXCEPT ![s] =
          IF Served
          THEN [at |-> "emit", own |-> match.roster[socket[s].user]]
          ELSE Idle]
    /\ UNCHANGED <<conn, subs, player, bus, view, blind, leaving, mishaps>>

\* ... and the snapshot is emitted when the read has come back.
ResumeEmit(s) ==
    /\ resume[s].at = "emit"
    /\ view' = Seen({s}, StateEvent([u \in Users |-> resume[s].own]))
    /\ resume' = [resume EXCEPT ![s].at = "combat"]
    /\ UNCHANGED <<conn, subs, player, bus, blind, leaving, mishaps>>

\* A slip: the result of the battle is offered one phase late.
CachedCombatLate == match.phase % 2 = 1 /\ match.combat = match.phase - 1

\* The cached result counts only in the battle it belongs to.
CachedCombat == match.phase % 2 = 0 /\ match.combat = match.phase

\* getCombatResultForReconnect, and the events again.
ResumeCombat(s) ==
    /\ resume[s].at = "combat"
    /\ resume' = [resume EXCEPT ![s] = Idle]
    /\ view' = IF CachedCombat THEN Seen({s}, CombatEvents(match.combat)) ELSE view
    /\ UNCHANGED <<conn, subs, player, bus, blind, leaving, mishaps>>

\* An error in any of the reads is logged and the resume given up.
ResumeFails(s) ==
    /\ resume[s].at \in {"find", "read", "combat"}
    /\ mishaps < MaxMishaps
    /\ mishaps' = mishaps + 1
    /\ resume' = [resume EXCEPT ![s] = Idle]
    /\ blind' = blind \union {s}
    /\ UNCHANGED <<conn, subs, player, bus, view, leaving>>

----------------------------------------------------------------------------
(* The match: rows, phases and battles, each written before it is published *)

CreateRow ==
    /\ match.stage = "none"
    /\ match' = [match EXCEPT !.stage = "row"]
    /\ UNCHANGED <<conn, subs, resume, acting, outbox, forfeited, bus, view, blind,
                   leaving, mishaps>>

\* initializeMatch, and every later change of phase.  The writer of the next
\* phase comes after the publication of the one before.
ChangePhase ==
    /\ Active /\ outbox = <<>> /\ match.phase < MaxPhase
    /\ match' = [match EXCEPT !.stage = "live", !.phase = @ + 1]
    /\ outbox' = <<PhaseEvent(match.phase + 1)>>
    /\ UNCHANGED <<conn, subs, resume, acting, forfeited, bus, view, blind,
                   leaving, mishaps>>

\* runOnce: the result and the round it belongs to, then the events.
RunBattle ==
    /\ match.stage = "live" /\ outbox = <<>>
    /\ match.phase > 0 /\ match.phase % 2 = 0 /\ match.combat < match.phase
    /\ match' = [match EXCEPT !.combat = match.phase]
    /\ outbox' = <<CombatEvents(match.phase)>>
    /\ UNCHANGED <<conn, subs, resume, acting, forfeited, bus, view, blind,
                   leaving, mishaps>>

Publish ==
    /\ outbox # <<>> /\ Room
    /\ bus' = Published(Head(outbox))
    /\ outbox' = Tail(outbox)
    /\ UNCHANGED <<conn, subs, resume, match, acting, forfeited, view, blind,
                   leaving, mishaps>>

\* finalize: the end of the match by its score.
Finish ==
    /\ match.stage = "live" /\ match.phase = MaxPhase /\ outbox = <<>>
    /\ match' = [match EXCEPT !.stage = "over"]
    /\ UNCHANGED <<conn, subs, resume, acting, outbox, forfeited, bus, view, blind,
                   leaving, mishaps>>

----------------------------------------------------------------------------
(* A roster action of a device that was shown the phase: read, commit, publish.
   The lock is the player's own. *)

ActRead(u) ==
    /\ u \in Actors /\ acting[u].at = "rest" /\ match.roster[u] = 0
    /\ match.stage = "live" /\ match.phase % 2 = 1 /\ view[u].phase = match.phase
    /\ acting' = [acting EXCEPT ![u] = [at |-> "commit", own |-> match.roster]]
    /\ UNCHANGED <<conn, subs, resume, match, outbox, forfeited, bus, view, blind,
                   leaving, mishaps>>

\* The commit is refused outside planning; a match that ended has left it.
ActCommit(u) ==
    /\ acting[u].at = "commit"
    /\ IF match.stage = "live" /\ match.phase % 2 = 1
       THEN /\ match' = [match EXCEPT !.roster[u] = @ + 1]
            /\ acting' = [acting EXCEPT ![u] =
                  [at |-> "publish", own |-> [acting[u].own EXCEPT ![u] = @ + 1]]]
       ELSE /\ acting' = [acting EXCEPT ![u] = NoAct]
            /\ UNCHANGED match
    /\ UNCHANGED <<conn, subs, resume, outbox, forfeited, bus, view, blind,
                   leaving, mishaps>>

\* publishState: the player's new half, and the other half AS IT WAS READ.
ActPublish(u) ==
    /\ acting[u].at = "publish" /\ Room
    /\ bus' = Published(StateEvent(acting[u].own))
    /\ acting' = [acting EXCEPT ![u] = NoAct]
    /\ UNCHANGED <<conn, subs, resume, match, outbox, forfeited, view, blind,
                   leaving, mishaps>>

----------------------------------------------------------------------------
(* handleMessage of a replica *)

\* A slip: a phase event goes to the sockets already subscribed only.
AttachedNone(r, m) == {}

\* A phase event attaches the connected sockets of the players it names.
Attached(r, m) == IF m.type = "phase" THEN registered[r] ELSE {}

Deliver(r) ==
    /\ bus[r] # <<>>
    /\ LET m == Head(bus[r])
           new == Subscribed(r, Attached(r, m))
       IN  /\ subs' = new
           /\ view' = Seen(new[r], m)
    /\ bus' = [bus EXCEPT ![r] = Tail(@)]
    /\ UNCHANGED <<conn, resume, player, blind, leaving, mishaps>>

\* The subscriber connection of a replica drops while a message passes.
Lose(r) ==
    /\ bus[r] # <<>> /\ mishaps < MaxMishaps
    /\ mishaps' = mishaps + 1
    /\ bus' = [bus EXCEPT ![r] = Tail(@)]
    /\ blind' = blind \union registered[r]
    /\ UNCHANGED <<conn, subs, resume, player, view, leaving>>

----------------------------------------------------------------------------
Next ==
    \/ \E u \in Users, r \in Replicas, s \in Sockets : Connect(u, r, s)
    \/ \E s \in Sockets :
          Refuse(s) \/ Cut(s) \/ Disconnect(s) \/ Forfeit(s) \/ ResumeFind(s) \/ ResumeRead(s)
          \/ ResumeEmit(s) \/ ResumeCombat(s) \/ ResumeFails(s)
    \/ CreateRow \/ ChangePhase \/ RunBattle \/ Publish \/ Finish
    \/ \E u \in Users : ActRead(u) \/ ActCommit(u) \/ ActPublish(u)
    \/ \E r \in Replicas : Deliver(r) \/ Lose(r)

Spec == Init /\ [][Next]_vars

----------------------------------------------------------------------------
(* Properties *)

Messages == [type : {"phase", "combat", "state"}, n : 0 .. MaxPhase,
             own : Rosters]

\* Every variable keeps the shape its declaration describes.
FanoutTypeOK ==
    /\ \A s \in Sockets :
          /\ socket[s].user \in Users \union {Nobody}
          /\ socket[s].stage \in {"unused", "open", "cut", "closed"}
          /\ socket[s].stage \in {"open", "cut"} =>
                registered[socket[s].replica] \intersect SocketsOf(socket[s].user)
                    \intersect {x \in Sockets : socket[x].stage # "closed"} = {s}
          /\ resume[s].at \in {"none", "find", "read", "emit", "combat"}
    /\ match.stage \in {"none", "row", "live", "over"}
    /\ match.phase \in 0 .. MaxPhase /\ match.combat \in 0 .. match.phase
    /\ match.roster \in Rosters
    /\ \A r \in Replicas : \A i \in 1 .. Len(bus[r]) : bus[r][i] \in Messages
    /\ \A u \in Users : view[u].phase <= match.phase
    /\ leaving \subseteq Sockets /\ recorded \subseteq Sockets

\* Nothing that concerns the player is on its way any more.
Quiet == /\ outbox = <<>> /\ \A r \in Replicas : bus[r] = <<>>
         /\ \A s \in Sockets : resume[s].at = "none"
         /\ \A u \in Users : acting[u].at = "rest"

Watching(u, s) == Open(s) /\ socket[s].user = u /\ s \notin blind

\* A device whose socket was connected when a phase began has been shown that
\* phase once everything is delivered, whichever replica it is on and however
\* its registration, its resume and the creation of the match interleaved.
PhaseReachesTheConnected ==
    Quiet => \A u \in Users, s \in Sockets :
        Watching(u, s) /\ since[s] < match.phase => view[u].phase = match.phase

\* A device that is connected during a battle whose result is cached has been
\* shown that battle's events: by the publication, or by the resume of a socket
\* that came too late for it.
BattleReachesTheConnected ==
    Quiet /\ match.stage = "live" /\ match.phase % 2 = 0 /\ match.combat = match.phase =>
        \A u \in Users, s \in Sockets :
            Watching(u, s) => view[u].combat = match.combat

\* A closed socket is in no index of any replica that its own disconnection
\* keeps: a resume that was still reading the row does not bring it back.
ClosedSocketsForgotten ==
    \A s \in Sockets : socket[s].stage = "closed" =>
        s \notin recorded /\ \A r \in Replicas : s \notin registered[r]

\* A socket that a newer one of the same player on the same replica replaced
\* never puts the match at stake: a forfeit is decided only about a player who
\* had nothing left on that replica when the socket closed.
ForfeitMeansGone ==
    [][\A s \in leaving' \ leaving :
          {x \in registered'[socket[s].replica] : socket'[x].user = socket[s].user} = {}
      ]_vars

----------------------------------------------------------------------------
(* What the documents say and the code does not do *)

\* docs/03-architecture.md:547, race 16, "Two WS from same player on different
\* instances": "Per-user connect dedup: last socket wins; previous
\* disconnects".  The index is the replica's own (ws.gateway.ts:86), so the
\* previous socket of a player who moved to another replica is not superseded,
\* and its end puts the match of a connected player at stake.
LastSocketWins ==
    [][\A s \in leaving' \ leaving, x \in Sockets :
          ~(Open(x) /\ socket[x].user = socket'[s].user)]_vars

\* docs/07-design-spec.md:587: "server confirms via game:match:state -> clear
\* pending, no visual jump".  A player's own roster, as last shown, is the
\* committed one once everything is delivered.
OwnRosterIsShown ==
    Quiet /\ match.stage = "live" => \A u \in Users, s \in Sockets :
        Watching(u, s) => view[u].own = match.roster[u]

\* ws.gateway.ts:62-63: "a client can move between replicas mid-match without
\* missing events".  The device was connected on one replica when the phase
\* began, or before, and is now connected on another.
NoPhaseMissed ==
    Quiet /\ match.stage = "live" => \A u \in Users, s, x \in Sockets :
        /\ Watching(u, s) /\ x \in SocketsOf(u) \ blind
        /\ socket[x].replica # socket[s].replica /\ since[x] > 0
        => view[u].phase = match.phase

\* ws.gateway.ts:147-149: "a closed socket can't keep receiving events ... a
\* dead socket should not stay in localSubscribers indefinitely".
DeadSocketsUnsubscribed ==
    \A s \in Sockets, r \in Replicas :
        socket[s].stage = "closed" => s \notin subs[r]
=============================================================================
