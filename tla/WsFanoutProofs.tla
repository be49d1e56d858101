--------------------------- MODULE WsFanoutProofs ---------------------------
(***************************************************************************)
(* Theorems about WsFanout: what the gateway and the bridge promise for    *)
(* any number of players, replicas, connections and phases.                *)
(***************************************************************************)
EXTENDS WsFanout, TLAPS

-----------------------------------------------------------------------------
(* The shape of the state. *)

Connections == [user : Users \union {Nobody}, replica : Replicas \union {Nobody},
                stage : {"unused", "open", "cut", "closed"}, superseded : BOOLEAN]
Resumes == [at : {"none", "find", "read", "emit", "combat"}, own : Nat]
Actions == [at : {"rest", "commit", "publish"}, own : Rosters]
Views   == [phase : Nat, combat : Nat, own : Nat]

ServerShape ==
    /\ socket \in [Sockets -> Connections]
    /\ since \in [Sockets -> Nat]
    /\ registered \in [Replicas -> SUBSET Sockets]
    /\ subs \in [Replicas -> SUBSET Sockets]
    /\ recorded \subseteq Sockets /\ leaving \subseteq Sockets
    /\ resume \in [Sockets -> Resumes]
    /\ \A s \in Sockets : resume[s].at # "none" =>
          socket[s].user \in Users /\ socket[s].replica \in Replicas

MatchShape ==
    /\ match \in [stage : {"none", "row", "live", "over"}, phase : 0 .. MaxPhase,
                  combat : Nat, roster : Rosters]
    /\ match.combat <= match.phase
    /\ match.stage = "live" => match.phase > 0
    /\ acting \in [Users -> Actions]
    /\ forfeited \in Users \union {Nobody}
    /\ mishaps \in Nat

\* A phase writer has at most one publication to make: of the phase it has just
\* written, or of the battle it has just stored.
OutboxShape ==
    \/ outbox = <<>>
    \/ \E m \in Messages :
          /\ outbox = <<m>>
          /\ \/ m.type = "phase" /\ m.n = match.phase /\ match.combat < match.phase
             \/ m.type = "combat" /\ m.n = match.combat /\ match.combat = match.phase

\* What is on its way, or was shown, is of a phase that was written.
BusShape ==
    /\ bus \in [Replicas -> Seq(Messages)]
    /\ \A r \in Replicas : \A i \in 1 .. Len(bus[r]) : bus[r][i].n <= match.phase
    /\ view \in [Users -> Views]
    /\ \A u \in Users : view[u].phase <= match.phase

Shape == ServerShape /\ MatchShape /\ OutboxShape /\ BusShape

LEMMA PhaseIsNat == ASSUME Shape PROVE match.phase \in Nat /\ match.combat \in Nat
  BY FanoutBounds DEF Shape, MatchShape

\* A connection that only changes its stage.
LEMMA StageType ==
  ASSUME ServerShape, NEW s \in Sockets, NEW t \in {"open", "cut", "closed"},
         socket' = [socket EXCEPT ![s].stage = t]
  PROVE  /\ socket' \in [Sockets -> Connections]
         /\ socket'[s].stage = t
         /\ \A x \in Sockets : /\ socket'[x].user = socket[x].user
                                /\ socket'[x].replica = socket[x].replica
                                /\ socket'[x].superseded = socket[x].superseded
         /\ \A x \in Sockets \ {s} : socket'[x] = socket[x]
<1>1. socket \in [Sockets -> Connections] /\ socket[s] \in Connections
  BY DEF ServerShape
<1>2. socket' = [socket EXCEPT ![s] = [socket[s] EXCEPT !.stage = t]]
  OBVIOUS
<1>3. [socket[s] EXCEPT !.stage = t] \in Connections
  BY <1>1 DEF Connections
<1>4. /\ [socket[s] EXCEPT !.stage = t].stage = t
      /\ [socket[s] EXCEPT !.stage = t].user = socket[s].user
      /\ [socket[s] EXCEPT !.stage = t].replica = socket[s].replica
      /\ [socket[s] EXCEPT !.stage = t].superseded = socket[s].superseded
  BY <1>1 DEF Connections
<1>5. QED
  BY <1>1, <1>2, <1>3, <1>4

\* What a connection makes of the sockets.
LEMMA SupersedingIs ==
  ASSUME ServerShape, NEW u \in Users, NEW r \in Replicas, NEW s \in Sockets,
         socket' = Superseding(u, r, s)
  PROVE  /\ socket' \in [Sockets -> Connections]
         /\ socket'[s] = [user |-> u, replica |-> r, stage |-> "open", superseded |-> FALSE]
         /\ \A x \in Sockets \ {s} : /\ socket'[x].user = socket[x].user
                                    /\ socket'[x].replica = socket[x].replica
         /\ \A x \in Previous(u, r) \ {s} : socket'[x].stage = "closed" /\ socket'[x].superseded
         /\ \A x \in Sockets \ Previous(u, r) : x # s => socket'[x] = socket[x]
<1> DEFINE Gone(x) == [socket[x] EXCEPT !.stage = "closed", !.superseded = TRUE]
<1> DEFINE Fresh == [user |-> u, replica |-> r, stage |-> "open", superseded |-> FALSE]
<1>1. socket \in [Sockets -> Connections] /\ Previous(u, r) \subseteq Sockets
  BY DEF ServerShape, Previous, SocketsOf
<1>2. \A x \in Sockets : /\ Gone(x) \in Connections /\ Gone(x).stage = "closed"
                         /\ Gone(x).superseded
                         /\ Gone(x).user = socket[x].user /\ Gone(x).replica = socket[x].replica
  BY <1>1 DEF Connections
<1>3. Fresh \in Connections
  BY DEF Connections
<1> HIDE DEF Gone, Fresh
<1>4. socket' =
        [[x \in Sockets |-> IF x \in Previous(u, r) THEN Gone(x) ELSE socket[x]] EXCEPT ![s] = Fresh]
  BY DEF Superseding, Gone, Fresh
<1>5. socket' \in [Sockets -> Connections]
  BY <1>1, <1>2, <1>3, <1>4
<1>6. socket'[s] = Fresh
  BY <1>4
<1>7. \A x \in Sockets \ {s} :
        socket'[x] = IF x \in Previous(u, r) THEN Gone(x) ELSE socket[x]
  BY <1>4
<1>8. QED
  BY <1>1, <1>2, <1>5, <1>6, <1>7 DEF Fresh

LEMMA ServerShapeInv ==
  ASSUME Shape, [Next]_vars
  PROVE  ServerShape'
<1> USE DEF Shape, ServerShape
<1>1. ASSUME NEW u \in Users, NEW r \in Replicas, NEW s \in Sockets, Connect(u, r, s)
      PROVE  ServerShape'
  <2>0. socket' = Superseding(u, r, s)
    BY <1>1 DEF Connect
  <2>1. /\ socket' \in [Sockets -> Connections]
        /\ socket'[s].user = u /\ socket'[s].replica = r
        /\ \A x \in Sockets \ {s} : /\ socket'[x].user = socket[x].user
                                   /\ socket'[x].replica = socket[x].replica
    <3> HIDE DEF Shape, ServerShape
    <3>1. ServerShape
      BY DEF Shape
    <3>2. /\ socket' \in [Sockets -> Connections]
          /\ socket'[s] = [user |-> u, replica |-> r, stage |-> "open", superseded |-> FALSE]
          /\ \A x \in Sockets \ {s} : /\ socket'[x].user = socket[x].user
                                     /\ socket'[x].replica = socket[x].replica
      BY <2>0, <3>1, SupersedingIs
    <3>3. QED
      BY <3>2
  <2>2. Previous(u, r) \subseteq Sockets /\ Left(Previous(u, r), Superseding(u, r, s)) \subseteq Sockets
    BY DEF Previous, Left
  <2>3. Silenced(Previous(u, r)) \in [Sockets -> Resumes]
    BY DEF Silenced, Idle, Resumes
  <2>4. resume' \in [Sockets -> Resumes]
    BY <1>1, <2>3 DEF Connect, Resumes
  <2>5. registered' \in [Replicas -> SUBSET Sockets] /\ subs' \in [Replicas -> SUBSET Sockets]
    BY <1>1, <2>2 DEF Connect, Registered, Unsubscribed
  <2>6. socket' \in [Sockets -> Connections] /\ since' \in [Sockets -> Nat]
    BY <1>1, <2>1, PhaseIsNat DEF Connect
  <2>7. recorded' \subseteq Sockets /\ leaving' \subseteq Sockets
    BY <1>1, <2>2 DEF Connect
  <2>9. ASSUME NEW x \in Sockets, resume'[x].at # "none"
        PROVE  socket'[x].user \in Users /\ socket'[x].replica \in Replicas
    <3>1. x # s => resume[x].at # "none"
      BY <1>1, <2>9, <2>3 DEF Connect, Silenced, Idle, Resumes
    <3>2. QED
      BY <2>1, <3>1
  <2>8. QED
    BY <2>4, <2>5, <2>6, <2>7, <2>9
<1>2. ASSUME NEW s \in Sockets, Refuse(s) \/ Cut(s)
      PROVE  ServerShape'
  <2>1. PICK t \in {"closed", "cut"} : socket' = [socket EXCEPT ![s].stage = t]
    BY <1>2 DEF Refuse, Cut
  <2>2. /\ socket' \in [Sockets -> Connections]
        /\ \A x \in Sockets : /\ socket'[x].user = socket[x].user
                               /\ socket'[x].replica = socket[x].replica
    BY <2>1, StageType
  <2>3. UNCHANGED <<since, registered, subs, recorded, resume, leaving>>
    BY <1>2 DEF Refuse, Cut
  <2>4. QED
    BY <2>2, <2>3
<1>3. ASSUME NEW s \in Sockets, Disconnect(s)
      PROVE  ServerShape'
  <2>0. socket' = [socket EXCEPT ![s].stage = "closed"]
    BY <1>3 DEF Disconnect
  <2>1. /\ socket' \in [Sockets -> Connections]
        /\ \A x \in Sockets : /\ socket'[x].user = socket[x].user
                               /\ socket'[x].replica = socket[x].replica
    BY <2>0, StageType
  <2>2. registered' \in [Replicas -> SUBSET Sockets] /\ subs' \in [Replicas -> SUBSET Sockets]
    BY <1>3 DEF Disconnect, Registered, Unsubscribed
  <2>3. resume' \in [Sockets -> Resumes]
    BY <1>3 DEF Disconnect, Silenced, Idle, Resumes
  <2>4. recorded' \subseteq Sockets /\ leaving' \subseteq Sockets /\ UNCHANGED since
    BY <1>3 DEF Disconnect, Left
  <2>6. \A x \in Sockets : resume'[x].at # "none" => resume[x].at # "none"
    BY <1>3 DEF Disconnect, Silenced, Idle, Resumes
  <2>5. QED
    BY <2>1, <2>2, <2>3, <2>4, <2>6
<1>4. ASSUME NEW s \in Sockets, Forfeit(s)
      PROVE  ServerShape'
  BY <1>4 DEF Forfeit, conn
<1>5. ASSUME NEW s \in Sockets, ResumeFind(s)
      PROVE  ServerShape'
  <2>1. resume[s].at = "find" /\ UNCHANGED <<socket, since, registered, leaving>>
    BY <1>5 DEF ResumeFind
  <2>2. subs' \in [Replicas -> SUBSET Sockets] /\ recorded' \subseteq Sockets
    BY <1>5 DEF ResumeFind, Subscribed
  <2>3. resume' \in [Sockets -> Resumes]
        /\ \A x \in Sockets : resume'[x].at # "none" => resume[x].at # "none"
    <3>1. resume' = [resume EXCEPT ![s].at = "read"] \/ resume' = [resume EXCEPT ![s] = Idle]
      BY <1>5 DEF ResumeFind
    <3>2. [resume[s] EXCEPT !.at = "read"] \in Resumes /\ Idle \in Resumes
      BY DEF Resumes, Idle
    <3>3. PICK z \in Resumes : resume' = [resume EXCEPT ![s] = z]
      BY <3>1, <3>2
    <3>4. QED
      BY <2>1, <3>3
  <2>4. QED
    BY <2>1, <2>2, <2>3
<1>6. ASSUME NEW s \in Sockets, ResumeRead(s)
      PROVE  ServerShape'
  <2>1. socket[s].user \in Users
    BY <1>6 DEF ResumeRead
  <2>2. match.roster[socket[s].user] \in Nat
    BY <2>1 DEF MatchShape, Rosters
  <2>3. resume' \in [Sockets -> Resumes]
    BY <1>6, <2>2 DEF ResumeRead, Idle, Resumes
  <2>4. \A x \in Sockets : resume'[x].at # "none" => resume[x].at # "none"
    BY <1>6 DEF ResumeRead
  <2>5. QED
    BY <1>6, <2>3, <2>4 DEF ResumeRead, conn
<1>7. ASSUME NEW s \in Sockets, ResumeEmit(s) \/ ResumeCombat(s) \/ ResumeFails(s)
      PROVE  ServerShape'
  <2>1. resume' = [resume EXCEPT ![s].at = "combat"] \/ resume' = [resume EXCEPT ![s] = Idle]
    BY <1>7 DEF ResumeEmit, ResumeCombat, ResumeFails
  <2>2. resume' \in [Sockets -> Resumes]
        /\ \A x \in Sockets : resume'[x].at # "none" => resume[x].at # "none"
    <3>1. resume[s].at # "none"
      BY <1>7 DEF ResumeEmit, ResumeCombat, ResumeFails
    <3>2. [resume[s] EXCEPT !.at = "combat"] \in Resumes /\ Idle \in Resumes
      BY DEF Resumes, Idle
    <3>3. PICK z \in Resumes : resume' = [resume EXCEPT ![s] = z]
      BY <2>1, <3>2
    <3>4. QED
      BY <3>1, <3>3
  <2>3. UNCHANGED <<conn, subs, leaving>>
    BY <1>7 DEF ResumeEmit, ResumeCombat, ResumeFails
  <2>4. QED
    BY <2>2, <2>3 DEF conn
<1>8. CASE CreateRow \/ ChangePhase \/ RunBattle \/ Publish \/ Finish
  BY <1>8 DEF CreateRow, ChangePhase, RunBattle, Publish, Finish, conn
<1>9. ASSUME NEW u \in Users, ActRead(u) \/ ActCommit(u) \/ ActPublish(u)
      PROVE  ServerShape'
  BY <1>9 DEF ActRead, ActCommit, ActPublish, conn
<1>10. ASSUME NEW r \in Replicas, Deliver(r)
       PROVE  ServerShape'
  BY <1>10 DEF Deliver, Subscribed, Attached, conn
<1>11. ASSUME NEW r \in Replicas, Lose(r)
       PROVE  ServerShape'
  BY <1>11 DEF Lose, conn
<1>12. CASE UNCHANGED vars
  BY <1>12 DEF vars
<1>13. QED
  BY <1>1, <1>2, <1>3, <1>4, <1>5, <1>6, <1>7, <1>8, <1>9, <1>10, <1>11, <1>12 DEF Next
LEMMA MatchShapeInv ==
  ASSUME Shape, [Next]_vars
  PROVE  MatchShape'
<1>0. /\ match.phase \in Nat /\ match.combat \in Nat /\ MaxPhase \in Nat
      /\ match \in [stage : {"none", "row", "live", "over"}, phase : 0 .. MaxPhase,
                    combat : Nat, roster : Rosters]
  BY PhaseIsNat, FanoutBounds DEF Shape, MatchShape
<1>1. CASE UNCHANGED player /\ mishaps' \in Nat
  BY <1>1 DEF player, Shape, MatchShape
<1>2. ASSUME NEW u \in Users, NEW r \in Replicas, NEW s \in Sockets, Connect(u, r, s)
      PROVE  MatchShape'
  BY <1>1, <1>2 DEF Connect, Shape, MatchShape
<1>3. ASSUME NEW s \in Sockets,
             Refuse(s) \/ Cut(s) \/ Disconnect(s) \/ ResumeFind(s) \/ ResumeRead(s)
             \/ ResumeEmit(s) \/ ResumeCombat(s) \/ ResumeFails(s)
      PROVE  MatchShape'
  <2>1. UNCHANGED player /\ (mishaps' = mishaps \/ mishaps' = mishaps + 1)
    BY <1>3 DEF Refuse, Cut, Disconnect, ResumeFind, ResumeRead, ResumeEmit, ResumeCombat,
                ResumeFails
  <2>2. QED
    BY <1>1, <2>1 DEF Shape, MatchShape
<1>4. ASSUME NEW r \in Replicas, Deliver(r) \/ Lose(r)
      PROVE  MatchShape'
  BY <1>1, <1>4 DEF Deliver, Lose, Shape, MatchShape
<1>5. ASSUME NEW s \in Sockets, Forfeit(s)
      PROVE  MatchShape'
  <2>1. UNCHANGED <<acting, mishaps>>
    BY <1>5 DEF Forfeit
  <2>2. CASE UNCHANGED <<match, forfeited>>
    BY <2>1, <2>2 DEF Shape, MatchShape
  <2>3. CASE match' = [match EXCEPT !.stage = "over"] /\ forfeited' = socket[s].user
    BY <1>0, <2>1, <2>3 DEF Shape, MatchShape, ServerShape, Connections
  <2>4. QED
    BY <1>5, <2>2, <2>3 DEF Forfeit
<1>6. CASE CreateRow \/ Finish
  <2>1. UNCHANGED <<acting, forfeited, mishaps>>
        /\ \E t \in {"row", "over"} : match' = [match EXCEPT !.stage = t]
    BY <1>6 DEF CreateRow, Finish
  <2>2. QED
    BY <1>0, <2>1 DEF Shape, MatchShape
<1>7. CASE ChangePhase
  <2>1. UNCHANGED <<acting, forfeited, mishaps>> /\ match.phase < MaxPhase
        /\ match' = [match EXCEPT !.stage = "live", !.phase = match.phase + 1]
    BY <1>7 DEF ChangePhase
  <2>2. match.phase + 1 \in 0 .. MaxPhase
    BY <1>0, <2>1
  <2>3. /\ match' \in [stage : {"none", "row", "live", "over"}, phase : 0 .. MaxPhase,
                       combat : Nat, roster : Rosters]
        /\ match'.phase = match.phase + 1 /\ match'.combat = match.combat
    BY <1>0, <2>1, <2>2
  <2>4. match.combat <= match.phase + 1 /\ match.phase + 1 > 0
    BY <1>0 DEF Shape, MatchShape
  <2>5. QED
    BY <2>1, <2>3, <2>4 DEF Shape, MatchShape
<1>8. CASE RunBattle
  <2>1. UNCHANGED <<acting, forfeited, mishaps>>
        /\ match' = [match EXCEPT !.combat = match.phase]
    BY <1>8 DEF RunBattle
  <2>2. QED
    BY <1>0, <2>1 DEF Shape, MatchShape
<1>9. CASE Publish
  BY <1>9 DEF Publish, Shape, MatchShape
<1>10. ASSUME NEW u \in Users, ActRead(u)
       PROVE  MatchShape'
  <2>1. [at |-> "commit", own |-> match.roster] \in Actions
    BY <1>0 DEF Actions
  <2>2. acting' = [acting EXCEPT ![u] = [at |-> "commit", own |-> match.roster]]
        /\ UNCHANGED <<match, forfeited, mishaps>>
    BY <1>10 DEF ActRead
  <2>3. QED
    BY <2>1, <2>2 DEF Shape, MatchShape
<1>11. ASSUME NEW u \in Users, ActCommit(u)
       PROVE  MatchShape'
  <2>1. UNCHANGED <<forfeited, mishaps>> /\ acting[u] \in Actions /\ NoAct \in Actions
    BY <1>11 DEF ActCommit, Shape, MatchShape, Actions, NoAct, Rosters
  <2>2. CASE UNCHANGED match /\ acting' = [acting EXCEPT ![u] = NoAct]
    BY <2>1, <2>2 DEF Shape, MatchShape
  <2>3. CASE /\ match' = [match EXCEPT !.roster[u] = match.roster[u] + 1]
             /\ acting' = [acting EXCEPT ![u] =
                   [at |-> "publish", own |-> [acting[u].own EXCEPT ![u] = acting[u].own[u] + 1]]]
    <3>1. [match.roster EXCEPT ![u] = match.roster[u] + 1] \in Rosters
          /\ [acting[u].own EXCEPT ![u] = acting[u].own[u] + 1] \in Rosters
      BY <1>0, <2>1 DEF Rosters, Actions
    <3>2. match' = [match EXCEPT !.roster = [match.roster EXCEPT ![u] = match.roster[u] + 1]]
      BY <1>0, <2>3
    <3>4. acting' \in [Users -> Actions]
      BY <2>3, <3>1 DEF Actions, Shape, MatchShape
    <3>5. QED
      BY <1>0, <2>1, <3>1, <3>2, <3>4 DEF Shape, MatchShape
  <2>4. QED
    BY <1>11, <2>2, <2>3 DEF ActCommit
<1>12. ASSUME NEW u \in Users, ActPublish(u)
       PROVE  MatchShape'
  <2>1. NoAct \in Actions
    BY DEF Actions, NoAct, Rosters
  <2>2. QED
    BY <1>12, <2>1 DEF ActPublish, Shape, MatchShape
<1>13. CASE UNCHANGED vars
  BY <1>13 DEF vars, Shape, MatchShape
<1>14. QED
  BY <1>2, <1>3, <1>4, <1>5, <1>6, <1>7, <1>8, <1>9, <1>10, <1>11, <1>12, <1>13 DEF Next

LEMMA EventsAreMessages ==
  ASSUME Shape
  PROVE  /\ \A n \in 0 .. MaxPhase : /\ PhaseEvent(n) \in Messages
                                     /\ CombatEvents(n) \in Messages
         /\ \A own \in Rosters : StateEvent(own) \in Messages
<1>1. MaxPhase \in Nat /\ match.roster \in Rosters /\ [u \in Users |-> 0] \in Rosters
  BY FanoutBounds DEF Shape, MatchShape, Rosters
<1>2. QED
  BY <1>1 DEF PhaseEvent, CombatEvents, StateEvent, Messages

LEMMA OutboxShapeInv ==
  ASSUME Shape, [Next]_vars
  PROVE  OutboxShape'
<1>0. match.phase \in Nat /\ match.combat \in Nat /\ match.combat <= match.phase /\ MaxPhase \in Nat
      /\ match \in [stage : {"none", "row", "live", "over"}, phase : 0 .. MaxPhase,
                    combat : Nat, roster : Rosters]
  BY PhaseIsNat, FanoutBounds DEF Shape, MatchShape
<1>1. CASE UNCHANGED outbox /\ match'.phase = match.phase /\ match'.combat = match.combat
  BY <1>1 DEF Shape, OutboxShape
<1>2. CASE ChangePhase
  <2>1. match.phase + 1 \in 0 .. MaxPhase
    BY <1>0, <1>2 DEF ChangePhase
  <2>2. PICK m \in Messages : m = PhaseEvent(match.phase + 1)
    BY <2>1, EventsAreMessages
  <2>3. m.type = "phase" /\ m.n = match.phase + 1 /\ outbox' = <<m>>
    BY <1>2, <2>2 DEF PhaseEvent, ChangePhase
  <2>4. match'.phase = match.phase + 1 /\ match'.combat = match.combat
    BY <1>0, <1>2 DEF ChangePhase
  <2>5. QED
    BY <1>0, <2>3, <2>4 DEF OutboxShape
<1>3. CASE RunBattle
  <2>1. PICK m \in Messages : m = CombatEvents(match.phase)
    BY <1>0, EventsAreMessages
  <2>2. m.type = "combat" /\ m.n = match.phase /\ outbox' = <<m>>
    BY <1>3, <2>1 DEF CombatEvents, RunBattle
  <2>3. match'.phase = match.phase /\ match'.combat = match.phase
    BY <1>0, <1>3 DEF RunBattle
  <2>4. QED
    BY <2>2, <2>3 DEF OutboxShape
<1>4. CASE Publish
  <2>1. outbox' = Tail(outbox) /\ outbox # <<>>
    BY <1>4 DEF Publish
  <2>2. QED
    BY <2>1 DEF Shape, OutboxShape
<1>5. ASSUME NEW u \in Users, NEW r \in Replicas, NEW s \in Sockets, Connect(u, r, s)
      PROVE  OutboxShape'
  BY <1>1, <1>5 DEF Connect, player
<1>6. ASSUME NEW s \in Sockets,
             Refuse(s) \/ Cut(s) \/ Disconnect(s) \/ ResumeFind(s) \/ ResumeRead(s)
             \/ ResumeEmit(s) \/ ResumeCombat(s) \/ ResumeFails(s)
      PROVE  OutboxShape'
  <2>1. UNCHANGED player
    BY <1>6 DEF Refuse, Cut, Disconnect, ResumeFind, ResumeRead, ResumeEmit, ResumeCombat,
                ResumeFails
  <2>2. QED
    BY <1>1, <2>1 DEF player
<1>7. ASSUME NEW r \in Replicas, Deliver(r) \/ Lose(r)
      PROVE  OutboxShape'
  BY <1>1, <1>7 DEF Deliver, Lose, player
<1>8. ASSUME NEW s \in Sockets, Forfeit(s)
      PROVE  OutboxShape'
  <2>1. UNCHANGED outbox /\ (match' = match \/ match' = [match EXCEPT !.stage = "over"])
    BY <1>8 DEF Forfeit
  <2>2. QED
    BY <1>0, <1>1, <2>1
<1>9. CASE CreateRow \/ Finish
  <2>1. UNCHANGED outbox /\ \E t \in {"row", "over"} : match' = [match EXCEPT !.stage = t]
    BY <1>9 DEF CreateRow, Finish
  <2>2. QED
    BY <1>0, <1>1, <2>1
<1>10. ASSUME NEW u \in Users, ActRead(u) \/ ActCommit(u) \/ ActPublish(u)
       PROVE  OutboxShape'
  <2>1. UNCHANGED outbox /\ (match' = match \/ match' = [match EXCEPT !.roster[u] = match.roster[u] + 1])
    BY <1>10 DEF ActRead, ActCommit, ActPublish
  <2>2. QED
    BY <1>0, <1>1, <2>1
<1>11. CASE UNCHANGED vars
  BY <1>1, <1>11 DEF vars
<1>12. QED
  BY <1>2, <1>3, <1>4, <1>5, <1>6, <1>7, <1>8, <1>9, <1>10, <1>11 DEF Next
\* A message that is handled or lost leaves a queue from its front.
LEMMA TailIs ==
  ASSUME NEW q \in Seq(Messages), q # <<>>
  PROVE  /\ Tail(q) \in Seq(Messages) /\ Head(q) = q[1]
         /\ Len(Tail(q)) = Len(q) - 1
         /\ \A i \in 1 .. Len(Tail(q)) : Tail(q)[i] = q[i + 1] /\ i + 1 \in 1 .. Len(q)
  OBVIOUS
\* What a delivery, or a snapshot, makes of the devices: of the sockets it goes
\* to, the open ones show it, and nobody else's view moves.
LEMMA SeenIs ==
  ASSUME Shape, NEW S \in SUBSET Sockets, NEW m \in Messages, view' = Seen(S, m)
  PROVE  /\ view' \in [Users -> Views]
         /\ \A u \in Users :
               /\ m.type # "phase"  => view'[u].phase = view[u].phase
               /\ m.type # "combat" => view'[u].combat = view[u].combat
               /\ view'[u].phase \in {view[u].phase, m.n}
               /\ (\A s \in S \intersect SocketsOf(u) : ~Open(s)) => view'[u] = view[u]
               /\ (\E s \in S \intersect SocketsOf(u) : Open(s)) =>
                     /\ m.type = "phase"  => view'[u].phase = m.n
                     /\ m.type = "combat" => view'[u].combat = m.n
<1>1. MaxPhase \in Nat /\ m.n \in Nat /\ m.type \in {"phase", "combat", "state"}
      /\ \A u \in Users : m.own[u] \in Nat
  BY FanoutBounds DEF Messages, Rosters
<1>2. \A u \in Users : view[u] \in Views
  BY DEF Shape, BusShape
<1>3. ASSUME NEW u \in Users
      PROVE  /\ Shown(view[u], u, m) \in Views
             /\ m.type = "phase"  => /\ Shown(view[u], u, m).phase = m.n
                                     /\ Shown(view[u], u, m).combat = view[u].combat
             /\ m.type = "combat" => /\ Shown(view[u], u, m).combat = m.n
                                     /\ Shown(view[u], u, m).phase = view[u].phase
             /\ m.type = "state"  => /\ Shown(view[u], u, m).combat = view[u].combat
                                     /\ Shown(view[u], u, m).phase = view[u].phase
  <2>1. view[u] \in Views /\ m.own[u] \in Nat
    BY <1>1, <1>2
  <2>2. CASE m.type = "phase"
    <3>1. Shown(view[u], u, m) = [view[u] EXCEPT !.phase = m.n, !.own = m.own[u]]
      BY <2>2 DEF Shown
    <3>2. QED
      BY <1>1, <2>1, <2>2, <3>1 DEF Views
  <2>3. CASE m.type = "combat"
    <3>1. Shown(view[u], u, m) = [view[u] EXCEPT !.combat = m.n]
      BY <2>3 DEF Shown
    <3>2. QED
      BY <1>1, <2>1, <2>3, <3>1 DEF Views
  <2>4. CASE m.type = "state"
    <3>1. Shown(view[u], u, m) = [view[u] EXCEPT !.own = m.own[u]]
      BY <2>4 DEF Shown
    <3>2. QED
      BY <1>1, <2>1, <2>4, <3>1 DEF Views
  <2>5. QED
    BY <1>1, <2>2, <2>3, <2>4
<1>4. \A u \in Users :
         view'[u] = IF \E s \in S \intersect SocketsOf(u) : Open(s)
                    THEN Shown(view[u], u, m) ELSE view[u]
  BY DEF Seen
<1>5. view' \in [Users -> Views]
  BY <1>2, <1>3 DEF Seen
<1>6. QED
  BY <1>1, <1>3, <1>4, <1>5

\* A publication goes to the end of every replica's queue.
LEMMA PublishedIs ==
  ASSUME Shape, NEW m \in Messages, bus' = Published(m)
  PROVE  /\ bus' \in [Replicas -> Seq(Messages)]
         /\ \A r \in Replicas : bus'[r] = Append(bus[r], m)
  BY DEF Published, Shape, BusShape

\* A replica handles, or misses, the first publication of its queue.
LEMMA HandledIs ==
  ASSUME Shape, UNCHANGED match,
         NEW r \in Replicas, bus[r] # <<>>, bus' = [bus EXCEPT ![r] = Tail(bus[r])]
  PROVE  /\ bus' \in [Replicas -> Seq(Messages)]
         /\ bus'[r] = Tail(bus[r])
         /\ \A x \in Replicas : x # r => bus'[x] = bus[x]
         /\ \A x \in Replicas : \A i \in 1 .. Len(bus'[x]) : bus'[x][i].n <= match'.phase
<1>1. bus \in [Replicas -> Seq(Messages)]
      /\ \A x \in Replicas : \A i \in 1 .. Len(bus[x]) : bus[x][i].n <= match.phase
  BY DEF Shape, BusShape
<1>2. bus[r] \in Seq(Messages)
  BY <1>1
<1>3. Tail(bus[r]) \in Seq(Messages)
      /\ \A i \in 1 .. Len(Tail(bus[r])) : Tail(bus[r])[i] = bus[r][i + 1] /\ i + 1 \in 1 .. Len(bus[r])
  BY <1>2, TailIs
<1>4. bus' \in [Replicas -> Seq(Messages)] /\ bus'[r] = Tail(bus[r])
      /\ \A x \in Replicas : x # r => bus'[x] = bus[x]
  BY <1>1, <1>3
<1>5. \A i \in 1 .. Len(bus'[r]) : bus'[r][i].n <= match'.phase
  BY <1>1, <1>3, <1>4
<1>6. QED
  BY <1>1, <1>4, <1>5

LEMMA BusShapeInv ==
  ASSUME Shape, [Next]_vars
  PROVE  BusShape'
<1>0. match.phase \in Nat /\ match.combat \in Nat /\ match.combat <= match.phase /\ MaxPhase \in Nat
      /\ match \in [stage : {"none", "row", "live", "over"}, phase : 0 .. MaxPhase,
                    combat : Nat, roster : Rosters]
  BY PhaseIsNat, FanoutBounds DEF Shape, MatchShape
<1>1. CASE /\ UNCHANGED <<bus, view>>
           /\ match'.phase \in Nat /\ match'.phase >= match.phase
  <2>0. \A m \in Messages : m.n \in Nat
    BY <1>0 DEF Messages
  <2>1. \A r \in Replicas : \A i \in 1 .. Len(bus[r]) : bus[r][i].n \in Nat
    <3> SUFFICES ASSUME NEW r \in Replicas, NEW i \in 1 .. Len(bus[r])
                 PROVE  bus[r][i].n \in Nat
      OBVIOUS
    <3>1. bus[r] \in Seq(Messages)
      BY DEF Shape, BusShape
    <3>2. QED
      BY <2>0, <3>1
  <2>2. \A u \in Users : view[u].phase \in Nat
    BY DEF Shape, BusShape, Views
  <2>3. \A r \in Replicas : \A i \in 1 .. Len(bus'[r]) : bus'[r][i].n <= match'.phase
    BY <1>0, <1>1, <2>1 DEF Shape, BusShape
  <2>4. \A u \in Users : view'[u].phase <= match'.phase
    BY <1>0, <1>1, <2>2 DEF Shape, BusShape
  <2>5. QED
    BY <1>1, <2>3, <2>4 DEF Shape, BusShape
<1>2. ASSUME NEW u \in Users, NEW r \in Replicas, NEW s \in Sockets, Connect(u, r, s)
      PROVE  BusShape'
  BY <1>0, <1>1, <1>2 DEF Connect, player
<1>3. ASSUME NEW s \in Sockets,
             Refuse(s) \/ Cut(s) \/ Disconnect(s) \/ Forfeit(s) \/ ResumeFind(s) \/ ResumeRead(s)
             \/ ResumeFails(s)
      PROVE  BusShape'
  <2>1. UNCHANGED <<bus, view>> /\ (match' = match \/ match' = [match EXCEPT !.stage = "over"])
    BY <1>3 DEF Refuse, Cut, Disconnect, Forfeit, ResumeFind, ResumeRead, ResumeFails, player
  <2>2. QED
    BY <1>0, <1>1, <2>1
<1>4. CASE CreateRow \/ ChangePhase \/ RunBattle \/ Finish
  <2>1. /\ UNCHANGED <<bus, view>>
        /\ \/ \E t \in {"row", "over"} : match' = [match EXCEPT !.stage = t]
           \/ match' = [match EXCEPT !.stage = "live", !.phase = match.phase + 1]
           \/ match' = [match EXCEPT !.combat = match.phase]
    BY <1>4 DEF CreateRow, ChangePhase, RunBattle, Finish
  <2>2. match'.phase \in {match.phase, match.phase + 1}
    BY <1>0, <2>1
  <2>3. QED
    BY <1>0, <1>1, <2>1, <2>2
<1>5. ASSUME NEW u \in Users, ActRead(u) \/ ActCommit(u)
      PROVE  BusShape'
  <2>1. /\ UNCHANGED <<bus, view>>
        /\ match' = match \/ match' = [match EXCEPT !.roster[u] = match.roster[u] + 1]
    BY <1>5 DEF ActRead, ActCommit
  <2>2. QED
    BY <1>0, <1>1, <2>1
<1>6. ASSUME NEW m \in Messages, bus' = Published(m), m.n <= match.phase, UNCHANGED <<match, view>>
      PROVE  BusShape'
  <2>1. ASSUME NEW r \in Replicas, NEW i \in 1 .. Len(bus'[r])
        PROVE  bus'[r][i].n <= match'.phase
    <3>1. bus'[r] = Append(bus[r], m) /\ bus[r] \in Seq(Messages)
      BY <1>6, PublishedIs DEF Shape, BusShape
    <3>2. CASE i \in 1 .. Len(bus[r])
      BY <1>6, <3>1, <3>2 DEF Shape, BusShape
    <3>3. CASE i = Len(bus[r]) + 1
      BY <1>6, <3>1, <3>3
    <3>4. QED
      BY <3>1, <3>2, <3>3
  <2>2. QED
    BY <1>6, <2>1, PublishedIs DEF Shape, BusShape
<1>7. CASE Publish
  <2>1. PICK m \in Messages : outbox = <<m>> /\ m.n <= match.phase
    BY <1>0, <1>7 DEF Publish, Shape, OutboxShape
  <2>2. bus' = Published(m) /\ UNCHANGED <<match, view>>
    BY <1>7, <2>1 DEF Publish
  <2>3. QED
    BY <1>6, <2>1, <2>2
<1>8. ASSUME NEW u \in Users, ActPublish(u)
      PROVE  BusShape'
  <2>1. acting[u].own \in Rosters
    BY DEF Shape, MatchShape, Actions
  <2>2. PICK m \in Messages : m = StateEvent(acting[u].own)
    BY <2>1, EventsAreMessages
  <2>3. m.n <= match.phase /\ bus' = Published(m) /\ UNCHANGED <<match, view>>
    BY <1>0, <1>8, <2>2 DEF ActPublish, StateEvent
  <2>4. QED
    BY <1>6, <2>2, <2>3
<1>9. ASSUME NEW S \in SUBSET Sockets, NEW m \in Messages, m.n <= match.phase,
             view' = Seen(S, m), UNCHANGED match,
             \/ UNCHANGED bus
             \/ \E r \in Replicas : bus[r] # <<>> /\ bus' = [bus EXCEPT ![r] = Tail(bus[r])]
      PROVE  BusShape'
  <2>1. /\ view' \in [Users -> Views]
        /\ \A u \in Users : view'[u].phase \in {view[u].phase, m.n}
    BY <1>9, SeenIs
  <2>2. \A u \in Users : view'[u].phase <= match'.phase
    BY <1>9, <2>1 DEF Shape, BusShape
  <2>3. /\ bus' \in [Replicas -> Seq(Messages)]
        /\ \A r \in Replicas : \A i \in 1 .. Len(bus'[r]) : bus'[r][i].n <= match'.phase
    <3>1. CASE UNCHANGED bus
      BY <1>9, <3>1 DEF Shape, BusShape
    <3>2. ASSUME NEW r \in Replicas, bus[r] # <<>>, bus' = [bus EXCEPT ![r] = Tail(bus[r])]
          PROVE  /\ bus' \in [Replicas -> Seq(Messages)]
                 /\ \A x \in Replicas : \A i \in 1 .. Len(bus'[x]) : bus'[x][i].n <= match'.phase
      BY <1>9, <3>2, HandledIs
    <3>3. QED
      BY <1>9, <3>1, <3>2
  <2>4. QED
    BY <2>1, <2>2, <2>3 DEF BusShape
<1>10. ASSUME NEW s \in Sockets, ResumeEmit(s)
       PROVE  BusShape'
  <2>1. [u \in Users |-> resume[s].own] \in Rosters
    BY DEF Shape, ServerShape, Resumes, Rosters
  <2>2. PICK m \in Messages : m = StateEvent([u \in Users |-> resume[s].own])
    BY <2>1, EventsAreMessages
  <2>3. m.n <= match.phase
    BY <1>0, <2>2 DEF StateEvent
  <2>4. view' = Seen({s}, m) /\ UNCHANGED <<match, bus>>
    BY <1>10, <2>2 DEF ResumeEmit, player
  <2>5. QED
    BY <1>9, <2>3, <2>4
<1>11. ASSUME NEW s \in Sockets, ResumeCombat(s)
       PROVE  BusShape'
  <2>1. UNCHANGED <<match, bus>>
    BY <1>11 DEF ResumeCombat, player
  <2>2. CASE CachedCombat
    <3>1. PICK m \in Messages : m = CombatEvents(match.combat)
      BY <1>0, EventsAreMessages
    <3>2. view' = Seen({s}, m) /\ m.n <= match.phase
      BY <1>0, <1>11, <2>2, <3>1 DEF ResumeCombat, CombatEvents
    <3>3. QED
      BY <1>9, <2>1, <3>2
  <2>3. CASE ~CachedCombat
    BY <1>0, <1>1, <1>11, <2>1, <2>3 DEF ResumeCombat
  <2>4. QED
    BY <2>2, <2>3
<1>12. ASSUME NEW r \in Replicas, Deliver(r)
       PROVE  BusShape'
  <2>1. PICK m \in Messages : m = Head(bus[r]) /\ m.n <= match.phase
    BY <1>12 DEF Deliver, Shape, BusShape
  <2>2. subs[r] \union registered[r] \in SUBSET Sockets
    BY DEF Shape, ServerShape
  <2>3. PICK S \in SUBSET Sockets : view' = Seen(S, m)
    BY <1>12, <2>1, <2>2 DEF Deliver, Subscribed, Attached, Shape, ServerShape
  <2>4. UNCHANGED match /\ bus[r] # <<>> /\ bus' = [bus EXCEPT ![r] = Tail(bus[r])]
    BY <1>12 DEF Deliver, player
  <2>5. QED
    BY <1>9, <2>1, <2>3, <2>4
<1>13. ASSUME NEW r \in Replicas, Lose(r)
       PROVE  BusShape'
  <2>1. bus[r] # <<>> /\ bus' = [bus EXCEPT ![r] = Tail(bus[r])] /\ UNCHANGED <<match, view>>
    BY <1>13 DEF Lose, player
  <2>2. /\ bus' \in [Replicas -> Seq(Messages)]
        /\ \A x \in Replicas : \A i \in 1 .. Len(bus'[x]) : bus'[x][i].n <= match'.phase
    BY <2>1, HandledIs
  <2>3. QED
    BY <2>1, <2>2 DEF Shape, BusShape
<1>14. CASE UNCHANGED vars
  BY <1>0, <1>1, <1>14 DEF vars
<1>15. QED
  BY <1>2, <1>3, <1>4, <1>5, <1>7, <1>8, <1>10, <1>11, <1>12, <1>13, <1>14 DEF Next
-----------------------------------------------------------------------------
(* The registers of the gateway and of the bridge. *)

Held(s) == socket[s].stage \in {"open", "cut"}

\* A connection is registered exactly as long as it is held, with its replica;
\* a replica knows one connection per player, a player has one that is open.
Registry ==
    /\ \A s \in Sockets : Held(s) =>
          /\ socket[s].user \in Users /\ socket[s].replica \in Replicas
          /\ s \in registered[socket[s].replica] /\ ~socket[s].superseded
    /\ \A r \in Replicas : \A s \in registered[r] : Held(s) /\ socket[s].replica = r
    /\ \A r \in Replicas : \A s, x \in registered[r] :
          socket[s].user = socket[x].user => s = x
    /\ \A s, x \in Sockets :
          Open(s) /\ Open(x) /\ socket[s].user = socket[x].user => s = x
    /\ \A s \in Sockets : socket[s].stage = "unused" => resume[s].at = "none"

\* A subscription is the connection's own replica's; a resume that is past its
\* subscription still has it, and a disconnection will undo it.
Subscriptions ==
    /\ \A r \in Replicas : \A s \in subs[r] :
          socket[s].stage # "unused" /\ socket[s].replica = r
    /\ \A s \in recorded : Held(s)
    /\ \A s \in Sockets : resume[s].at \in {"read", "emit", "combat"} =>
          s \in recorded /\ s \in subs[socket[s].replica]

ConnInv == Registry /\ Subscriptions

LEMMA ConnInvStays ==
  ASSUME Shape, ConnInv, UNCHANGED <<socket, registered, recorded>>,
         \A r \in Replicas : subs[r] \subseteq subs'[r] /\ subs'[r] \subseteq subs[r] \union registered[r],
         \A s \in Sockets : resume'[s].at \in {"read", "emit", "combat"} =>
             resume[s].at \in {"read", "emit", "combat"},
         \A s \in Sockets : resume'[s].at # "none" => resume[s].at # "none"
  PROVE  ConnInv'
<1>1. Registry'
  BY DEF ConnInv, Registry, Held, Open
<1>2. \A r \in Replicas : \A s \in subs'[r] : socket'[s].stage # "unused" /\ socket'[s].replica = r
  BY DEF ConnInv, Registry, Subscriptions, Held
<1>3. \A s \in recorded' : Held(s)'
  BY DEF ConnInv, Subscriptions, Held
<1>4. ASSUME NEW s \in Sockets, resume'[s].at \in {"read", "emit", "combat"}
      PROVE  s \in recorded' /\ s \in subs'[socket'[s].replica]
  <2>1. s \in recorded /\ s \in subs[socket[s].replica]
    BY <1>4 DEF ConnInv, Subscriptions
  <2>2. socket[s].replica \in Replicas
    BY <2>1 DEF ConnInv, Registry, Subscriptions
  <2>3. QED
    BY <2>1, <2>2
<1>5. QED
  BY <1>1, <1>2, <1>3, <1>4 DEF ConnInv, Subscriptions

LEMMA ConnInvConnect ==
  ASSUME Shape, ConnInv, NEW u \in Users, NEW r \in Replicas, NEW s \in Sockets, Connect(u, r, s)
  PROVE  ConnInv'
<1> DEFINE old == Previous(u, r)
<1>0. /\ socket[s].stage = "unused" /\ \A x \in SocketsOf(u) : ~Open(x)
      /\ socket' = Superseding(u, r, s)
      /\ registered' = Registered(r, old, {s})
      /\ subs' = Unsubscribed(r, old) /\ recorded' = recorded \ old
      /\ resume' = [Silenced(old) EXCEPT ![s].at = "find"]
  BY DEF Connect
<1>1. ServerShape
  BY DEF Shape
<1>2. /\ socket'[s] = [user |-> u, replica |-> r, stage |-> "open", superseded |-> FALSE]
      /\ \A x \in Sockets \ {s} : /\ socket'[x].user = socket[x].user
                                 /\ socket'[x].replica = socket[x].replica
      /\ \A x \in old \ {s} : socket'[x].stage = "closed"
      /\ \A x \in Sockets \ old : x # s => socket'[x] = socket[x]
  BY <1>0, <1>1, SupersedingIs
<1>3. old \subseteq registered[r] /\ \A x \in registered[r] : socket[x].user = u <=> x \in old
  BY <1>1 DEF Previous, SocketsOf, ServerShape
<1>4. ~Held(s) /\ s \notin old /\ s \notin recorded /\ \A x \in Replicas : s \notin registered[x] /\ s \notin subs[x]
  BY <1>0, <1>3 DEF ConnInv, Registry, Subscriptions, Held
<1>5. /\ registered'[r] = (registered[r] \ old) \union {s}
      /\ \A x \in Replicas \ {r} : registered'[x] = registered[x]
  BY <1>0, <1>1 DEF Registered, ServerShape
<1>6. /\ subs'[r] = subs[r] \ (old \intersect recorded)
      /\ \A x \in Replicas \ {r} : subs'[x] = subs[x]
  BY <1>0, <1>1 DEF Unsubscribed, ServerShape
<1>7. /\ resume'[s].at = "find"
      /\ \A x \in Sockets \ {s} : resume'[x] = IF x \in old /\ resume[x].at # "find" THEN Idle ELSE resume[x]
  BY <1>0, <1>1 DEF Silenced, ServerShape, Resumes, Idle
<1>8. ASSUME NEW x \in Sockets, x # s
      PROVE  Held(x)' <=> Held(x) /\ x \notin old
  BY <1>2, <1>8 DEF Held
<1>9. Held(s)'
  BY <1>2 DEF Held
<1>10. \A x \in Sockets : Held(x)' =>
          /\ socket'[x].user \in Users /\ socket'[x].replica \in Replicas
          /\ x \in registered'[socket'[x].replica] /\ ~socket'[x].superseded
  <2> SUFFICES ASSUME NEW x \in Sockets, x # s, Held(x), x \notin old
               PROVE  /\ socket'[x].user \in Users /\ socket'[x].replica \in Replicas
                      /\ x \in registered'[socket'[x].replica] /\ ~socket'[x].superseded
    BY <1>2, <1>5, <1>8, <1>9
  <2>1. socket'[x] = socket[x]
    BY <1>2
  <2>2. /\ socket[x].user \in Users /\ socket[x].replica \in Replicas
        /\ x \in registered[socket[x].replica] /\ ~socket[x].superseded
    BY DEF ConnInv, Registry
  <2>3. QED
    BY <1>5, <2>1, <2>2
<1>11. \A y \in Replicas : \A x \in registered'[y] : Held(x)' /\ socket'[x].replica = y
  <2> SUFFICES ASSUME NEW y \in Replicas, NEW x \in registered'[y], x # s
               PROVE  Held(x)' /\ socket'[x].replica = y
    BY <1>2, <1>4, <1>5, <1>9
  <2>1. x \in registered[y] /\ (y = r => x \notin old) /\ x \in Sockets
    BY <1>1, <1>5 DEF ServerShape
  <2>2. Held(x) /\ socket[x].replica = y
    BY <2>1 DEF ConnInv, Registry
  <2>3. x \notin old
    BY <1>3, <2>1, <2>2 DEF ConnInv, Registry
  <2>4. QED
    BY <1>2, <1>8, <2>1, <2>2, <2>3
<1>12. \A y \in Replicas : \A z, x \in registered'[y] : socket'[z].user = socket'[x].user => z = x
  <2> SUFFICES ASSUME NEW y \in Replicas, NEW z \in registered'[y], NEW x \in registered'[y],
                      socket'[z].user = socket'[x].user, x # s
               PROVE  z = x
    OBVIOUS
  <2>1. x \in registered[y] /\ (y = r => x \notin old) /\ x \in Sockets /\ z \in Sockets
        /\ socket'[x].user = socket[x].user
    BY <1>1, <1>2, <1>5 DEF ServerShape
  <2>2. CASE z = s
    <3>1. y = r /\ socket[x].user = u
      BY <1>2, <1>4, <1>5, <2>1, <2>2
    <3>2. QED
      BY <1>3, <2>1, <3>1
  <2>3. CASE z # s
    <3>1. z \in registered[y] /\ socket'[z].user = socket[z].user
      BY <1>2, <1>5, <2>1, <2>3
    <3>2. QED
      BY <2>1, <3>1 DEF ConnInv, Registry
  <2>4. QED
    BY <2>2, <2>3
<1>13. \A z, x \in Sockets : Open(z)' /\ Open(x)' /\ socket'[z].user = socket'[x].user => z = x
  <2>1. ASSUME NEW x \in Sockets, x # s, Open(x)'
        PROVE  Open(x) /\ socket'[x].user = socket[x].user /\ socket[x].user # u
    <3>1. Open(x) /\ socket'[x].user = socket[x].user
      BY <1>2, <2>1 DEF Open
    <3>2. QED
      BY <1>0, <3>1 DEF SocketsOf
  <2>2. socket'[s].user = u
    BY <1>2
  <2>3. QED
    BY <2>1, <2>2 DEF ConnInv, Registry
<1>14. \A x \in Sockets : socket'[x].stage = "unused" => resume'[x].at = "none"
  <2> SUFFICES ASSUME NEW x \in Sockets, x # s, socket'[x].stage = "unused"
               PROVE  resume'[x].at = "none"
    BY <1>2
  <2>1. socket[x].stage = "unused" /\ x \notin old
    BY <1>2
  <2>2. QED
    BY <1>7, <2>1 DEF ConnInv, Registry
<1>15. Registry'
  BY <1>10, <1>11, <1>12, <1>13, <1>14 DEF Registry
<1>16. \A y \in Replicas : \A x \in subs'[y] : socket'[x].stage # "unused" /\ socket'[x].replica = y
  <2> SUFFICES ASSUME NEW y \in Replicas, NEW x \in subs'[y]
               PROVE  socket'[x].stage # "unused" /\ socket'[x].replica = y
    OBVIOUS
  <2>1. x \in subs[y] /\ x \in Sockets /\ x # s
    BY <1>1, <1>4, <1>6 DEF ServerShape
  <2>2. socket[x].stage # "unused" /\ socket[x].replica = y
    BY <2>1 DEF ConnInv, Subscriptions
  <2>3. QED
    BY <1>2, <2>1, <2>2
<1>17. \A x \in recorded' : Held(x)'
  BY <1>0, <1>1, <1>4, <1>8 DEF ConnInv, Subscriptions, ServerShape
<1>18. ASSUME NEW x \in Sockets, resume'[x].at \in {"read", "emit", "combat"}
       PROVE  x \in recorded' /\ x \in subs'[socket'[x].replica]
  <2>1. x # s /\ x \notin old /\ resume[x].at \in {"read", "emit", "combat"}
    BY <1>7, <1>18 DEF Idle
  <2>2. x \in recorded /\ x \in subs[socket[x].replica] /\ socket'[x] = socket[x]
    BY <1>2, <2>1 DEF ConnInv, Subscriptions
  <2>3. socket[x].replica \in Replicas
    BY <2>2 DEF ConnInv, Registry, Subscriptions
  <2>4. QED
    BY <1>0, <1>6, <2>1, <2>2, <2>3
<1>19. QED
  BY <1>15, <1>16, <1>17, <1>18 DEF ConnInv, Subscriptions
LEMMA ConnInvDisconnect ==
  ASSUME Shape, ConnInv, NEW s \in Sockets, Disconnect(s)
  PROVE  ConnInv'
<1> DEFINE r == socket[s].replica
<1>0. /\ socket[s].stage = "cut"
      /\ socket' = [socket EXCEPT ![s].stage = "closed"]
      /\ registered' = Registered(r, {s}, {})
      /\ subs' = Unsubscribed(r, {s}) /\ recorded' = recorded \ {s}
      /\ resume' = Silenced({s})
  BY DEF Disconnect
<1>1. ServerShape /\ r \in Replicas /\ s \in registered[r]
  BY <1>0 DEF Shape, ConnInv, Registry, Held
<1>2. /\ socket'[s].stage = "closed"
      /\ \A x \in Sockets : /\ socket'[x].user = socket[x].user
                            /\ socket'[x].replica = socket[x].replica
      /\ \A x \in Sockets \ {s} : socket'[x] = socket[x]
  BY <1>0, <1>1, StageType
<1>3. /\ registered'[r] = registered[r] \ {s} /\ subs'[r] = subs[r] \ ({s} \intersect recorded)
      /\ \A x \in Replicas \ {r} : registered'[x] = registered[x] /\ subs'[x] = subs[x]
  BY <1>0, <1>1 DEF Registered, Unsubscribed, ServerShape
<1>4. \A x \in Sockets : resume'[x] = IF x = s /\ resume[x].at # "find" THEN Idle ELSE resume[x]
  BY <1>0 DEF Silenced
<1>5. \A x \in Sockets : Held(x)' <=> Held(x) /\ x # s
  BY <1>2 DEF Held
<1>6. Registry'
  <2>1. \A x \in Sockets : Held(x)' =>
          /\ socket'[x].user \in Users /\ socket'[x].replica \in Replicas
          /\ x \in registered'[socket'[x].replica] /\ ~socket'[x].superseded
    BY <1>2, <1>3, <1>5 DEF ConnInv, Registry
  <2>2. \A y \in Replicas : \A x \in registered'[y] : Held(x)' /\ socket'[x].replica = y
    <3> SUFFICES ASSUME NEW y \in Replicas, NEW x \in registered'[y]
                 PROVE  Held(x)' /\ socket'[x].replica = y
      OBVIOUS
    <3>1. x \in registered[y] /\ x \in Sockets /\ (y = r => x # s)
      BY <1>1, <1>3 DEF ServerShape
    <3>2. Held(x) /\ socket[x].replica = y
      BY <3>1 DEF ConnInv, Registry
    <3>3. QED
      BY <1>2, <1>5, <3>1, <3>2
  <2>3. \A y \in Replicas : \A z, x \in registered'[y] : socket'[z].user = socket'[x].user => z = x
    <3> SUFFICES ASSUME NEW y \in Replicas, NEW z \in registered'[y], NEW x \in registered'[y],
                        socket'[z].user = socket'[x].user
                 PROVE  z = x
      OBVIOUS
    <3>1. x \in registered[y] /\ z \in registered[y] /\ x \in Sockets /\ z \in Sockets
      BY <1>1, <1>3 DEF ServerShape
    <3>2. QED
      BY <1>2, <3>1 DEF ConnInv, Registry
  <2>4. \A z, x \in Sockets : Open(z)' /\ Open(x)' /\ socket'[z].user = socket'[x].user => z = x
    BY <1>2 DEF ConnInv, Registry, Open
  <2>5. \A x \in Sockets : socket'[x].stage = "unused" => resume'[x].at = "none"
    BY <1>2, <1>4 DEF ConnInv, Registry
  <2>6. QED
    BY <2>1, <2>2, <2>3, <2>4, <2>5 DEF Registry
<1>7. \A y \in Replicas : \A x \in subs'[y] : socket'[x].stage # "unused" /\ socket'[x].replica = y
  <2> SUFFICES ASSUME NEW y \in Replicas, NEW x \in subs'[y]
               PROVE  socket'[x].stage # "unused" /\ socket'[x].replica = y
    OBVIOUS
  <2>1. x \in subs[y] /\ x \in Sockets
    BY <1>1, <1>3 DEF ServerShape
  <2>2. QED
    BY <1>2, <2>1 DEF ConnInv, Subscriptions
<1>8. \A x \in recorded' : Held(x)'
  BY <1>0, <1>1, <1>5 DEF ConnInv, Subscriptions, ServerShape
<1>9. ASSUME NEW x \in Sockets, resume'[x].at \in {"read", "emit", "combat"}
      PROVE  x \in recorded' /\ x \in subs'[socket'[x].replica]
  <2>1. x # s /\ resume[x].at \in {"read", "emit", "combat"}
    BY <1>4, <1>9 DEF Idle
  <2>2. x \in recorded /\ x \in subs[socket[x].replica] /\ socket'[x].replica = socket[x].replica
    BY <1>2, <2>1 DEF ConnInv, Subscriptions
  <2>3. socket[x].replica \in Replicas
    BY <2>2 DEF ConnInv, Registry, Subscriptions
  <2>4. QED
    BY <1>0, <1>3, <2>1, <2>2, <2>3
<1>10. QED
  BY <1>6, <1>7, <1>8, <1>9 DEF ConnInv, Subscriptions

LEMMA ConnInvRefuseCut ==
  ASSUME Shape, ConnInv, NEW s \in Sockets, Refuse(s) \/ Cut(s)
  PROVE  ConnInv'
<1>0. PICK t \in {"closed", "cut"} :
         /\ socket' = [socket EXCEPT ![s].stage = t]
         /\ t = "cut" => Held(s)
         /\ t = "closed" => ~Held(s)
  BY DEF Refuse, Cut, Open, Held
<1>1. ServerShape
  BY DEF Shape
<1>2. /\ socket'[s].stage = t
      /\ \A x \in Sockets : /\ socket'[x].user = socket[x].user
                            /\ socket'[x].replica = socket[x].replica
                            /\ socket'[x].superseded = socket[x].superseded
      /\ \A x \in Sockets \ {s} : socket'[x] = socket[x]
  BY <1>0, <1>1, StageType
<1>3. UNCHANGED <<registered, subs, recorded, resume>>
  BY DEF Refuse, Cut
<1>4. \A x \in Sockets : (Held(x)' <=> Held(x)) /\ (Open(x)' => Open(x))
                         /\ (socket'[x].stage = "unused" => socket[x].stage = "unused")
  BY <1>0, <1>2 DEF Held, Open
<1>5. Registry'
  <2>1. \A y \in Replicas : registered[y] \subseteq Sockets
    BY <1>1 DEF ServerShape
  <2>2. QED
    BY <1>2, <1>3, <1>4, <2>1 DEF ConnInv, Registry
<1>6. Subscriptions'
  <2>1. recorded \subseteq Sockets /\ \A y \in Replicas : subs[y] \subseteq Sockets
    BY <1>1 DEF ServerShape
  <2>2. QED
    BY <1>2, <1>3, <1>4, <2>1 DEF ConnInv, Subscriptions
<1>7. QED
  BY <1>5, <1>6 DEF ConnInv

LEMMA ConnInvFind ==
  ASSUME Shape, ConnInv, NEW s \in Sockets, ResumeFind(s)
  PROVE  ConnInv'
<1>1. UNCHANGED <<socket, registered>> /\ resume[s].at = "find"
  BY DEF ResumeFind
<1>2. CASE Active /\ StillConnected(s)
  <2>1. /\ subs' = Subscribed(socket[s].replica, {s}) /\ recorded' = recorded \union {s}
        /\ resume' = [resume EXCEPT ![s].at = "read"]
    BY <1>2 DEF ResumeFind
  <2>2. Held(s) /\ socket[s].replica \in Replicas
    <3>1. socket[s].stage # "unused"
      BY <1>1 DEF ConnInv, Registry
    <3>2. s \in registered[socket[s].replica]
      BY <1>2 DEF StillConnected
    <3>3. socket[s].replica \in Replicas
      BY <1>1 DEF Shape, ServerShape
    <3>4. QED
      BY <3>2, <3>3 DEF ConnInv, Registry
  <2>3. Registry'
    BY <1>1, <2>1, <2>2 DEF ConnInv, Registry, Held, Open
  <2>4. /\ subs'[socket[s].replica] = subs[socket[s].replica] \union {s}
        /\ \A x \in Replicas \ {socket[s].replica} : subs'[x] = subs[x]
    BY <2>1, <2>2 DEF Subscribed, Shape, ServerShape
  <2>5. \A x \in Sockets \ {s} : resume'[x] = resume[x]
    BY <2>1 DEF Shape, ServerShape
  <2>6. \A y \in Replicas : \A x \in subs'[y] : socket'[x].stage # "unused" /\ socket'[x].replica = y
    BY <1>1, <2>2, <2>4 DEF ConnInv, Subscriptions, Held
  <2>7. \A x \in recorded' : Held(x)'
    BY <1>1, <2>1, <2>2 DEF ConnInv, Subscriptions, Held
  <2>8. ASSUME NEW x \in Sockets, resume'[x].at \in {"read", "emit", "combat"}
        PROVE  x \in recorded' /\ x \in subs'[socket'[x].replica]
    <3>1. CASE x = s
      BY <1>1, <2>1, <2>4, <3>1
    <3>2. CASE x # s
      <4>1. x \in recorded /\ x \in subs[socket[x].replica]
        BY <2>5, <2>8, <3>2 DEF ConnInv, Subscriptions
      <4>2. socket[x].replica \in Replicas
        BY <4>1 DEF ConnInv, Registry, Subscriptions
      <4>3. QED
        BY <1>1, <2>1, <2>4, <4>1, <4>2
    <3>3. QED
      BY <3>1, <3>2
  <2>9. QED
    BY <2>3, <2>6, <2>7, <2>8 DEF ConnInv, Subscriptions
<1>3. CASE ~(Active /\ StillConnected(s))
  <2>1. resume' = [resume EXCEPT ![s] = Idle] /\ UNCHANGED <<subs, recorded>>
    BY <1>3 DEF ResumeFind
  <2>2. \A x \in Sockets : resume'[x] = resume[x] \/ resume'[x].at = "none"
    BY <2>1 DEF Idle, Shape, ServerShape
  <2>3. \A x \in Sockets : /\ resume'[x].at # "none" => resume'[x] = resume[x]
    BY <2>2
  <2>4. QED
    BY <1>1, <2>1, <2>3, ConnInvStays
<1>4. QED
  BY <1>2, <1>3

LEMMA ConnInvStep ==
  ASSUME Shape, ConnInv, [Next]_vars
  PROVE  ConnInv'
<1>1. CASE UNCHANGED <<socket, registered, subs, recorded, resume>>
  BY <1>1, ConnInvStays
<1>2. ASSUME NEW s \in Sockets, ResumeRead(s) \/ ResumeEmit(s) \/ ResumeCombat(s) \/ ResumeFails(s)
      PROVE  ConnInv'
  <2>1. UNCHANGED <<socket, registered, subs, recorded>>
    BY <1>2 DEF ResumeRead, ResumeEmit, ResumeCombat, ResumeFails, conn
  <2>2. \A x \in Sockets \ {s} : resume'[x] = resume[x]
    BY <1>2 DEF ResumeRead, ResumeEmit, ResumeCombat, ResumeFails, Shape, ServerShape
  <2>3. resume'[s].at = "none" \/ resume[s].at \in {"read", "emit"}
    BY <1>2 DEF ResumeRead, ResumeEmit, ResumeCombat, ResumeFails, Idle, Shape, ServerShape
  <2>4. QED
    BY <2>1, <2>2, <2>3, ConnInvStays
<1>3. ASSUME NEW r \in Replicas, Deliver(r)
      PROVE  ConnInv'
  <2>1. UNCHANGED <<socket, registered, recorded, resume>>
    BY <1>3 DEF Deliver, conn
  <2>2. \A x \in Replicas : subs[x] \subseteq subs'[x] /\ subs'[x] \subseteq subs[x] \union registered[x]
    BY <1>3 DEF Deliver, Subscribed, Attached, Shape, ServerShape
  <2>3. QED
    BY <2>1, <2>2, ConnInvStays
<1>4. ASSUME NEW r \in Replicas, Lose(r)
      PROVE  ConnInv'
  BY <1>1, <1>4 DEF Lose, conn
<1>5. ASSUME NEW s \in Sockets, Forfeit(s)
      PROVE  ConnInv'
  BY <1>1, <1>5 DEF Forfeit, conn
<1>6. CASE CreateRow \/ ChangePhase \/ RunBattle \/ Publish \/ Finish
  BY <1>1, <1>6 DEF CreateRow, ChangePhase, RunBattle, Publish, Finish, conn
<1>7. ASSUME NEW u \in Users, ActRead(u) \/ ActCommit(u) \/ ActPublish(u)
      PROVE  ConnInv'
  BY <1>1, <1>7 DEF ActRead, ActCommit, ActPublish, conn
<1>8. CASE UNCHANGED vars
  BY <1>1, <1>8 DEF vars
<1>9. QED
  BY <1>2, <1>3, <1>4, <1>5, <1>6, <1>7, <1>8, ConnInvConnect, ConnInvDisconnect,
     ConnInvRefuseCut, ConnInvFind DEF Next
-----------------------------------------------------------------------------
(* What is on its way to a replica. *)

NoneOf(q, t) == \A i \in 1 .. Len(q) : q[i].type # t

\* The last publication of that type is number n.
LastOf(q, t, n) ==
    \E i \in 1 .. Len(q) :
        q[i].type = t /\ q[i].n = n /\ \A j \in i + 1 .. Len(q) : q[j].type # t

\* A phase event, which attaches the connected sockets, is on its way ...
Attaches(q) == \E k \in 1 .. Len(q) : q[k].type = "phase"

\* ... and comes before the last battle, which is number n.
AttachesFirst(q, n) ==
    \E k \in 1 .. Len(q) : q[k].type = "phase" /\ \E i \in k + 1 .. Len(q) :
        /\ q[i].type = "combat" /\ q[i].n = n
        /\ \A j \in i + 1 .. Len(q) : q[j].type # "combat"

LEMMA QueueAppend ==
  ASSUME NEW q \in Seq(Messages), NEW m \in Messages, NEW p, p = Append(q, m)
  PROVE  /\ \A t : m.type # t => /\ NoneOf(q, t) => NoneOf(p, t)
                                 /\ \A n : LastOf(q, t, n) => LastOf(p, t, n)
         /\ LastOf(p, m.type, m.n)
         /\ Attaches(q) \/ m.type = "phase" => Attaches(p)
         /\ m.type # "combat" => \A n : AttachesFirst(q, n) => AttachesFirst(p, n)
         /\ m.type = "combat" /\ Attaches(q) => AttachesFirst(p, m.n)
<1>1. /\ Len(q) \in Nat /\ Len(p) = Len(q) + 1 /\ p[Len(q) + 1] = m
      /\ \A i \in 1 .. Len(q) : p[i] = q[i]
  OBVIOUS
<1>2. \A i \in 1 .. Len(p) : i \in 1 .. Len(q) \/ i = Len(q) + 1
  BY <1>1
<1>3. ASSUME NEW t, m.type # t
      PROVE  /\ NoneOf(q, t) => NoneOf(p, t)
             /\ \A n : LastOf(q, t, n) => LastOf(p, t, n)
  <2>1. NoneOf(q, t) => NoneOf(p, t)
    BY <1>1, <1>2, <1>3 DEF NoneOf
  <2>2. ASSUME NEW n, LastOf(q, t, n)
        PROVE  LastOf(p, t, n)
    <3>1. PICK i \in 1 .. Len(q) :
             q[i].type = t /\ q[i].n = n /\ \A j \in i + 1 .. Len(q) : q[j].type # t
      BY <2>2 DEF LastOf
    <3>2. i \in 1 .. Len(p) /\ p[i].type = t /\ p[i].n = n
      BY <1>1, <3>1
    <3>3. \A j \in i + 1 .. Len(p) : p[j].type # t
      BY <1>1, <1>3, <3>1
    <3>4. QED
      BY <3>2, <3>3 DEF LastOf
  <2>3. QED
    BY <2>1, <2>2
<1>4. LastOf(p, m.type, m.n)
  BY <1>1 DEF LastOf
<1>5. Attaches(q) \/ m.type = "phase" => Attaches(p)
  BY <1>1 DEF Attaches
<1>6. ASSUME m.type # "combat", NEW n, AttachesFirst(q, n)
      PROVE  AttachesFirst(p, n)
  <2>0. PICK k \in 1 .. Len(q) : q[k].type = "phase" /\ \E i \in k + 1 .. Len(q) :
           /\ q[i].type = "combat" /\ q[i].n = n
           /\ \A j \in i + 1 .. Len(q) : q[j].type # "combat"
    BY <1>6 DEF AttachesFirst
  <2>1. PICK i \in k + 1 .. Len(q) :
           /\ q[k].type = "phase" /\ q[i].type = "combat" /\ q[i].n = n
           /\ \A j \in i + 1 .. Len(q) : q[j].type # "combat"
    BY <2>0
  <2>2. /\ k \in 1 .. Len(p) /\ i \in k + 1 .. Len(p) /\ i \in 1 .. Len(q)
        /\ p[k].type = "phase" /\ p[i].type = "combat" /\ p[i].n = n
    BY <1>1, <2>1
  <2>3. \A j \in i + 1 .. Len(p) : p[j].type # "combat"
    BY <1>1, <1>6, <2>1
  <2>4. QED
    BY <2>2, <2>3 DEF AttachesFirst
<1>7. ASSUME m.type = "combat", Attaches(q)
      PROVE  AttachesFirst(p, m.n)
  <2>1. PICK k \in 1 .. Len(q) : q[k].type = "phase"
    BY <1>7 DEF Attaches
  <2>2. /\ k \in 1 .. Len(p) /\ p[k].type = "phase"
        /\ Len(q) + 1 \in k + 1 .. Len(p) /\ Len(q) + 1 + 1 > Len(p)
    BY <1>1, <2>1
  <2>3. \A j \in Len(q) + 1 + 1 .. Len(p) : p[j].type # "combat"
    BY <1>1
  <2>4. QED
    BY <1>1, <1>7, <2>2, <2>3 DEF AttachesFirst
<1>8. QED
  BY <1>3, <1>4, <1>5, <1>6, <1>7

LEMMA QueueTail ==
  ASSUME NEW q \in Seq(Messages), q # <<>>, NEW p, p = Tail(q), NEW m, m = Head(q)
  PROVE  /\ \A t : NoneOf(q, t) => NoneOf(p, t) /\ m.type # t
         /\ \A t, n : LastOf(q, t, n) =>
               LastOf(p, t, n) \/ (m.type = t /\ m.n = n /\ NoneOf(p, t))
         /\ Attaches(q) => m.type = "phase" \/ Attaches(p)
         /\ \A n : AttachesFirst(q, n) =>
               AttachesFirst(p, n) \/ (m.type = "phase" /\ LastOf(p, "combat", n))
<1>1. /\ Len(q) \in Nat \ {0} /\ Len(p) = Len(q) - 1 /\ m = q[1]
      /\ \A i \in 1 .. Len(q) - 1 : p[i] = q[i + 1]
  OBVIOUS
<1>2. \A i \in 2 .. Len(q) : i - 1 \in 1 .. Len(p) /\ p[i - 1] = q[i]
  BY <1>1
<1>3. \A t : NoneOf(q, t) => NoneOf(p, t) /\ m.type # t
  BY <1>1 DEF NoneOf
<1>4. ASSUME NEW i \in 1 .. Len(q), NEW t, NEW n, q[i].type = t, q[i].n = n,
             \A j \in i + 1 .. Len(q) : q[j].type # t
      PROVE  IF i = 1 THEN m.type = t /\ m.n = n /\ NoneOf(p, t)
             ELSE /\ i - 1 \in 1 .. Len(p) /\ p[i - 1].type = t /\ p[i - 1].n = n
                  /\ \A j \in i - 1 + 1 .. Len(p) : p[j].type # t
  <2>1. CASE i = 1
    BY <1>1, <1>4, <2>1 DEF NoneOf
  <2>2. CASE i # 1
    <3>1. i - 1 \in 1 .. Len(p) /\ p[i - 1] = q[i]
      BY <1>2, <2>2
    <3>2. ASSUME NEW j \in i - 1 + 1 .. Len(p)
          PROVE  p[j].type # t
      <4>1. j \in 1 .. Len(q) - 1 /\ j + 1 \in i + 1 .. Len(q)
        BY <1>1, <3>2
      <4>2. QED
        BY <1>1, <1>4, <4>1
    <3>3. QED
      BY <1>4, <2>2, <3>1, <3>2
  <2>3. QED
    BY <2>1, <2>2
<1>5. ASSUME NEW t, NEW n, LastOf(q, t, n)
      PROVE  LastOf(p, t, n) \/ (m.type = t /\ m.n = n /\ NoneOf(p, t))
  <2>1. PICK i \in 1 .. Len(q) :
           q[i].type = t /\ q[i].n = n /\ \A j \in i + 1 .. Len(q) : q[j].type # t
    BY <1>5 DEF LastOf
  <2>2. CASE i = 1
    BY <1>4, <2>1, <2>2
  <2>3. CASE i # 1
    <3>1. /\ i - 1 \in 1 .. Len(p) /\ p[i - 1].type = t /\ p[i - 1].n = n
          /\ \A j \in i - 1 + 1 .. Len(p) : p[j].type # t
      BY <1>4, <2>1, <2>3
    <3>2. QED
      BY <3>1 DEF LastOf
  <2>4. QED
    BY <2>2, <2>3
<1>6. ASSUME Attaches(q)
      PROVE  m.type = "phase" \/ Attaches(p)
  <2>1. PICK k \in 1 .. Len(q) : q[k].type = "phase"
    BY <1>6 DEF Attaches
  <2>2. k = 1 \/ k \in 2 .. Len(q)
    BY <1>1
  <2>3. QED
    BY <1>1, <1>2, <2>1, <2>2 DEF Attaches
<1>7. ASSUME NEW n, AttachesFirst(q, n)
      PROVE  AttachesFirst(p, n) \/ (m.type = "phase" /\ LastOf(p, "combat", n))
  <2>0. PICK k \in 1 .. Len(q) : q[k].type = "phase" /\ \E i \in k + 1 .. Len(q) :
           /\ q[i].type = "combat" /\ q[i].n = n
           /\ \A j \in i + 1 .. Len(q) : q[j].type # "combat"
    BY <1>7 DEF AttachesFirst
  <2>1. PICK i \in k + 1 .. Len(q) :
           /\ q[k].type = "phase" /\ q[i].type = "combat" /\ q[i].n = n
           /\ \A j \in i + 1 .. Len(q) : q[j].type # "combat"
    BY <2>0
  <2>2. i \in 1 .. Len(q) /\ i # 1
    BY <1>1, <2>1
  <2>3. /\ i - 1 \in 1 .. Len(p) /\ p[i - 1].type = "combat" /\ p[i - 1].n = n
        /\ \A j \in i - 1 + 1 .. Len(p) : p[j].type # "combat"
    BY <1>4, <2>1, <2>2
  <2>4. CASE k = 1
    BY <1>1, <2>1, <2>3, <2>4 DEF LastOf
  <2>5. CASE k # 1
    <3>1. k - 1 \in 1 .. Len(p) /\ p[k - 1] = q[k] /\ i - 1 \in k - 1 + 1 .. Len(p)
      BY <1>1, <1>2, <2>1, <2>3, <2>5
    <3>2. QED
      BY <2>1, <2>3, <3>1 DEF AttachesFirst
  <2>6. QED
    BY <2>4, <2>5
<1>8. QED
  BY <1>3, <1>5, <1>6, <1>7
-----------------------------------------------------------------------------
(* What a connected device is still owed. *)

Sending(t) == outbox # <<>> /\ outbox[1].type = t

Watched(s) == Open(s) /\ s \notin blind

\* The phase has been shown, or its event is on its way.
PhaseDue(s) ==
    \/ Sending("phase")
    \/ LastOf(bus[socket[s].replica], "phase", match.phase)
    \/ /\ NoneOf(bus[socket[s].replica], "phase")
       /\ view[socket[s].user].phase = match.phase

PhaseInv == \A s \in Sockets : Watched(s) /\ since[s] < match.phase => PhaseDue(s)

\* In a live match a connection is subscribed, or about to be: by its resume, or
\* by a phase event.
SubscriptionDue(s) ==
    \/ resume[s].at # "none" \/ s \in subs[socket[s].replica]
    \/ Sending("phase") \/ Attaches(bus[socket[s].replica])

SubInv == match.stage = "live" => \A s \in Sockets : Watched(s) => SubscriptionDue(s)

\* The events of the battle have been shown, or are on their way and will find
\* the connection subscribed, or its resume will come to the cached result.
BattleDue(s) ==
    \/ resume[s].at # "none"
    \/ /\ s \in subs[socket[s].replica]
       /\ Sending("combat") \/ LastOf(bus[socket[s].replica], "combat", match.combat)
    \/ Sending("combat") /\ Attaches(bus[socket[s].replica])
    \/ AttachesFirst(bus[socket[s].replica], match.combat)
    \/ /\ ~Sending("combat") /\ NoneOf(bus[socket[s].replica], "combat")
       /\ view[socket[s].user].combat = match.combat

InBattle == match.stage = "live" /\ match.phase % 2 = 0 /\ match.combat = match.phase

BattleInv == InBattle => \A s \in Sockets : Watched(s) => BattleDue(s)

\* The last battle on its way is the last that was stored.
CombatOrder ==
    \A r \in Replicas : \/ Sending("combat") \/ NoneOf(bus[r], "combat")
                        \/ LastOf(bus[r], "combat", match.combat)

OrderInv == PhaseInv /\ SubInv /\ BattleInv /\ CombatOrder

FanoutInv == Shape /\ ConnInv /\ OrderInv

\* A step that leaves the publications and the phases alone owes nobody more.
LEMMA OrderStill ==
  ASSUME FanoutInv, UNCHANGED <<outbox, bus>>,
         match'.phase = match.phase, match'.combat = match.combat,
         match'.stage = "live" => match.stage = "live",
         \A u \in Users : view'[u].phase = view[u].phase /\ view'[u].combat = view[u].combat,
         \A s \in Sockets : Watched(s)' =>
            \/ resume'[s].at # "none" /\ since'[s] = match.phase
            \/ /\ Watched(s) /\ since'[s] = since[s]
               /\ socket'[s].user = socket[s].user /\ socket'[s].replica = socket[s].replica
               /\ s \in subs[socket[s].replica] => s \in subs'[socket[s].replica]
               /\ match'.stage = "live" /\ resume[s].at # "none" => resume'[s].at # "none"
  PROVE  OrderInv'
<1>0. match.phase \in Nat
  BY PhaseIsNat DEF FanoutInv
<1>1. Sending("phase")' = Sending("phase") /\ Sending("combat")' = Sending("combat")
  BY DEF Sending
<1>2. \A s \in Sockets : Watched(s) => socket[s].user \in Users /\ socket[s].replica \in Replicas
  BY DEF FanoutInv, ConnInv, Registry, Watched, Open, Held
<1>3. PhaseInv'
  <2> SUFFICES ASSUME NEW s \in Sockets, Watched(s)', since'[s] < match'.phase
               PROVE  PhaseDue(s)'
    BY DEF PhaseInv
  <2>1. Watched(s) /\ since'[s] = since[s] /\ socket'[s].user = socket[s].user
        /\ socket'[s].replica = socket[s].replica
    BY <1>0
  <2>2. PhaseDue(s)
    BY <2>1 DEF FanoutInv, OrderInv, PhaseInv
  <2>3. QED
    BY <1>1, <1>2, <2>1, <2>2 DEF PhaseDue
<1>4. SubInv'
  <2> SUFFICES ASSUME NEW s \in Sockets, Watched(s)', match'.stage = "live", resume'[s].at = "none"
               PROVE  SubscriptionDue(s)'
    BY DEF SubInv, SubscriptionDue
  <2>1. Watched(s) /\ socket'[s].replica = socket[s].replica /\ resume[s].at = "none"
        /\ s \in subs[socket[s].replica] => s \in subs'[socket[s].replica]
    OBVIOUS
  <2>2. SubscriptionDue(s)
    BY <2>1 DEF FanoutInv, OrderInv, SubInv
  <2>3. QED
    BY <1>1, <2>1, <2>2 DEF SubscriptionDue
<1>5. BattleInv'
  <2> SUFFICES ASSUME NEW s \in Sockets, Watched(s)', InBattle', resume'[s].at = "none"
               PROVE  BattleDue(s)'
    BY DEF BattleInv, BattleDue
  <2>1. /\ InBattle /\ Watched(s) /\ socket'[s].user = socket[s].user
        /\ socket'[s].replica = socket[s].replica /\ resume[s].at = "none"
        /\ s \in subs[socket[s].replica] => s \in subs'[socket[s].replica]
    BY DEF InBattle
  <2>2. BattleDue(s)
    BY <2>1 DEF FanoutInv, OrderInv, BattleInv
  <2>3. QED
    BY <1>1, <1>2, <2>1, <2>2 DEF BattleDue
<1>6. CombatOrder'
  BY <1>1 DEF FanoutInv, OrderInv, CombatOrder
<1>7. QED
  BY <1>3, <1>4, <1>5, <1>6 DEF OrderInv

LEMMA OrderChangePhase ==
  ASSUME FanoutInv, ChangePhase
  PROVE  OrderInv'
<1>0. match.phase \in Nat /\ match.combat \in Nat /\ match.combat <= match.phase
      /\ match \in [stage : {"none", "row", "live", "over"}, phase : 0 .. MaxPhase,
                    combat : Nat, roster : Rosters]
  BY PhaseIsNat DEF FanoutInv, Shape, MatchShape
<1>1. /\ outbox = <<>> /\ outbox' = <<PhaseEvent(match.phase + 1)>>
      /\ match' = [match EXCEPT !.stage = "live", !.phase = match.phase + 1]
      /\ UNCHANGED bus
  BY DEF ChangePhase
<1>2. match'.phase = match.phase + 1 /\ match'.combat = match.combat
  BY <1>0, <1>1
<1>3. ~Sending("combat") /\ Sending("phase")'
  <2>1. PhaseEvent(match.phase + 1).type = "phase"
    BY DEF PhaseEvent
  <2>2. QED
    BY <1>1, <2>1 DEF Sending
<1>4. PhaseInv' /\ SubInv'
  BY <1>3 DEF PhaseInv, SubInv, PhaseDue, SubscriptionDue
<1>5. BattleInv'
  BY <1>0, <1>2 DEF BattleInv, InBattle
<1>6. CombatOrder'
  BY <1>1, <1>2, <1>3 DEF FanoutInv, OrderInv, CombatOrder
<1>7. QED
  BY <1>4, <1>5, <1>6 DEF OrderInv

LEMMA OrderRunBattle ==
  ASSUME FanoutInv, RunBattle
  PROVE  OrderInv'
<1>0. match \in [stage : {"none", "row", "live", "over"}, phase : 0 .. MaxPhase,
                 combat : Nat, roster : Rosters]
  BY DEF FanoutInv, Shape, MatchShape
<1>1. /\ outbox = <<>> /\ outbox' = <<CombatEvents(match.phase)>> /\ match.stage = "live"
      /\ match' = [match EXCEPT !.combat = match.phase]
      /\ UNCHANGED <<conn, subs, resume, bus, view, blind>>
  BY DEF RunBattle
<1>2. match'.phase = match.phase
  BY <1>0, <1>1
<1>3. ~Sending("phase") /\ Sending("combat")'
  <2>1. CombatEvents(match.phase).type = "combat"
    BY DEF CombatEvents
  <2>2. QED
    BY <1>1, <2>1 DEF Sending
<1>4. UNCHANGED <<socket, since>> /\ \A s \in Sockets : Watched(s)' = Watched(s)
  BY <1>1 DEF conn, Watched, Open
<1>5. PhaseInv'
  BY <1>1, <1>2, <1>3, <1>4 DEF FanoutInv, OrderInv, PhaseInv, PhaseDue
<1>6. \A s \in Sockets : Watched(s) =>
         resume[s].at # "none" \/ s \in subs[socket[s].replica] \/ Attaches(bus[socket[s].replica])
  BY <1>1, <1>3 DEF FanoutInv, OrderInv, SubInv, SubscriptionDue
<1>7. SubInv'
  BY <1>1, <1>4, <1>6 DEF SubInv, SubscriptionDue
<1>8. BattleInv'
  BY <1>1, <1>3, <1>4, <1>6 DEF BattleInv, BattleDue
<1>9. CombatOrder'
  BY <1>3 DEF CombatOrder
<1>10. QED
  BY <1>5, <1>7, <1>8, <1>9 DEF OrderInv
LEMMA OrderPublish ==
  ASSUME FanoutInv, NEW m \in Messages, bus' = Published(m),
         \/ outbox = <<m>> /\ outbox' = <<>>
         \/ outbox' = outbox /\ m.type = "state",
         UNCHANGED <<socket, since, registered, subs, resume, match, view, blind>>
  PROVE  OrderInv'
<1>1. /\ \A r \in Replicas : bus[r] \in Seq(Messages)
      /\ \A r \in Replicas : bus'[r] = Append(bus[r], m)
  BY PublishedIs DEF FanoutInv, Shape, BusShape
<1>2. \A s \in Sockets : Watched(s)' = Watched(s)
  BY DEF Watched, Open
<1>3. \A s \in Sockets : Watched(s) => socket[s].user \in Users /\ socket[s].replica \in Replicas
  BY DEF FanoutInv, ConnInv, Registry, Watched, Open, Held
<1>4. ASSUME NEW t
      PROVE  Sending(t)' <=> Sending(t) /\ m.type = "state"
  <2>1. CASE outbox = <<m>> /\ outbox' = <<>>
    <3>1. m.type # "state"
      BY <2>1 DEF FanoutInv, Shape, OutboxShape
    <3>2. QED
      BY <2>1, <3>1 DEF Sending
  <2>2. CASE outbox' = outbox /\ m.type = "state"
    BY <2>2 DEF Sending
  <2>3. QED
    BY <2>1, <2>2
<1>5. /\ m.type \in {"phase", "combat", "state"}
      /\ m.type # "state" => Sending(m.type)
      /\ m.type = "phase"  => m.n = match.phase /\ ~Sending("combat")
      /\ m.type = "combat" => m.n = match.combat /\ ~Sending("phase")
  <2>1. m.type \in {"phase", "combat", "state"}
    BY DEF Messages
  <2>2. CASE outbox = <<m>>
    <3>1. PICK z \in Messages :
          /\ outbox = <<z>>
          /\ \/ z.type = "phase" /\ z.n = match.phase /\ match.combat < match.phase
             \/ z.type = "combat" /\ z.n = match.combat /\ match.combat = match.phase
      BY <2>2 DEF FanoutInv, Shape, OutboxShape
    <3>2. z = m /\ outbox[1] = m /\ outbox # <<>>
      BY <2>2, <3>1
    <3>3. QED
      BY <2>1, <3>1, <3>2 DEF Sending
  <2>3. QED
    BY <2>1, <2>2
<1>6. \A r \in Replicas :
         /\ \A t : m.type # t => /\ NoneOf(bus[r], t) => NoneOf(bus'[r], t)
                                 /\ \A n : LastOf(bus[r], t, n) => LastOf(bus'[r], t, n)
         /\ LastOf(bus'[r], m.type, m.n)
         /\ Attaches(bus[r]) \/ m.type = "phase" => Attaches(bus'[r])
         /\ m.type # "combat" => \A n : AttachesFirst(bus[r], n) => AttachesFirst(bus'[r], n)
         /\ m.type = "combat" /\ Attaches(bus[r]) => AttachesFirst(bus'[r], m.n)
  BY <1>1, QueueAppend
<1>7. PhaseInv'
  <2> SUFFICES ASSUME NEW s \in Sockets, Watched(s), since[s] < match.phase
               PROVE  PhaseDue(s)'
    BY <1>2 DEF PhaseInv
  <2>1. PhaseDue(s) /\ socket[s].replica \in Replicas
    BY <1>3 DEF FanoutInv, OrderInv, PhaseInv
  <2>2. CASE m.type = "phase"
    BY <1>5, <1>6, <2>1, <2>2 DEF PhaseDue
  <2>3. CASE m.type # "phase"
    BY <1>4, <1>5, <1>6, <2>1, <2>3 DEF PhaseDue
  <2>4. QED
    BY <2>2, <2>3
<1>8. SubInv'
  <2> SUFFICES ASSUME NEW s \in Sockets, Watched(s), match.stage = "live"
               PROVE  SubscriptionDue(s)'
    BY <1>2 DEF SubInv
  <2>1. SubscriptionDue(s) /\ socket[s].replica \in Replicas
    BY <1>3 DEF FanoutInv, OrderInv, SubInv
  <2>2. CASE m.type = "phase"
    BY <1>6, <2>1, <2>2 DEF SubscriptionDue
  <2>3. CASE m.type # "phase"
    BY <1>4, <1>5, <1>6, <2>1, <2>3 DEF SubscriptionDue
  <2>4. QED
    BY <2>2, <2>3
<1>9. BattleInv'
  <2> SUFFICES ASSUME NEW s \in Sockets, Watched(s), InBattle
               PROVE  BattleDue(s)'
    BY <1>2 DEF BattleInv, InBattle
  <2>1. BattleDue(s) /\ socket[s].replica \in Replicas
    BY <1>3 DEF FanoutInv, OrderInv, BattleInv
  <2>2. m.type # "phase"
    <3>1. match.phase \in Nat /\ match.combat = match.phase
      BY PhaseIsNat DEF FanoutInv, InBattle
    <3>2. QED
      BY <3>1 DEF FanoutInv, Shape, OutboxShape
  <2>3. CASE m.type = "combat"
    <3>1. Sending("combat") /\ ~Sending("combat")' /\ m.n = match.combat
      BY <1>4, <1>5, <2>3
    <3>2. /\ LastOf(bus'[socket[s].replica], "combat", match.combat)
          /\ Attaches(bus[socket[s].replica]) => AttachesFirst(bus'[socket[s].replica], match.combat)
      BY <1>6, <2>1, <2>3, <3>1
    <3>3. resume[s].at # "none" \/ s \in subs[socket[s].replica] \/ Attaches(bus[socket[s].replica])
      <4>1. AttachesFirst(bus[socket[s].replica], match.combat) => Attaches(bus[socket[s].replica])
        BY DEF AttachesFirst, Attaches
      <4>2. QED
        BY <2>1, <3>1, <4>1 DEF BattleDue
    <3>4. QED
      BY <3>2, <3>3 DEF BattleDue
  <2>4. CASE m.type # "combat"
    <3>1. Sending("combat")' <=> Sending("combat")
      BY <1>4, <1>5, <2>2, <2>4
    <3>2. QED
      BY <1>6, <2>1, <2>4, <3>1 DEF BattleDue
  <2>5. QED
    BY <2>3, <2>4
<1>10. CombatOrder'
  <2> SUFFICES ASSUME NEW r \in Replicas
               PROVE  (Sending("combat") \/ NoneOf(bus[r], "combat") \/ LastOf(bus[r], "combat", match.combat))'
    BY DEF CombatOrder
  <2>1. Sending("combat") \/ NoneOf(bus[r], "combat") \/ LastOf(bus[r], "combat", match.combat)
    BY DEF FanoutInv, OrderInv, CombatOrder
  <2>2. CASE m.type = "combat"
    BY <1>5, <1>6, <2>2
  <2>3. CASE m.type # "combat"
    <3>1. Sending("combat")' <=> Sending("combat")
      BY <1>4, <1>5, <2>3
    <3>2. QED
      BY <1>6, <2>1, <2>3, <3>1
  <2>4. QED
    BY <2>2, <2>3
<1>11. QED
  BY <1>7, <1>8, <1>9, <1>10 DEF OrderInv

\* The open connection of a player is the only one that shows him anything.
LEMMA OnlyItsReplica ==
  ASSUME FanoutInv, NEW s \in Sockets, Watched(s), NEW r \in Replicas, r # socket[s].replica,
         NEW S \in SUBSET (subs[r] \union registered[r])
  PROVE  \A x \in S \intersect SocketsOf(socket[s].user) : ~Open(x)
<1> SUFFICES ASSUME NEW x \in S, x \in Sockets, socket[x].user = socket[s].user, Open(x)
             PROVE  FALSE
  BY DEF SocketsOf
<1>1. x = s
  BY DEF FanoutInv, ConnInv, Registry, Watched
<1>2. socket[x].replica = r
  BY DEF FanoutInv, ConnInv, Registry, Subscriptions
<1>3. QED
  BY <1>1, <1>2

LEMMA OrderDeliver ==
  ASSUME FanoutInv, NEW r \in Replicas, Deliver(r)
  PROVE  OrderInv'
<1> DEFINE m == Head(bus[r])
<1> DEFINE S == subs[r] \union Attached(r, m)
<1>0. Shape /\ ConnInv /\ ServerShape
  BY DEF FanoutInv, Shape
<1>1. /\ bus[r] # <<>> /\ bus' = [bus EXCEPT ![r] = Tail(bus[r])]
      /\ UNCHANGED <<socket, since, registered, resume, match, outbox, blind>>
  BY DEF Deliver, conn, player
<1>2. /\ bus[r] \in Seq(Messages) /\ m \in Messages
      /\ bus'[r] = Tail(bus[r]) /\ \A x \in Replicas : x # r => bus'[x] = bus[x]
  <2>1. bus[r] \in Seq(Messages) /\ m \in Messages
    BY <1>0, <1>1, TailIs DEF Shape, BusShape
  <2>2. bus'[r] = Tail(bus[r]) /\ \A x \in Replicas : x # r => bus'[x] = bus[x]
    BY <1>0, <1>1, HandledIs
  <2>3. QED
    BY <2>1, <2>2
<1>3. S \in SUBSET Sockets /\ S \subseteq subs[r] \union registered[r]
      /\ (m.type = "phase" => registered[r] \subseteq S) /\ subs[r] \subseteq S
  BY <1>0 DEF Attached, ServerShape
<1>4. subs'[r] = S /\ \A x \in Replicas \ {r} : subs'[x] = subs[x]
  BY <1>0 DEF Deliver, Subscribed, ServerShape
<1>5. view' = Seen(S, m)
  BY <1>0 DEF Deliver, Subscribed, ServerShape
<1> HIDE DEF m, S
<1>6. \A u \in Users :
         /\ m.type # "phase"  => view'[u].phase = view[u].phase
         /\ m.type # "combat" => view'[u].combat = view[u].combat
         /\ (\A s \in S \intersect SocketsOf(u) : ~Open(s)) => view'[u] = view[u]
         /\ (\E s \in S \intersect SocketsOf(u) : Open(s)) =>
               /\ m.type = "phase"  => view'[u].phase = m.n
               /\ m.type = "combat" => view'[u].combat = m.n
  <2>1. Shape /\ S \in SUBSET Sockets /\ m \in Messages /\ view' = Seen(S, m)
    BY <1>0, <1>2, <1>3, <1>5
  <2>2. QED
    BY <2>1, SeenIs
<1>7. /\ \A t : NoneOf(bus[r], t) => NoneOf(bus'[r], t) /\ m.type # t
      /\ \A t, n : LastOf(bus[r], t, n) =>
            LastOf(bus'[r], t, n) \/ (m.type = t /\ m.n = n /\ NoneOf(bus'[r], t))
      /\ Attaches(bus[r]) => m.type = "phase" \/ Attaches(bus'[r])
      /\ \A n : AttachesFirst(bus[r], n) =>
            AttachesFirst(bus'[r], n) \/ (m.type = "phase" /\ LastOf(bus'[r], "combat", n))
  BY <1>1, <1>2, QueueTail DEF m
<1>8. \A s \in Sockets : Watched(s)' = Watched(s)
  BY <1>1 DEF Watched, Open
<1>9. \A t : Sending(t)' = Sending(t)
  BY <1>1 DEF Sending
<1>10. ASSUME NEW s \in Sockets, Watched(s)
       PROVE  /\ socket[s].user \in Users /\ socket[s].replica \in Replicas
              /\ s \in registered[socket[s].replica] /\ Open(s)
              /\ s \in subs[socket[s].replica] => s \in subs'[socket[s].replica]
  <2>1. socket[s].replica \in Replicas
    BY <1>0, <1>10 DEF ConnInv, Registry, Watched, Open, Held
  <2>2. QED
    BY <1>0, <1>3, <1>4, <1>10, <2>1 DEF ConnInv, Registry, Watched, Open, Held
<1>11. ASSUME NEW s \in Sockets, Watched(s), socket[s].replica # r
       PROVE  /\ view'[socket[s].user] = view[socket[s].user]
              /\ bus'[socket[s].replica] = bus[socket[s].replica]
  <2>1. \A x \in S \intersect SocketsOf(socket[s].user) : ~Open(x)
    BY <1>3, <1>11, OnlyItsReplica
  <2>2. QED
    BY <1>2, <1>6, <1>10, <1>11, <2>1
<1>12. ASSUME NEW s \in Sockets, Watched(s), socket[s].replica = r
       PROVE  /\ m.type = "phase" => s \in subs'[r] /\ view'[socket[s].user].phase = m.n
              /\ m.type = "combat" /\ s \in subs[r] => view'[socket[s].user].combat = m.n
  <2>1. s \in SocketsOf(socket[s].user)
    BY DEF SocketsOf
  <2>2. QED
    BY <1>3, <1>4, <1>6, <1>10, <1>12, <2>1
<1>13. PhaseInv'
  <2> SUFFICES ASSUME NEW s \in Sockets, Watched(s), since[s] < match.phase
               PROVE  PhaseDue(s)'
    BY <1>1, <1>8 DEF PhaseInv
  <2>1. PhaseDue(s)
    BY DEF FanoutInv, OrderInv, PhaseInv
  <2>2. CASE socket[s].replica # r
    BY <1>1, <1>9, <1>11, <2>1, <2>2 DEF PhaseDue
  <2>3. CASE socket[s].replica = r
    BY <1>1, <1>6, <1>7, <1>9, <1>10, <1>12, <2>1, <2>3 DEF PhaseDue
  <2>4. QED
    BY <2>2, <2>3
<1>14. SubInv'
  <2> SUFFICES ASSUME NEW s \in Sockets, Watched(s), match.stage = "live"
               PROVE  SubscriptionDue(s)'
    BY <1>1, <1>8 DEF SubInv
  <2>1. SubscriptionDue(s)
    BY DEF FanoutInv, OrderInv, SubInv
  <2>2. CASE socket[s].replica # r
    BY <1>1, <1>9, <1>10, <1>11, <2>1, <2>2 DEF SubscriptionDue
  <2>3. CASE socket[s].replica = r
    BY <1>1, <1>7, <1>9, <1>10, <1>12, <2>1, <2>3 DEF SubscriptionDue
  <2>4. QED
    BY <2>2, <2>3
<1>15. BattleInv'
  <2> SUFFICES ASSUME NEW s \in Sockets, Watched(s), InBattle, resume[s].at = "none"
               PROVE  BattleDue(s)'
    BY <1>1, <1>8 DEF BattleInv, InBattle, BattleDue
  <2>1. BattleDue(s)
    BY DEF FanoutInv, OrderInv, BattleInv
  <2>2. CASE socket[s].replica # r
    BY <1>1, <1>9, <1>10, <1>11, <2>1, <2>2 DEF BattleDue
  <2>3. CASE socket[s].replica = r
    <3>1. s \in subs[r] => s \in subs'[r]
      BY <1>10, <2>3
    <3>2. CASE s \in subs[r] /\ Sending("combat")
      BY <1>1, <1>9, <2>3, <3>1, <3>2 DEF BattleDue
    <3>3. CASE s \in subs[r] /\ ~Sending("combat") /\ LastOf(bus[r], "combat", match.combat)
      BY <1>1, <1>7, <1>9, <1>12, <2>3, <3>1, <3>3 DEF BattleDue
    <3>4. CASE Sending("combat") /\ Attaches(bus[r])
      BY <1>1, <1>7, <1>9, <1>12, <2>3, <3>4 DEF BattleDue
    <3>5. CASE AttachesFirst(bus[r], match.combat)
      BY <1>1, <1>7, <1>12, <2>3, <3>5 DEF BattleDue
    <3>6. CASE /\ ~Sending("combat") /\ NoneOf(bus[r], "combat")
               /\ view[socket[s].user].combat = match.combat
      BY <1>1, <1>6, <1>7, <1>9, <1>10, <2>3, <3>6 DEF BattleDue
    <3>7. QED
      BY <2>1, <2>3, <3>2, <3>3, <3>4, <3>5, <3>6 DEF BattleDue
  <2>4. QED
    BY <2>2, <2>3
<1>16. CombatOrder'
  BY <1>1, <1>2, <1>7, <1>9 DEF FanoutInv, OrderInv, CombatOrder
<1>17. QED
  BY <1>13, <1>14, <1>15, <1>16 DEF OrderInv
LEMMA OrderLose ==
  ASSUME FanoutInv, NEW r \in Replicas, Lose(r)
  PROVE  OrderInv'
<1>0. Shape /\ ConnInv
  BY DEF FanoutInv
<1>1. /\ bus[r] # <<>> /\ bus' = [bus EXCEPT ![r] = Tail(bus[r])]
      /\ blind' = blind \union registered[r]
      /\ UNCHANGED <<socket, since, registered, subs, resume, match, outbox, view>>
  BY DEF Lose, conn, player
<1>2. bus'[r] = Tail(bus[r]) /\ \A x \in Replicas : x # r => bus'[x] = bus[x]
  BY <1>0, <1>1, HandledIs
<1>3. \A t : Sending(t)' <=> Sending(t)
  BY <1>1 DEF Sending
<1>4. ASSUME NEW s \in Sockets, Watched(s)'
      PROVE  /\ Watched(s) /\ socket[s].replica \in Replicas
             /\ bus'[socket[s].replica] = bus[socket[s].replica]
  <2>1. Watched(s) /\ s \notin registered[r]
    BY <1>1, <1>4 DEF Watched, Open
  <2>2. socket[s].replica \in Replicas /\ s \in registered[socket[s].replica]
    BY <1>0, <2>1 DEF ConnInv, Registry, Watched, Open, Held
  <2>3. QED
    BY <1>2, <2>1, <2>2
<1>5. PhaseInv'
  BY <1>1, <1>3, <1>4 DEF FanoutInv, OrderInv, PhaseInv, PhaseDue
<1>6. SubInv'
  BY <1>1, <1>3, <1>4 DEF FanoutInv, OrderInv, SubInv, SubscriptionDue
<1>7. BattleInv'
  BY <1>1, <1>3, <1>4 DEF FanoutInv, OrderInv, BattleInv, BattleDue, InBattle
<1>8. CombatOrder'
  <2>1. bus[r] \in Seq(Messages)
    BY <1>0 DEF Shape, BusShape
  <2>2. /\ \A t : NoneOf(bus[r], t) => NoneOf(bus'[r], t)
        /\ \A t, n : LastOf(bus[r], t, n) => LastOf(bus'[r], t, n) \/ NoneOf(bus'[r], t)
    BY <1>1, <1>2, <2>1, QueueTail
  <2>3. QED
    BY <1>1, <1>2, <1>3, <2>2 DEF FanoutInv, OrderInv, CombatOrder
<1>9. QED
  BY <1>5, <1>6, <1>7, <1>8 DEF OrderInv

LEMMA OrderResumeCombat ==
  ASSUME FanoutInv, NEW s \in Sockets, ResumeCombat(s)
  PROVE  OrderInv'
<1>0. /\ Shape /\ ConnInv /\ match.combat \in Nat /\ match.phase \in Nat
      /\ match.combat <= match.phase /\ MaxPhase \in Nat /\ match.phase \in 0 .. MaxPhase
  BY PhaseIsNat, FanoutBounds DEF FanoutInv, Shape, MatchShape
<1>1. /\ resume[s].at = "combat" /\ resume' = [resume EXCEPT ![s] = Idle]
      /\ UNCHANGED <<socket, since, registered, subs, recorded, match, outbox, bus, blind>>
  BY DEF ResumeCombat, conn, player
<1>2. /\ \A t : Sending(t)' <=> Sending(t)
      /\ \A x \in Sockets : Watched(x)' <=> Watched(x)
  BY <1>1 DEF Sending, Watched, Open
<1>3. /\ s \in subs[socket[s].replica] /\ resume'[s].at = "none"
      /\ \A x \in Sockets \ {s} : resume'[x] = resume[x]
  BY <1>0, <1>1 DEF ConnInv, Subscriptions, Shape, ServerShape, Idle
<1>4. \A x \in Sockets : Watched(x) => socket[x].user \in Users /\ socket[x].replica \in Replicas
  BY <1>0 DEF ConnInv, Registry, Watched, Open, Held
<1>5. /\ \A u \in Users : view'[u].phase = view[u].phase
      /\ \A x \in Sockets \ {s} : Watched(x) =>
            view'[socket[x].user].combat = view[socket[x].user].combat
      /\ InBattle /\ Watched(s) => view'[socket[s].user].combat = match.combat
  <2>1. CASE CachedCombat
    <3>1. PICK m \in Messages : m = CombatEvents(match.combat)
      BY <1>0, EventsAreMessages
    <3>2. m.type = "combat" /\ m.n = match.combat /\ view' = Seen({s}, m) /\ {s} \in SUBSET Sockets
      BY <2>1, <3>1 DEF ResumeCombat, CombatEvents
    <3>3. \A u \in Users :
             /\ view'[u].phase = view[u].phase
             /\ (\A x \in {s} \intersect SocketsOf(u) : ~Open(x)) => view'[u] = view[u]
             /\ (\E x \in {s} \intersect SocketsOf(u) : Open(x)) => view'[u].combat = m.n
      BY <1>0, <3>2, SeenIs
    <3>4. ASSUME NEW x \in Sockets \ {s}, Watched(x)
          PROVE  view'[socket[x].user].combat = view[socket[x].user].combat
      <4>1. \A y \in {s} \intersect SocketsOf(socket[x].user) : ~Open(y)
        BY <1>0, <3>4 DEF ConnInv, Registry, Watched, SocketsOf
      <4>2. QED
        BY <1>4, <3>3, <3>4, <4>1
    <3>5. Watched(s) => view'[socket[s].user].combat = match.combat
      BY <1>4, <3>2, <3>3 DEF Watched, SocketsOf
    <3>6. QED
      BY <3>3, <3>4, <3>5
  <2>2. CASE ~CachedCombat
    <3>1. view' = view
      BY <2>2 DEF ResumeCombat
    <3>2. ~InBattle
      BY <2>2 DEF InBattle, CachedCombat
    <3>3. QED
      BY <3>1, <3>2
  <2>3. QED
    BY <2>1, <2>2
<1>6. PhaseInv'
  BY <1>1, <1>2, <1>4, <1>5 DEF FanoutInv, OrderInv, PhaseInv, PhaseDue
<1>7. SubInv'
  <2> SUFFICES ASSUME NEW x \in Sockets, Watched(x), match.stage = "live"
               PROVE  SubscriptionDue(x)'
    BY <1>1, <1>2 DEF SubInv
  <2>1. CASE x = s
    BY <1>1, <1>3, <2>1 DEF SubscriptionDue
  <2>2. CASE x # s
    BY <1>1, <1>2, <1>3, <2>2 DEF FanoutInv, OrderInv, SubInv, SubscriptionDue
  <2>3. QED
    BY <2>1, <2>2
<1>8. BattleInv'
  <2> SUFFICES ASSUME NEW x \in Sockets, Watched(x), InBattle
               PROVE  BattleDue(x)'
    BY <1>1, <1>2 DEF BattleInv, InBattle
  <2>1. CASE x = s
    <3>1. \/ Sending("combat") \/ NoneOf(bus[socket[s].replica], "combat")
          \/ LastOf(bus[socket[s].replica], "combat", match.combat)
      BY <1>4, <2>1 DEF FanoutInv, OrderInv, CombatOrder
    <3>2. QED
      BY <1>1, <1>2, <1>3, <1>5, <2>1, <3>1 DEF BattleDue
  <2>2. CASE x # s
    <3>1. BattleDue(x)
      BY DEF FanoutInv, OrderInv, BattleInv
    <3>2. QED
      BY <1>1, <1>2, <1>3, <1>5, <2>2, <3>1 DEF BattleDue
  <2>3. QED
    BY <2>1, <2>2
<1>9. CombatOrder'
  BY <1>1, <1>2 DEF FanoutInv, OrderInv, CombatOrder
<1>10. QED
  BY <1>6, <1>7, <1>8, <1>9 DEF OrderInv

LEMMA OrderStep ==
  ASSUME FanoutInv, [Next]_vars
  PROVE  OrderInv'
<1>0. /\ Shape /\ ConnInv /\ ServerShape /\ MatchShape
      /\ match \in [stage : {"none", "row", "live", "over"}, phase : 0 .. MaxPhase,
                    combat : Nat, roster : Rosters]
  BY DEF FanoutInv, Shape, MatchShape
<1>1. ASSUME NEW u \in Users, NEW r \in Replicas, NEW s \in Sockets, Connect(u, r, s)
      PROVE  OrderInv'
  <2>1. /\ socket' = Superseding(u, r, s) /\ since' = [since EXCEPT ![s] = match.phase]
        /\ subs' = Unsubscribed(r, Previous(u, r))
        /\ resume' = [Silenced(Previous(u, r)) EXCEPT ![s].at = "find"]
        /\ UNCHANGED <<match, outbox, bus, view, blind>>
    BY <1>1 DEF Connect, player
  <2>2. /\ \A x \in Previous(u, r) \ {s} : socket'[x].stage = "closed"
        /\ \A x \in Sockets \ Previous(u, r) : x # s => socket'[x] = socket[x]
    <3>1. ServerShape /\ socket' = Superseding(u, r, s)
      BY <1>0, <2>1
    <3>2. /\ \A x \in Previous(u, r) \ {s} : socket'[x].stage = "closed" /\ socket'[x].superseded
          /\ \A x \in Sockets \ Previous(u, r) : x # s => socket'[x] = socket[x]
      BY <3>1, SupersedingIs
    <3>3. QED
      BY <3>2
  <2>3. since'[s] = match.phase /\ \A x \in Sockets \ {s} : since'[x] = since[x]
    BY <1>0, <2>1 DEF ServerShape
  <2>4. /\ resume'[s].at = "find"
        /\ \A x \in Sockets \ Previous(u, r) : x # s => resume'[x] = resume[x]
    BY <1>0, <2>1 DEF ServerShape, Silenced, Idle, Resumes
  <2>5. \A x \in Sockets \ Previous(u, r), y \in Replicas : x \in subs[y] => x \in subs'[y]
    BY <1>0, <2>1 DEF ServerShape, Unsubscribed
  <2>6. ASSUME NEW x \in Sockets, x # s, Watched(x)'
        PROVE  /\ Watched(x) /\ socket'[x] = socket[x] /\ since'[x] = since[x]
               /\ resume'[x] = resume[x]
               /\ x \in subs[socket[x].replica] => x \in subs'[socket[x].replica]
    <3>1. x \notin Previous(u, r)
      BY <2>2, <2>6 DEF Watched, Open
    <3>2. Watched(x) /\ socket'[x] = socket[x]
      BY <2>1, <2>2, <2>6, <3>1 DEF Watched, Open
    <3>3. socket[x].replica \in Replicas
      BY <1>0, <3>2 DEF ConnInv, Registry, Watched, Open, Held
    <3>4. QED
      BY <2>3, <2>4, <2>5, <2>6, <3>1, <3>2, <3>3
  <2>7. QED
    BY <2>1, <2>3, <2>4, <2>6, OrderStill
<1>2. ASSUME NEW s \in Sockets, Refuse(s) \/ Cut(s)
      PROVE  OrderInv'
  <2>1. PICK t \in {"closed", "cut"} : socket' = [socket EXCEPT ![s].stage = t]
    BY <1>2 DEF Refuse, Cut
  <2>2. \A x \in Sockets : Watched(x)' => Watched(x) /\ socket'[x] = socket[x]
    <3>1. UNCHANGED blind
      BY <1>2 DEF Refuse, Cut
    <3>2. socket'[s].stage = t /\ \A x \in Sockets \ {s} : socket'[x] = socket[x]
      BY <1>0, <2>1, StageType
    <3>3. QED
      BY <3>1, <3>2 DEF Watched, Open
  <2>3. UNCHANGED <<since, subs, resume, match, outbox, bus, view>>
    BY <1>2 DEF Refuse, Cut, player
  <2>4. QED
    BY <2>2, <2>3, OrderStill
<1>3. ASSUME NEW s \in Sockets, Disconnect(s)
      PROVE  OrderInv'
  <2>1. /\ socket' = [socket EXCEPT ![s].stage = "closed"]
        /\ subs' = Unsubscribed(socket[s].replica, {s}) /\ resume' = Silenced({s})
        /\ UNCHANGED <<since, match, outbox, bus, view, blind>>
    BY <1>3 DEF Disconnect, player
  <2>2. socket'[s].stage = "closed" /\ \A x \in Sockets \ {s} : socket'[x] = socket[x]
    BY <1>0, <2>1, StageType
  <2>3. ASSUME NEW x \in Sockets, Watched(x)'
        PROVE  /\ x # s /\ Watched(x) /\ socket'[x] = socket[x] /\ resume'[x] = resume[x]
               /\ x \in subs[socket[x].replica] => x \in subs'[socket[x].replica]
    <3>1. x # s /\ Watched(x) /\ socket'[x] = socket[x]
      BY <2>1, <2>2, <2>3 DEF Watched, Open
    <3>2. socket[x].replica \in Replicas
      BY <1>0, <3>1 DEF ConnInv, Registry, Watched, Open, Held
    <3>3. QED
      BY <1>0, <2>1, <3>1, <3>2 DEF ServerShape, Silenced, Unsubscribed
  <2>4. QED
    BY <2>1, <2>3, OrderStill
<1>4. ASSUME NEW s \in Sockets, Forfeit(s)
      PROVE  OrderInv'
  <2>1. /\ UNCHANGED <<socket, since, subs, resume, outbox, bus, view, blind>>
        /\ match' = match \/ match' = [match EXCEPT !.stage = "over"]
    BY <1>4 DEF Forfeit, conn
  <2>2. /\ match'.phase = match.phase /\ match'.combat = match.combat
        /\ match'.stage = "live" => match.stage = "live"
    BY <1>0, <2>1
  <2>3. \A x \in Sockets : Watched(x)' <=> Watched(x)
    BY <2>1 DEF Watched, Open
  <2>4. QED
    BY <2>1, <2>2, <2>3, OrderStill
<1>5. CASE CreateRow \/ Finish
  <2>1. /\ UNCHANGED <<socket, since, subs, resume, outbox, bus, view, blind>>
        /\ \E t \in {"row", "over"} : match' = [match EXCEPT !.stage = t]
    BY <1>5 DEF CreateRow, Finish, conn
  <2>2. /\ match'.phase = match.phase /\ match'.combat = match.combat
        /\ match'.stage = "live" => match.stage = "live"
    BY <1>0, <2>1
  <2>3. \A x \in Sockets : Watched(x)' <=> Watched(x)
    BY <2>1 DEF Watched, Open
  <2>4. QED
    BY <2>1, <2>2, <2>3, OrderStill
<1>6. ASSUME NEW u \in Users, ActRead(u) \/ ActCommit(u)
      PROVE  OrderInv'
  <2>1. /\ UNCHANGED <<socket, since, subs, resume, outbox, bus, view, blind>>
        /\ match' = match \/ match' = [match EXCEPT !.roster[u] = match.roster[u] + 1]
    BY <1>6 DEF ActRead, ActCommit, conn
  <2>2. /\ match'.phase = match.phase /\ match'.combat = match.combat
        /\ match'.stage = "live" => match.stage = "live"
    BY <1>0, <2>1
  <2>3. \A x \in Sockets : Watched(x)' <=> Watched(x)
    BY <2>1 DEF Watched, Open
  <2>4. QED
    BY <2>1, <2>2, <2>3, OrderStill
<1>7. ASSUME NEW s \in Sockets, ResumeFind(s)
      PROVE  OrderInv'
  <2>1. /\ UNCHANGED <<socket, since, registered, match, outbox, bus, view, blind>>
        /\ resume[s].at = "find"
    BY <1>7 DEF ResumeFind, player
  <2>2. \A x \in Sockets : Watched(x)' <=> Watched(x)
    BY <2>1 DEF Watched, Open
  <2>3. \A x \in Sockets \ {s} : resume'[x] = resume[x]
    BY <1>0, <1>7 DEF ResumeFind, ServerShape
  <2>4. Watched(s) /\ match.stage = "live" => resume'[s].at = "read"
    <3>1. Watched(s) => StillConnected(s)
      BY <1>0 DEF ConnInv, Registry, Watched, Open, Held, StillConnected
    <3>2. QED
      BY <1>0, <1>7, <3>1 DEF ResumeFind, Active, ServerShape, Resumes
  <2>5. \A x \in Sockets, y \in Replicas : x \in subs[y] => x \in subs'[y]
    BY <1>0, <1>7 DEF ResumeFind, Subscribed, ServerShape
  <2>6. \A x \in Sockets : Watched(x) => socket[x].replica \in Replicas
    BY <1>0 DEF ConnInv, Registry, Watched, Open, Held
  <2>7. QED
    BY <2>1, <2>2, <2>3, <2>4, <2>5, <2>6, OrderStill
<1>8. ASSUME NEW s \in Sockets, ResumeRead(s)
      PROVE  OrderInv'
  <2>1. UNCHANGED <<socket, since, subs, match, outbox, bus, view, blind>>
    BY <1>8 DEF ResumeRead, conn, player
  <2>2. \A x \in Sockets : Watched(x)' <=> Watched(x)
    BY <2>1 DEF Watched, Open
  <2>3. match.stage = "live" => resume'[s].at = "emit"
    <3>1. match.stage = "live" => Served
      BY <1>0 DEF MatchShape, Served
    <3>2. QED
      BY <1>0, <1>8, <3>1 DEF ResumeRead, ServerShape
  <2>4. \A x \in Sockets \ {s} : resume'[x] = resume[x]
    BY <1>0, <1>8 DEF ResumeRead, ServerShape
  <2>5. QED
    BY <2>1, <2>2, <2>3, <2>4, OrderStill
<1>9. ASSUME NEW s \in Sockets, ResumeEmit(s)
      PROVE  OrderInv'
  <2>1. UNCHANGED <<socket, since, subs, match, outbox, bus, blind>>
    BY <1>9 DEF ResumeEmit, conn, player
  <2>2. \A x \in Sockets : Watched(x)' <=> Watched(x)
    BY <2>1 DEF Watched, Open
  <2>3. \A x \in Sockets : resume[x].at # "none" => resume'[x].at # "none"
    BY <1>0, <1>9 DEF ResumeEmit, ServerShape, Resumes
  <2>4. \A u \in Users : view'[u].phase = view[u].phase /\ view'[u].combat = view[u].combat
    <3>1. [u \in Users |-> resume[s].own] \in Rosters
      BY <1>0 DEF ServerShape, Resumes, Rosters
    <3>2. PICK m \in Messages : m = StateEvent([u \in Users |-> resume[s].own])
      BY <1>0, <3>1, EventsAreMessages
    <3>3. m.type = "state" /\ view' = Seen({s}, m) /\ {s} \in SUBSET Sockets
      BY <1>9, <3>2 DEF ResumeEmit, StateEvent
    <3>4. QED
      BY <1>0, <3>3, SeenIs
  <2>5. QED
    BY <2>1, <2>2, <2>3, <2>4, OrderStill
<1>10. ASSUME NEW s \in Sockets, ResumeFails(s)
       PROVE  OrderInv'
  <2>1. /\ UNCHANGED <<socket, since, subs, match, outbox, bus, view>>
        /\ blind' = blind \union {s} /\ resume' = [resume EXCEPT ![s] = Idle]
    BY <1>10 DEF ResumeFails, conn, player
  <2>2. \A x \in Sockets : Watched(x)' => Watched(x) /\ x # s
    BY <2>1 DEF Watched, Open
  <2>3. \A x \in Sockets \ {s} : resume'[x] = resume[x]
    BY <1>0, <2>1 DEF ServerShape
  <2>4. QED
    BY <2>1, <2>2, <2>3, OrderStill
<1>11. CASE Publish
  <2>1. PICK m \in Messages : outbox = <<m>>
    BY <1>0, <1>11 DEF Publish, Shape, OutboxShape
  <2>2. /\ bus' = Published(m) /\ outbox' = <<>>
        /\ UNCHANGED <<socket, since, registered, subs, resume, match, view, blind>>
    BY <1>11, <2>1 DEF Publish, conn
  <2>3. QED
    BY <2>1, <2>2, OrderPublish
<1>12. ASSUME NEW u \in Users, ActPublish(u)
       PROVE  OrderInv'
  <2>1. acting[u].own \in Rosters
    BY <1>0 DEF MatchShape, Actions
  <2>2. PICK m \in Messages : m = StateEvent(acting[u].own)
    BY <1>0, <2>1, EventsAreMessages
  <2>3. /\ bus' = Published(m) /\ outbox' = outbox /\ m.type = "state"
        /\ UNCHANGED <<socket, since, registered, subs, resume, match, view, blind>>
    BY <1>12, <2>2 DEF ActPublish, StateEvent, conn
  <2>4. QED
    BY <2>3, OrderPublish
<1>13. CASE UNCHANGED vars
  <2>1. \A x \in Sockets : Watched(x)' <=> Watched(x)
    BY <1>13 DEF vars, Watched, Open
  <2>2. QED
    BY <1>13, <2>1, OrderStill DEF vars
<1>14. QED
  BY <1>1, <1>2, <1>3, <1>4, <1>5, <1>6, <1>7, <1>8, <1>9, <1>10, <1>11, <1>12, <1>13,
     OrderChangePhase, OrderRunBattle, OrderDeliver, OrderLose, OrderResumeCombat DEF Next

-----------------------------------------------------------------------------
(* The theorems. *)

LEMMA FanoutInit == Init => FanoutInv
<1> SUFFICES ASSUME Init PROVE FanoutInv
  OBVIOUS
<1>0. MaxPhase \in Nat /\ [u \in Users |-> 0] \in Rosters
  BY FanoutBounds DEF Rosters
<1>1. ServerShape
  BY DEF Init, ServerShape, Connections, Resumes, Idle
<1>2. MatchShape
  BY <1>0 DEF Init, MatchShape, Actions, NoAct
<1>3. OutboxShape /\ BusShape
  BY <1>0 DEF Init, OutboxShape, BusShape, Views
<1>4. \A s \in Sockets : ~Held(s) /\ ~Open(s) /\ resume[s].at = "none"
  BY DEF Init, Held, Open, Idle
<1>5. ConnInv
  BY <1>4 DEF Init, ConnInv, Registry, Subscriptions
<1>6. PhaseInv /\ SubInv /\ BattleInv
  BY <1>4 DEF PhaseInv, SubInv, BattleInv, Watched
<1>7. CombatOrder
  BY DEF Init, CombatOrder, NoneOf
<1>8. QED
  BY <1>1, <1>2, <1>3, <1>5, <1>6, <1>7 DEF FanoutInv, Shape, OrderInv

LEMMA FanoutInvariant == Spec => []FanoutInv
<1>1. FanoutInv /\ [Next]_vars => FanoutInv'
  BY ServerShapeInv, MatchShapeInv, OutboxShapeInv, BusShapeInv, ConnInvStep, OrderStep
     DEF FanoutInv, Shape
<1>2. QED
  BY <1>1, FanoutInit, PTL DEF Spec

\* Every variable of the gateways keeps its shape, and a connection that is held
\* is the only one of its player that its replica has in its index.
THEOREM FanoutTypes == Spec => []FanoutTypeOK
<1>1. FanoutInv => FanoutTypeOK
  <2> SUFFICES ASSUME FanoutInv PROVE FanoutTypeOK
    OBVIOUS
  <2>0. Shape /\ ServerShape /\ MatchShape /\ BusShape /\ Registry
    BY DEF FanoutInv, Shape, ConnInv
  <2>1. ASSUME NEW s \in Sockets
        PROVE  /\ socket[s].user \in Users \union {Nobody}
               /\ socket[s].stage \in {"unused", "open", "cut", "closed"}
               /\ resume[s].at \in {"none", "find", "read", "emit", "combat"}
    BY <2>0 DEF ServerShape, Connections, Resumes
  <2>2. ASSUME NEW s \in Sockets, socket[s].stage \in {"open", "cut"}
        PROVE  registered[socket[s].replica] \intersect SocketsOf(socket[s].user)
                  \intersect {x \in Sockets : socket[x].stage # "closed"} = {s}
    <3>1. socket[s].replica \in Replicas /\ s \in registered[socket[s].replica]
      BY <2>0, <2>2 DEF Registry, Held
    <3>2. \A x \in registered[socket[s].replica] : socket[x].user = socket[s].user => x = s
      BY <2>0, <3>1 DEF Registry
    <3>3. QED
      BY <2>2, <3>1, <3>2 DEF SocketsOf
  <2>3. /\ match.stage \in {"none", "row", "live", "over"}
        /\ match.phase \in 0 .. MaxPhase /\ match.combat \in 0 .. match.phase
        /\ match.roster \in Rosters
    BY <2>0, PhaseIsNat DEF MatchShape
  <2>4. \A r \in Replicas : \A i \in 1 .. Len(bus[r]) : bus[r][i] \in Messages
    BY <2>0 DEF BusShape
  <2>5. /\ \A u \in Users : view[u].phase <= match.phase
        /\ leaving \subseteq Sockets /\ recorded \subseteq Sockets
    BY <2>0 DEF BusShape, ServerShape
  <2>6. QED
    BY <2>1, <2>2, <2>3, <2>4, <2>5 DEF FanoutTypeOK
<1>2. QED
  BY <1>1, FanoutInvariant, PTL

LEMMA QuietIs ==
  ASSUME FanoutInv, Quiet, NEW u \in Users, NEW s \in Sockets, Watching(u, s)
  PROVE  /\ Watched(s) /\ socket[s].user = u /\ resume[s].at = "none"
         /\ \A t : ~Sending(t)
         /\ \A t, n : ~LastOf(bus[socket[s].replica], t, n)
         /\ ~Attaches(bus[socket[s].replica])
         /\ \A n : ~AttachesFirst(bus[socket[s].replica], n)
<1>1. Watched(s) /\ socket[s].user = u /\ resume[s].at = "none"
  BY DEF Quiet, Watching, Watched
<1>2. socket[s].replica \in Replicas
  BY <1>1 DEF FanoutInv, ConnInv, Registry, Watched, Open, Held
<1>3. outbox = <<>> /\ bus[socket[s].replica] = <<>>
  BY <1>2 DEF Quiet
<1>4. QED
  BY <1>1, <1>3 DEF Sending, LastOf, Attaches, AttachesFirst

\* Whatever the number of replicas and however its registration, its resume and
\* the creation of the match interleave: once everything is delivered, a device
\* that was connected when a phase began has been shown that phase.
THEOREM PhaseIsShown == Spec => []PhaseReachesTheConnected
<1>1. FanoutInv => PhaseReachesTheConnected
  BY QuietIs DEF PhaseReachesTheConnected, FanoutInv, OrderInv, PhaseInv, PhaseDue
<1>2. QED
  BY <1>1, FanoutInvariant, PTL

\* Once everything is delivered, a device that is connected during a battle whose
\* result is stored has been shown that battle.
THEOREM BattleIsShown == Spec => []BattleReachesTheConnected
<1>1. FanoutInv => BattleReachesTheConnected
  <2> SUFFICES ASSUME FanoutInv, Quiet, InBattle,
                      NEW u \in Users, NEW s \in Sockets, Watching(u, s)
               PROVE  view[u].combat = match.combat
    BY DEF BattleReachesTheConnected, InBattle
  <2>1. Watched(s) /\ BattleDue(s)
    BY QuietIs DEF FanoutInv, OrderInv, BattleInv
  <2>2. QED
    BY <2>1, QuietIs DEF BattleDue
<1>2. QED
  BY <1>1, FanoutInvariant, PTL

\* A closed connection is in no index of the gateway, however late the resume it
\* had begun comes back.
THEOREM ClosedAreForgotten == Spec => []ClosedSocketsForgotten
<1>1. FanoutInv => ClosedSocketsForgotten
  BY DEF ClosedSocketsForgotten, FanoutInv, ConnInv, Registry, Subscriptions, Held
<1>2. QED
  BY <1>1, FanoutInvariant, PTL

\* A forfeit is decided only about a player who had no connection left on that
\* replica when the one in question closed.
THEOREM ForfeitsAreOfTheGone == Spec => ForfeitMeansGone
<1> DEFINE Gone == \A s \in leaving' \ leaving :
      {x \in registered'[socket[s].replica] : socket'[x].user = socket[s].user} = {}
<1>1. ASSUME FanoutInv, [Next]_vars
      PROVE  Gone
  <2> SUFFICES ASSUME NEW z \in leaving' \ leaving
               PROVE  {x \in registered'[socket[z].replica] : socket'[x].user = socket[z].user} = {}
    OBVIOUS
  <2>0. Shape /\ ServerShape /\ Registry
    BY <1>1 DEF FanoutInv, Shape, ConnInv
  <2>1. ASSUME NEW u \in Users, NEW r \in Replicas, NEW s \in Sockets, Connect(u, r, s)
        PROVE  FALSE
    <3>1. /\ socket' = Superseding(u, r, s) /\ socket[s].stage = "unused"
          /\ leaving' = leaving \union Left(Previous(u, r), Superseding(u, r, s))
      BY <2>1 DEF Connect
    <3>2. s \notin Previous(u, r)
      BY <2>0, <3>1 DEF Registry, Held, Previous
    <3>3. \A x \in Previous(u, r) \ {s} : socket'[x].superseded
      BY <2>0, <3>1, SupersedingIs
    <3>4. QED
      BY <3>1, <3>2, <3>3 DEF Left
  <2>2. ASSUME NEW s \in Sockets, Disconnect(s)
        PROVE  {x \in registered'[socket[z].replica] : socket'[x].user = socket[z].user} = {}
    <3>1. /\ socket[s].stage = "cut" /\ socket' = [socket EXCEPT ![s].stage = "closed"]
          /\ registered' = Registered(socket[s].replica, {s}, {}) /\ z = s
      BY <2>2 DEF Disconnect, Left
    <3>2. socket[s].replica \in Replicas /\ s \in registered[socket[s].replica]
      BY <2>0, <3>1 DEF Registry, Held
    <3>3. registered'[socket[s].replica] = registered[socket[s].replica] \ {s}
      BY <2>0, <3>1, <3>2 DEF Registered, ServerShape
    <3>4. \A x \in Sockets : socket'[x].user = socket[x].user
      BY <2>0, <3>1, StageType
    <3>5. registered[socket[s].replica] \subseteq Sockets
      BY <2>0, <3>2 DEF ServerShape
    <3>6. \A x \in registered[socket[s].replica] : socket[x].user = socket[s].user => x = s
      BY <2>0, <3>2 DEF Registry
    <3>7. QED
      BY <3>1, <3>3, <3>4, <3>5, <3>6
  <2>3. CASE leaving' \subseteq leaving
    BY <2>3
  <2>4. ASSUME NEW s \in Sockets,
               Refuse(s) \/ Cut(s) \/ Forfeit(s) \/ ResumeFind(s) \/ ResumeRead(s)
               \/ ResumeEmit(s) \/ ResumeCombat(s) \/ ResumeFails(s)
        PROVE  leaving' \subseteq leaving
    BY <2>4 DEF Refuse, Cut, Forfeit, ResumeFind, ResumeRead, ResumeEmit, ResumeCombat, ResumeFails
  <2>5. CreateRow \/ ChangePhase \/ RunBattle \/ Publish \/ Finish => leaving' \subseteq leaving
    BY DEF CreateRow, ChangePhase, RunBattle, Publish, Finish
  <2>6. \A u \in Users : ActRead(u) \/ ActCommit(u) \/ ActPublish(u) => leaving' \subseteq leaving
    BY DEF ActRead, ActCommit, ActPublish
  <2>7. \A r \in Replicas : Deliver(r) \/ Lose(r) => leaving' \subseteq leaving
    BY DEF Deliver, Lose
  <2>8. UNCHANGED vars => leaving' \subseteq leaving
    BY DEF vars
  <2>9. QED
    BY <1>1, <2>1, <2>2, <2>3, <2>4, <2>5, <2>6, <2>7, <2>8 DEF Next
<1>2. FanoutInv /\ [Next]_vars => [Gone]_vars
  BY <1>1
<1>3. QED
  BY <1>2, FanoutInvariant, PTL DEF Spec, ForfeitMeansGone
=============================================================================
