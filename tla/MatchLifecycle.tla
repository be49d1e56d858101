--------------------------- MODULE MatchLifecycle ---------------------------
(***************************************************************************)
(* What the life of a match promises to its players, without replicas,     *)
(* locks or timers: it is planned and fought turn by turn, each turn is    *)
(* charged at most once and only after it was fought, and once the match   *)
(* is over it stays over and gets at most one verdict.                     *)
(***************************************************************************)
EXTENDS Naturals

CONSTANT Outcomes   \* whom a verdict may name

VARIABLES
    stage,     \* the phase shown to the players
    turn,      \* the round
    charged,   \* the turns whose damage was charged
    verdict    \* <<>>, or <<o>> when the match was closed with outcome o

lifeVars == <<stage, turn, charged, verdict>>

Init == stage = "shop_place" /\ turn = 1 /\ charged = {} /\ verdict = <<>>

Fight ==
    /\ stage = "shop_place" /\ stage' = "battle"
    /\ UNCHANGED <<turn, charged, verdict>>

Score ==
    /\ stage = "battle" /\ stage' = "resolved"
    /\ UNCHANGED <<turn, charged, verdict>>

NextTurn ==
    /\ stage = "resolved" /\ stage' = "shop_place"
    /\ turn' = turn + 1
    /\ UNCHANGED <<charged, verdict>>

\* A turn that was fought, or broken off by the end of the match.
Fought(t) == t < turn \/ (t = turn /\ stage \in {"resolved", "finished"})

\* The damage may arrive late, and it may be what ends the match.
Charge(t) ==
    /\ Fought(t) /\ t \notin charged
    /\ charged' = charged \union {t}
    /\ stage' \in {stage, "finished"}
    /\ UNCHANGED <<turn, verdict>>

\* A player gives up.
Stop ==
    /\ stage # "finished" /\ stage' = "finished"
    /\ UNCHANGED <<turn, charged, verdict>>

Close ==
    /\ stage = "finished" /\ verdict = <<>>
    /\ \E o \in Outcomes : verdict' = <<o>>
    /\ UNCHANGED <<stage, turn, charged>>

Next ==
    \/ Fight \/ Score \/ NextTurn \/ Stop \/ Close
    \/ \E t \in 1..turn : Charge(t)

Spec == Init /\ [][Next]_lifeVars
=============================================================================
