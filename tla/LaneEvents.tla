----------------------------- MODULE LaneEvents -----------------------------
(***************************************************************************)
(* What one provider lane promises to the collector that reads its events: *)
(* it connects, or it reports a bounded number of failed tries; a lane     *)
(* that dropped announces its recovery before it is connected again; and   *)
(* nothing follows its last event.  SonioxStream is shown to implement it, *)
(* and StreamGroup feeds its collector with exactly these steps.           *)
(***************************************************************************)
EXTENDS Naturals

CONSTANT MaxTry     \* timeouts.reconnect_max_attempts

VARIABLES phase,    \* where the lane's own event stream stands
          tries     \* Reconnecting events since the lane last was connected

laneVars == <<phase, tries>>

Phase == {"new", "up", "down", "recovering", "over"}

LaneInit == phase = "new" /\ tries = 0

(* Connected: the first session of a lane, or one that announced itself.   *)
Connects ==
    /\ phase \in {"new", "recovering"}
    /\ phase' = "up"
    /\ UNCHANGED tries

(* Reconnecting{attempt}: a session that had been configured starts the    *)
(* count over, a dial that failed adds to it, and the count is bounded.    *)
Drops ==
    /\ phase \in {"new", "up", "down", "recovering"}
    /\ tries' = IF phase \in {"up", "recovering"} THEN 1 ELSE tries + 1
    /\ tries' <= MaxTry
    /\ phase' = "down"

(* RecoveryStarted: the replacement session is configured.                 *)
Recovers ==
    /\ phase = "down"
    /\ phase' = "recovering"
    /\ UNCHANGED tries

(* Finished, Error, or a cancelled task that says nothing.                 *)
Ends ==
    /\ phase # "over"
    /\ phase' = "over"
    /\ UNCHANGED tries

LaneNext == Connects \/ Drops \/ Recovers \/ Ends

LaneSpec == LaneInit /\ [][LaneNext]_laneVars
=============================================================================
