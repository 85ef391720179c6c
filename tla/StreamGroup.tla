----------------------------- MODULE StreamGroup ----------------------------
(***************************************************************************)
(* The realtime group of one capture: the lanes, the collector that reads  *)
(* their events and is the only writer of their words and their health,    *)
(* and the FFI calls that push audio, pause, resume and stop               *)
(* (vt-ffi/src/notebook_capture_api.rs).  Each lane emits the events that  *)
(* LaneEvents allows; what the words become in SQLite is RealtimeFacts.    *)
(***************************************************************************)
EXTENDS Integers, Sequences, FiniteSets, SequencesExt

CONSTANTS Lane,        \* the streams of remote_stream_plan
          Canonical,   \* the source-only lane, the transcript authority
          MaxTry,      \* reconnect_max_attempts
          MaxQueued    \* bound: undelivered events of one lane

ASSUME GroupAssumption ==
    /\ Canonical \in Lane /\ MaxTry \in Nat \ {0}
    /\ MaxQueued \in Nat \ {0}

VARIABLES
    lane,   \* per lane: its phase and tries, and whether it was isolated
    chan,   \* per lane: events emitted and not yet collected, in order
    col,    \* the collector: its lanes' flags, and whether it still runs
    group,  \* the group's cancellation token
    run,    \* the durable run: remote health, recorded cause, state, context
    ffi     \* the process owner: remote owner, deferred cleanup, stop's progress

vars == <<lane, chan, col, group, run, ffi>>

Health == {"connecting", "live", "degraded", "unavailable"}
Event == {"connected", "reconnecting", "recovery", "response", "finished",
          "error", "discontinuity"}

GroupTypeOK ==
    /\ lane \in [Lane -> [phase : {"new", "up", "down", "recovering", "over"},
                          tries : 0..MaxTry, cancelled : BOOLEAN]]
    /\ \A l \in Lane : chan[l] \in BoundedSeq(Event, MaxQueued + 1)
    /\ col.pc \in {"running", "ended", "failed", "aborted"}
    /\ \A l \in Lane : col.lane[l] \in
         [connected : BOOLEAN, failed : BOOLEAN, accepted : BOOLEAN,
          ever : BOOLEAN, tail : BOOLEAN]
    /\ group \in [cancelled : BOOLEAN, refused : BOOLEAN, fault : BOOLEAN]
    /\ run \in [health : Health, cause : BOOLEAN, context : BOOLEAN,
                state : {"recording", "paused", "draining", "interrupted"}]
    /\ ffi \in [owner : BOOLEAN, cleanup : {"none", "running", "done"},
                overlay : BOOLEAN, pc : {"idle", "finish", "drain", "join",
                                         "ended"}]

(* start_soniox_capture_runtime: every lane is spawned, none has connected.*)
Init ==
    /\ lane = [l \in Lane |-> [phase |-> "new", tries |-> 0,
                               cancelled |-> FALSE]]
    /\ chan = [l \in Lane |-> <<>>]
    /\ col = [pc |-> "running",
              lane |-> [l \in Lane |-> [connected |-> FALSE, failed |-> FALSE,
                          accepted |-> FALSE, ever |-> FALSE, tail |-> FALSE]]]
    /\ group = [cancelled |-> FALSE, refused |-> FALSE, fault |-> FALSE]
    /\ run = [health |-> "connecting", cause |-> FALSE, context |-> FALSE,
              state |-> "recording"]
    /\ ffi = [owner |-> TRUE, cleanup |-> "none", overlay |-> FALSE,
              pc |-> "idle"]

-----------------------------------------------------------------------------
(* The lanes.                                                              *)

Collecting == col.pc = "running"
Heard(l, e) == chan' = [chan EXCEPT ![l] = Append(@, e)]
Room(l) == Len(chan[l]) < MaxQueued /\ Collecting
Moves(l, p) == lane' = [lane EXCEPT ![l].phase = p]
OnlyLanes == UNCHANGED <<col, group, run, ffi>>

LaneConnects(l) ==
    /\ lane[l].phase \in {"new", "recovering"} /\ Room(l)
    /\ Moves(l, "up") /\ Heard(l, "connected") /\ OnlyLanes

LaneDrops(l) ==
    /\ lane[l].phase # "over" /\ Room(l)
    /\ LET n == IF lane[l].phase \in {"up", "recovering"} THEN 1
                ELSE lane[l].tries + 1
       IN  /\ n <= MaxTry
           /\ lane' = [lane EXCEPT ![l].phase = "down", ![l].tries = n]
    /\ Heard(l, "reconnecting") /\ OnlyLanes

LaneRecovers(l) ==
    /\ lane[l].phase = "down" /\ Room(l)
    /\ Moves(l, "recovering") /\ Heard(l, "recovery") /\ OnlyLanes

(* A response: tokens, progress, or a semantic endpoint.                   *)
LaneResponds(l) ==
    /\ lane[l].phase = "up" /\ Room(l)
    /\ Heard(l, "response")
    /\ UNCHANGED lane /\ OnlyLanes

(* The task ends: finished after a Finish it was sent, or a last error.    *)
LaneEnds(l) ==
    /\ lane[l].phase # "over" /\ Room(l)
    /\ \/ ffi.pc = "finish" /\ lane[l].phase = "up" /\ Heard(l, "finished")
       \/ Heard(l, "error")
    /\ Moves(l, "over") /\ OnlyLanes

(* A cancelled lane, or one nobody listens to any more, ends in silence.   *)
LaneSilenced(l) ==
    /\ lane[l].phase # "over"
    /\ group.cancelled \/ lane[l].cancelled \/ ~Collecting
    /\ Moves(l, "over") /\ UNCHANGED chan /\ OnlyLanes

-----------------------------------------------------------------------------
(* The collector.                                                          *)

(* update_remote_health: a cause is kept until it is replaced or the group *)
(* is live again.                                                          *)
WithHealth(r, h, cause) ==
    [r EXCEPT !.health = h, !.cause = cause \/ (h # "live" /\ @)]

Up(c) == \A l \in Lane : c[l].failed \/ c[l].connected
Dark(c) == \E l \in Lane : c[l].failed

(* The collector returns an error: its guard cancels every sibling.        *)
CollectorFails(fault, refused) ==
    /\ col' = [col EXCEPT !.pc = "failed"]
    /\ group' = [cancelled |-> TRUE, fault |-> group.fault \/ fault,
                 refused |-> group.refused \/ refused]
    /\ UNCHANGED run

(* Mutant: Live as soon as the canonical lane is connected.                *)
ConnectedByCanonical(l, c, r) ==
    LET d == [c EXCEPT ![l].connected = TRUE, ![l].ever = TRUE]
    IN  [lanes |-> d,
         run |-> IF d[Canonical].connected
                 THEN WithHealth(r, IF Dark(d) THEN "degraded" ELSE "live",
                                 FALSE)
                 ELSE r]

(* Connected: live once every lane that still can be is connected.         *)
Connected(l, c, r) ==
    LET d == [c EXCEPT ![l].connected = TRUE, ![l].ever = TRUE]
    IN  [lanes |-> d,
         run |-> IF Up(d)
                 THEN WithHealth(r, IF Dark(d) THEN "degraded" ELSE "live",
                                 FALSE)
                 ELSE r]

(* Reconnecting: the open tail is finalized, and only a canonical outage   *)
(* takes the whole group off the air.                                      *)
Reconnecting(l, c, r) ==
    [lanes |-> [c EXCEPT ![l].connected = FALSE, ![l].tail = FALSE],
     run |-> WithHealth(r, IF l = Canonical THEN "connecting" ELSE "degraded",
                        FALSE)]

(* A response leaves an open tail, or settles it when it holds an endpoint.*)
Responded(l, c, r, open) == [lanes |-> [c EXCEPT ![l].tail = open], run |-> r]

(* The lane becomes a tombstone; health says what is left.                 *)
Tombstone(l, c, r, e) ==
    LET left == IF l # Canonical THEN "degraded"
                ELSE IF e = "error" /\ \E k \in Lane : c[k].ever
                     THEN "degraded" ELSE "unavailable"
    IN  [lanes |-> [c EXCEPT ![l].connected = FALSE, ![l].failed = TRUE,
                             ![l].tail = FALSE],
         run |-> WithHealth(r, left, TRUE)]

Outcome(l, e, c, r, open) ==
    CASE e = "connected" -> Connected(l, c, r)
      [] e = "reconnecting" -> Reconnecting(l, c, r)
      [] e = "recovery" -> [lanes |-> c, run |-> r]
      [] e = "response" -> Responded(l, c, r, open)
      [] e = "finished" -> Responded(l, c, r, FALSE)
      [] OTHER -> IF c[l].failed THEN [lanes |-> c, run |-> r]
                  ELSE Tombstone(l, c, r, e)

(* Mutant: a dead lane still takes its buffered events.                    *)
SkippedNever(l, e) == FALSE

(* A tombstone takes nothing but the discontinuity that made it one.       *)
Skipped(l, e) == col.lane[l].failed /\ e # "discontinuity"

(* The provider counts as having accepted the configuration.               *)
Accepts(e) == e \in {"recovery", "response", "finished"}
ContextDue(c) ==
    /\ ~run.context
    /\ \A l \in Lane : c[l].accepted \/ c[l].failed
    /\ \E l \in Lane : c[l].accepted

(* Mutant: a dead auxiliary lane takes the group with it.                  *)
StopsGroupAlways(l, e) == e \in {"error", "discontinuity"}
(* Only the canonical lane's end ends the group.                           *)
StopsGroup(l, e) == l = Canonical /\ e \in {"error", "discontinuity"}

(* mark_context_applied: only of a run whose stream is live.               *)
AppliesContext == run.health = "live"

(* One turn of the collector's loop.  The receipt that the Context was     *)
(* applied is refused unless the run is live, and the refusal, like any    *)
(* failure of the store, ends the collector.                               *)
Collect(l) ==
    /\ Collecting /\ chan[l] # <<>>
    /\ \E open \in BOOLEAN :
       LET e == Head(chan[l])
           seen == [col.lane EXCEPT ![l].accepted = @ \/ Accepts(e)]
           out == Outcome(l, e, seen,
                          [run EXCEPT !.context = @ \/ ContextDue(seen)],
                          open)
       IN  /\ chan' = [chan EXCEPT ![l] = Tail(@)]
           /\ \/ /\ Skipped(l, e)
                 /\ UNCHANGED <<col, group, run>>
              \/ /\ ~Skipped(l, e)
                 /\ ContextDue(seen) => AppliesContext
                 /\ col' = [col EXCEPT !.lane = out.lanes]
                 /\ run' = out.run
                 /\ group' = [group EXCEPT !.cancelled = @ \/ StopsGroup(l, e)]
              \/ /\ ~Skipped(l, e)
                 /\ ContextDue(seen) /\ ~AppliesContext
                 /\ CollectorFails(FALSE, TRUE)
              \/ /\ ~Skipped(l, e)
                 /\ CollectorFails(TRUE, FALSE)
    /\ UNCHANGED <<lane, ffi>>

(* The event channels are closed and empty: what still waits is marked     *)
(* unavailable and the collector returns.                                  *)
CollectorEnds ==
    /\ Collecting
    /\ \A l \in Lane : lane[l].phase = "over" /\ chan[l] = <<>>
    /\ col' = [col EXCEPT !.pc = "ended"]
    /\ group' = [group EXCEPT !.cancelled = TRUE]
    /\ UNCHANGED <<lane, chan, run, ffi>>

-----------------------------------------------------------------------------
(* Audio and commands from the FFI side, under the active-capture lock.    *)

Idle == ffi.pc = "idle" /\ run.state \in {"recording", "paused"}

(* A lane whose channel is closed, or full behind a connection that is not *)
(* reading it.                                                             *)
CannotTake(l) == lane[l].phase \in {"over", "down", "new", "recovering"}
Usable(l) == lane[l].phase # "over"
(* Mutant: an isolated lane is fed, and reported, again.                   *)
FedAlways == Lane
Fed == {l \in Lane : ~lane[l].cancelled}

(* isolate_auxiliary_discontinuity: cancelled and reported once, past the  *)
(* bounded channel, anywhere behind what the collector already staged.     *)
Isolated(holes) ==
    /\ lane' = [l \in Lane |->
         IF l \in holes
         THEN [lane[l] EXCEPT !.cancelled = TRUE] ELSE lane[l]]
    /\ \E at \in [holes -> 0..MaxQueued] :
         /\ \A l \in holes : at[l] <= Len(chan[l])
         /\ chan' = [l \in Lane |->
              IF l \in holes
              THEN InsertAt(chan[l], at[l] + 1, "discontinuity") ELSE chan[l]]

(* begin_failed_remote_capture_cleanup: tasks aborted, join deferred.      *)
Abort == lane' = [l \in Lane |-> [lane[l] EXCEPT !.phase = "over"]]

(* A fan-out of audio or of a command whose canonical sends succeed:       *)
(* auxiliary lanes that cannot take it are isolated at the live edge.      *)
FansOut ==
    /\ ffi.owner /\ ~group.cancelled /\ Usable(Canonical)
    /\ \E holes \in SUBSET {l \in Fed \ {Canonical} : CannotTake(l)} :
         /\ {l \in Fed \ {Canonical} : ~Usable(l)} \subseteq holes
         /\ Collecting \/ holes = {}
         /\ Isolated(holes)

Push ==
    /\ Idle /\ run.state = "recording"
    /\ FansOut
    /\ UNCHANGED <<col, group, run, ffi>>

(* The canonical lane cannot take the block, the group is cancelled, or    *)
(* the collector is gone: the remote owner is given up and its truth       *)
(* written, or the capture is interrupted when that fails.                 *)
PushFails ==
    /\ Idle /\ run.state = "recording" /\ ffi.owner
    /\ group.cancelled \/ CannotTake(Canonical) \/ ~Collecting
    /\ Abort
    /\ \/ /\ run' = WithHealth(run, IF run.cause THEN run.health
                                    ELSE "degraded", TRUE)
          /\ ffi' = [ffi EXCEPT !.owner = FALSE, !.cleanup = "running"]
          /\ group' = [group EXCEPT !.cancelled = TRUE]
       \/ /\ run' = [run EXCEPT !.state = "interrupted"]
          /\ ffi' = [ffi EXCEPT !.owner = FALSE, !.cleanup = "running",
                                !.pc = "join"]
          /\ group' = [group EXCEPT !.cancelled = TRUE, !.fault = TRUE]
    /\ UNCHANGED <<chan, col>>

(* join_cancelled_remote_group: the collector drains what is left or is    *)
(* aborted at the deadline.                                                *)
CleanupEnds ==
    /\ ffi.cleanup = "running"
    /\ ffi' = [ffi EXCEPT !.cleanup = "done"]
    /\ col' = [col EXCEPT !.pc = IF Collecting THEN "aborted" ELSE @]
    /\ UNCHANGED <<lane, chan, group, run>>

(* The preflight of a pause or resume without a remote owner: the missing  *)
(* provider is written down first; a resume that cannot, stays paused.     *)
Told == run.health \in {"degraded", "unavailable"}
Missing == IF run.health = "live" THEN "degraded" ELSE "unavailable"

Other == IF run.state = "recording" THEN "paused" ELSE "recording"

PauseOrResume ==
    /\ Idle
    /\ \/ /\ FansOut
          /\ run' = [run EXCEPT !.state = Other]
          /\ UNCHANGED <<group, ffi>>
       \/ /\ ~ffi.owner
          /\ run' = [(IF Told THEN run ELSE WithHealth(run, Missing, TRUE))
                        EXCEPT !.state = Other]
          /\ ffi' = [ffi EXCEPT !.overlay = FALSE]
          /\ UNCHANGED <<lane, chan, group>>
       \/ /\ ~ffi.owner /\ ~Told
          /\ run' = [run EXCEPT !.state = "paused"]
          /\ ffi' = [ffi EXCEPT !.overlay = TRUE]
          /\ group' = [group EXCEPT !.fault = TRUE]
          /\ UNCHANGED <<lane, chan>>
    /\ UNCHANGED col

(* The command cannot reach the canonical lane: the group is shut down and *)
(* joined inside the call, then its loss written.  Where it cannot be, a   *)
(* pause keeps it as an overlay, a resume is rolled back, and the capture  *)
(* is interrupted when even that fails.                                    *)
ControlFails ==
    /\ Idle /\ ffi.owner
    /\ group.cancelled \/ ~Usable(Canonical)
    /\ Abort
    /\ col' = [col EXCEPT !.pc = IF Collecting THEN "aborted" ELSE @]
    /\ \/ /\ run' = [WithHealth(run, "degraded", TRUE) EXCEPT !.state = Other]
          /\ ffi' = [ffi EXCEPT !.owner = FALSE, !.overlay = FALSE]
          /\ group' = [group EXCEPT !.cancelled = TRUE]
       \/ /\ run' = [run EXCEPT !.state = "paused"]
          /\ ffi' = [ffi EXCEPT !.owner = FALSE, !.overlay = TRUE]
          /\ group' = [group EXCEPT !.cancelled = TRUE, !.fault = TRUE]
       \/ /\ run.state = "paused"
          /\ run' = [run EXCEPT !.state = "interrupted"]
          /\ ffi' = [ffi EXCEPT !.owner = FALSE, !.pc = "join"]
          /\ group' = [group EXCEPT !.cancelled = TRUE, !.fault = TRUE]
    /\ UNCHANGED chan

-----------------------------------------------------------------------------
(* Stop: finish_remote_capture and the deferred cleanup.                   *)

StopBegins ==
    /\ Idle
    /\ run' = [run EXCEPT !.state = "draining"]
    /\ IF ~ffi.owner
       THEN /\ ffi' = [ffi EXCEPT !.pc = "join"] /\ UNCHANGED <<lane, group>>
       ELSE IF Usable(Canonical)
            THEN /\ ffi' = [ffi EXCEPT !.pc = "finish"]
                 /\ UNCHANGED <<lane, group>>
            ELSE /\ ffi' = [ffi EXCEPT !.pc = "drain"]
                 /\ group' = [group EXCEPT !.cancelled = TRUE]
                 /\ Abort
    /\ UNCHANGED <<chan, col>>

(* Mutant: the deadline of the stream tasks is missing.                    *)
StreamsAwaited ==
    /\ ffi.pc = "finish"
    /\ \A l \in Lane : lane[l].phase = "over"
    /\ ffi' = [ffi EXCEPT !.pc = "drain"]
    /\ UNCHANGED <<lane, group, chan, col, run>>

(* Every stream task ended within the deadline, or all are aborted.        *)
StreamsJoined ==
    /\ ffi.pc = "finish"
    /\ \/ /\ \A l \in Lane : lane[l].phase = "over"
          /\ UNCHANGED <<lane, group>>
       \/ /\ \E l \in Lane : lane[l].phase # "over"
          /\ Abort /\ group' = [group EXCEPT !.cancelled = TRUE]
    /\ ffi' = [ffi EXCEPT !.pc = "drain"]
    /\ UNCHANGED <<chan, col, run>>

(* persist_remote_shutdown_failure: written only where no cause is recorded.*)
Shutdown(r) ==
    IF r.cause THEN r
    ELSE WithHealth(r, IF r.health = "connecting" THEN "unavailable"
                       ELSE "degraded", TRUE)

(* Mutant: a collector that has not drained in time is left to itself.     *)
CollectorLeft ==
    /\ ffi.pc = "drain"
    /\ ffi' = [ffi EXCEPT !.pc = "join", !.owner = FALSE]
    /\ UNCHANGED <<col, run>>
    /\ UNCHANGED <<lane, chan, group>>

(* The collector is joined before anything is projected, or aborted after  *)
(* its own budget; a failure is written only where none is recorded.       *)
CollectorJoined ==
    /\ ffi.pc = "drain"
    /\ ffi' = [ffi EXCEPT !.pc = "join", !.owner = FALSE]
    /\ \/ /\ col.pc = "ended" /\ UNCHANGED <<col, run>>
       \/ /\ col' = [col EXCEPT !.pc = IF Collecting THEN "aborted" ELSE @]
          /\ run' = Shutdown(run)
    /\ UNCHANGED <<lane, chan, group>>

(* join_pending_remote_capture_cleanup, then the journal is finalized.     *)
StopEnds ==
    /\ ffi.pc = "join" /\ ffi.cleanup # "running"
    /\ ffi' = [ffi EXCEPT !.pc = "ended"]
    /\ run' \in (IF ffi.cleanup = "done" /\ run.state = "draining"
                 THEN {run, Shutdown(run)} ELSE {run})
    /\ UNCHANGED <<lane, chan, col, group>>

-----------------------------------------------------------------------------
Done == ffi.pc = "ended" /\ UNCHANGED vars

Lanes == \E l \in Lane :
    LaneConnects(l) \/ LaneDrops(l) \/ LaneRecovers(l) \/ LaneResponds(l)
    \/ LaneEnds(l) \/ LaneSilenced(l)
Next == \/ Lanes
        \/ \E l \in Lane : Collect(l)
        \/ CollectorEnds \/ Push \/ PushFails \/ CleanupEnds \/ PauseOrResume
        \/ ControlFails \/ StopBegins \/ StreamsJoined \/ CollectorJoined
        \/ StopEnds \/ Done

(* A stop runs on bounded waits; so does the deferred cleanup.             *)
Spec == /\ Init /\ [][Next]_vars
        /\ WF_vars(StreamsJoined) /\ WF_vars(CollectorJoined)
        /\ WF_vars(CleanupEnds) /\ WF_vars(StopEnds)

-----------------------------------------------------------------------------
(* Properties.                                                             *)

(* While the group's owner is there, a run that says live has every lane   *)
(* connected and none dead in the collector's eyes, whoever wrote the      *)
(* health last (collect_stream_events, push_notebook_capture_session).     *)
LiveIsTrue ==
    (run.health = "live" /\ ffi.owner /\ Collecting) =>
        \A l \in Lane : col.lane[l].connected /\ ~col.lane[l].failed

(* The group's state is well formed, and its health is the lanes'.          *)
HealthIsTrue == GroupTypeOK /\ LiveIsTrue

(* A dead lane stays dead: events its task had already emitted neither     *)
(* connect it again nor open a tail on it ("those late events cannot       *)
(* resurrect or append to a lane whose timeline is already known to        *)
(* contain a hole").                                                       *)
TombstoneStaysDark ==
    [][\A l \in Lane : col.lane[l].failed =>
          /\ ~col.lane'[l].connected /\ col.lane'[l].failed
          /\ col.lane'[l].tail = col.lane[l].tail]_col

(* Short of a failing store, a refused Context receipt and what the FFI    *)
(* side does itself, the group of a running capture is only cancelled      *)
(* because its canonical lane died or every lane ended.                    *)
RoomSurvives ==
    (group.cancelled /\ ffi.owner /\ ffi.pc = "idle"
       /\ ~group.fault /\ ~group.refused) =>
        \/ col.lane[Canonical].failed
        \/ \A l \in Lane : lane[l].phase = "over"

(* Stop returns, whatever the lanes and the collector are doing, and then  *)
(* nobody writes the run's words or health any more: the collector was     *)
(* joined or aborted on every path ("It must be joined before projection   *)
(* so a detached tail cannot write").  A run that drains does so for good. *)
StopReturns == []<>(run.state = "draining" => ffi.pc = "ended" /\ ~Collecting)

(* notebook_capture_api.rs, Reconnecting: "an auxiliary outage degrades    *)
(* one column and the group stays on the air".  The same as RoomSurvives,  *)
(* also when the run carries a Context.                                    *)
GroupStaysOnTheAir ==
    (group.cancelled /\ ffi.owner /\ ffi.pc = "idle" /\ ~group.fault) =>
        \/ col.lane[Canonical].failed
        \/ \A l \in Lane : lane[l].phase = "over"

(* pause_notebook_capture_session: "A requested remote profile with no     *)
(* process-local provider owner must never silently cross Paused ->        *)
(* Recording while SQLite still says Live/Connecting."                     *)
NoOwnerIsNeverLive ==
    (run.state = "recording" /\ ~ffi.owner) => run.health # "live"
=============================================================================
