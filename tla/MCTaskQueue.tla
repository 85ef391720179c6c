----------------------------- MODULE MCTaskQueue -----------------------------
(***************************************************************************)
(* Two hand-overs whose receiver may be slow, fail or be gone: the work of *)
(* the task queue (two ids of one session, both retry policies the callers *)
(* use, two permits, two priorities), and the rows of a running capture on *)
(* their way to the screen (CaptureCallbacks).  The two share no state, so *)
(* a behaviour here is one of one of them.                                 *)
(***************************************************************************)
EXTENDS TaskQueue

MCPriority == {5, 10}
MCRetryPolicy == {1, 3}

CONSTANTS Utterance, MaxVersion, MaxRevision, MaxApplied, MaxFailure, MaxBuffered,
          NoEvent                                               \* of CaptureCallbacks
VARIABLES stored, changed, owner, mailbox, handed, inbox, direct, client, repair,
          announced, failures
screenVars == <<stored, changed, owner, mailbox, handed, inbox, direct, client,
                repair, announced, failures>>
Callbacks == INSTANCE CaptureCallbacks

ASSUME CallbacksAssumption == Callbacks!CallbackAssumption

VARIABLE part       \* what this behaviour is about

NoRow == [status |-> "absent", payload |-> CHOOSE p \in Payload : TRUE, priority |-> 5,
          retry_count |-> 0, max_retries |-> 1, lease |-> NoLease, created |-> 0]

WorkInit ==
    /\ part \in {"queue", "screen"}
    /\ QueueInit /\ Callbacks!CallbackInit
    /\ part = "screen" => tasks = [t \in Task |-> NoRow]

WorkNext ==
    \/ part = "queue" /\ QueueNext /\ UNCHANGED <<screenVars, part>>
    \/ part = "screen" /\ Callbacks!CallbackNext /\ UNCHANGED <<queueVars, part>>

(* The fairness of either, where it is the one that runs.                  *)
Shows == part = "screen"
WorkFairness ==
    /\ WF_queueVars(part = "queue" /\ Tick)
    /\ WF_screenVars(Shows /\ Callbacks!EmitChanged)
    /\ WF_screenVars(Shows /\ Callbacks!Deliver)
    /\ WF_screenVars(Shows /\ Callbacks!Submit)
    /\ WF_screenVars(Shows /\ Callbacks!DrainOne)
    /\ WF_screenVars(Shows /\ Callbacks!ResultArrives)
    /\ WF_screenVars(Shows /\ Callbacks!ReadSnapshot)
    /\ WF_screenVars(Shows /\ Callbacks!InstallSnapshot)
    /\ WF_screenVars(Shows /\ Callbacks!ReturnStop)

WorkSpec == WorkInit /\ [][WorkNext]_<<queueVars, screenVars, part>> /\ WorkFairness

(* What CaptureCallbacks says of the screen; see there.                     *)
ScreenIsWhole == Callbacks!ScreenIsWhole
EverythingArrives == Callbacks!EverythingArrives
=============================================================================
