-------------------------- MODULE CaptureLifecycle --------------------------
(***************************************************************************)
(* One microphone capture after another: start, push, pause, resume, stop, *)
(* interruption, the recovery of what a failed operation or a dead process *)
(* left behind, retention, user destruction, Delete Forever.               *)
(*                                                                         *)
(* Three threads of the core run an operation each.  "gate" holds          *)
(* capture_ownership_gate (start, stop, interrupt, purge; and the startup  *)
(* of the process, when nothing else runs).  "mic" holds the active-capture*)
(* mutex (push, pause, resume and the teardown of a failed push).  "ui"    *)
(* holds neither (destroy, soft delete, restore).  A fourth, the provider  *)
(* event collector of a session, writes remote health, facts and gaps.     *)
(*                                                                         *)
(* Every write to a store, key or file may fail, and the bounded join of a *)
(* cancelled collector may time out; MaxFault bounds how often.  One frame *)
(* stands for one pushed block.                                            *)
(***************************************************************************)
EXTENDS Integers, FiniteSets

CONSTANTS Session,        \* immutable session ids, each used by one start
          NoSession,
          MaxFrames,      \* bound on blocks pushed into one session
          ProgressEvery,  \* blocks between two durable progress writes
          MaxFault,       \* bound on failed writes and joins given up
          MaxCrash,       \* bound on process deaths
          RemoteEnabled,  \* profile.remote_realtime_enabled
          MaximumPrivacy, \* profile.privacy_level = "maximum"
          UserDeletes     \* users soft-delete, restore, destroy and purge

ASSUME CaptureAssumption ==
    /\ NoSession \notin Session
    /\ MaxFrames \in Nat /\ ProgressEvery \in Nat \ {0}
    /\ MaxFault \in Nat /\ MaxCrash \in Nat
    /\ {RemoteEnabled, MaximumPrivacy, UserDeletes} \subseteq BOOLEAN

VARIABLES run,       \* notebook_capture_runs, one row per session
          rec,       \* session_records
          index,     \* session_meta and audio_retention_chunks
          disk,      \* the journal, the chunk files and the session key
          text,      \* what the collector wrote: transcript facts, gaps
          tomb,      \* session_purge_jobs
          active,    \* active_notebook_capture
          detached,  \* detached_notebook_capture_runs
          op,        \* the operation of the gate and of the mic thread
          ui,        \* a destroy_session_audio_and_key in progress
          col,       \* the event collector of each session
          accepted,  \* captured_frames of each session's journal handle
          past,      \* what users and threads have done (history)
          budget     \* faults and crashes used up

dbVars == <<run, rec, index, text, tomb>>
memVars == <<active, detached>>
vars == <<run, rec, index, disk, text, tomb, active, detached, op, ui, col,
          accepted, past, budget>>

NoFile == -1
Thread == {"gate", "mic"}
Unfinished == {"recording", "paused", "draining"}
Terminal == {"completed", "interrupted", "failed"}
Health == {"off", "connecting", "live", "degraded", "unavailable"}

RunRow == [state : {"absent"} \cup Unfinished \cup Terminal, health : Health,
           cause : BOOLEAN, frames : 0..MaxFrames, path : BOOLEAN]
NoRun == [state |-> "absent", health |-> "off", cause |-> FALSE, frames |-> 0,
          path |-> FALSE]
RecRow == [status : {"none", "recording", "completed", "interrupted", "failed"},
           trashed : BOOLEAN]
NoRec == [status |-> "none", trashed |-> FALSE]
IndexRow == [path : BOOLEAN, ledger : {"none", "kept", "deleted"}]
NoIndex == [path |-> FALSE, ledger |-> "none"]
Files == [journal : NoFile..MaxFrames, chunks : NoFile..MaxFrames, key : BOOLEAN]
NoFiles == [journal |-> NoFile, chunks |-> NoFile, key |-> FALSE]

\* remote: the provider group is owned ("on"), cancelled with its join pending
\* ("cleanup"), or gone ("none").
Remote == {"on", "cleanup", "none"}
Owner == [s : Session \cup {NoSession}, state : Unfinished \cup {"none"},
          saved : 0..MaxFrames, remote : Remote]
NoOwner == [s |-> NoSession, state |-> "none", saved |-> 0, remote |-> "none"]

Step == {"idle", "create", "key", "journal", "attach", "remote", "rollback",
         "purge", "purge_files", "purge_rows", "purge_close",
         "shut", "mark", "stop_journal", "teardown", "redetach",
         "finalize", "meta", "ledger", "read", "write", "complete",
         "remove_journal", "retain_files", "retain_key",
         "interrupt_local", "report", "pick", "detach", "load", "down",
         "purges", "cas"}
Kind == {"none", "start", "stop", "interrupt", "teardown", "recover", "startup",
         "purge", "pause", "resume"}
Op == [pc : Step, kind : Kind, s : Session \cup {NoSession},
       state : Unfinished \cup {"none"}, remote : Remote, trashed : BOOLEAN,
       todo : SUBSET Session, starts : BOOLEAN, finalized : BOOLEAN,
       named : BOOLEAN]
Idle == [pc |-> "idle", kind |-> "none", s |-> NoSession, state |-> "none",
         remote |-> "none", trashed |-> FALSE, todo |-> {}, starts |-> FALSE,
         finalized |-> FALSE, named |-> FALSE]
Down == [Idle EXCEPT !.pc = "down"]
NoDestroy == [s |-> NoSession, key |-> FALSE, final |-> FALSE]

\* created: the run row was inserted.  started: start returned Ok.  erased: audio
\* that something was asked to delete.  retained: audio that retention set out to
\* delete.  outlived: captures whose end gave up on joining a collector at work.
Past == [created : SUBSET Session, started : SUBSET Session,
         erased : SUBSET Session, retained : SUBSET Session,
         outlived : SUBSET Session]

At(th, pc) == op[th].pc = pc
Sub(th) == op[th].s
Up == ~At("gate", "down") /\ op["gate"].kind # "startup"
GateFree == At("gate", "idle")
\* A push or pause in progress, or the teardown of a failed one, holds the
\* active-capture mutex.
MutexFree == At("mic", "idle")

\* A thread has an operation on s under way, or about to begin.
WorksOn(th, s) == ~At(th, "idle") /\ (Sub(th) = s \/ s \in op[th].todo)

Fine == UNCHANGED budget
Fault == budget.fault < MaxFault /\ budget' = [budget EXCEPT !.fault = @ + 1]
\* A call that returns an error: refused, or failed although it was allowed.
Errs(allowed) == IF allowed THEN Fault ELSE Fine

Become(th, o) == op' = [op EXCEPT ![th] = o]
Goto(th, pc) == Become(th, [op[th] EXCEPT !.pc = pc])
Remember(key, s) == past' = [past EXCEPT ![key] = @ \cup {s}]

\* detached_notebook_capture_runs.insert
RegisterNothing(s) == UNCHANGED detached
RegisterDetached(s) == detached' = detached \cup {s}

Row(s, r) == run' = [run EXCEPT ![s] = r]
InterruptedStillLive(r) == [r EXCEPT !.state = "interrupted"]
Interrupted(r) == [r EXCEPT !.state = "interrupted", !.health = "off"]
Blamed(r, h) == [r EXCEPT !.health = h, !.cause = TRUE]

Init ==
    /\ run = [s \in Session |-> NoRun]
    /\ rec = [s \in Session |-> NoRec]
    /\ index = [s \in Session |-> NoIndex]
    /\ disk = [s \in Session |-> NoFiles]
    /\ text = [s \in Session |-> {}]
    /\ tomb = {}
    /\ active = NoOwner
    /\ detached = {}
    /\ op = [th \in Thread |-> Idle]
    /\ ui = NoDestroy
    /\ col = [s \in Session |-> "none"]
    /\ accepted = [s \in Session |-> 0]
    /\ past = [created |-> {}, started |-> {}, erased |-> {}, retained |-> {},
               outlived |-> {}]
    /\ budget = [fault |-> 0, crash |-> 0]

-----------------------------------------------------------------------------
(* start_notebook_capture_session *)

\* The microphone must be free; detached captures are recovered first.
StartCapture ==
    /\ Up /\ GateFree /\ MutexFree /\ active = NoOwner
    /\ Session \ past.created # {}
    /\ Become("gate", [Idle EXCEPT !.pc = "pick", !.kind = "recover",
                                   !.todo = detached, !.starts = TRUE])
    /\ UNCHANGED <<dbVars, memVars, disk, ui, col, accepted, past, budget>>

\* The row of a start names its key and its journal before either exists.
NewRun == [NoRun EXCEPT !.state = "recording",
                        !.health = IF RemoteEnabled THEN "connecting" ELSE "off"]

\* create_session_and_run: catalogue row, privacy row and run in one
\* transaction, before any file or key exists.
CreateRun(s) ==
    /\ At("gate", "create")
    /\ s \notin past.created
    /\ Row(s, NewRun)
    /\ rec' = [rec EXCEPT ![s].status = "recording"]
    /\ Remember("created", s)
    /\ Become("gate", [op["gate"] EXCEPT !.pc = "key", !.s = s])
    /\ UNCHANGED <<index, disk, text, tomb, memVars, ui, col, accepted, budget>>

\* A provider may report an error after publishing the key.
StoreKey ==
    /\ At("gate", "key")
    /\ \E stored \in BOOLEAN :
          /\ disk' = [disk EXCEPT ![Sub("gate")].key = stored]
          /\ \/ stored /\ Fine /\ Goto("gate", "journal")
             \/ Fault /\ Goto("gate", "rollback")
    /\ UNCHANGED <<dbVars, memVars, ui, col, accepted, past>>

\* CaptureAudioJournal::start: a header that cannot be written is removed.
JournalCreated(s) == disk' = [disk EXCEPT ![s].journal = 0]

OpenJournal ==
    /\ At("gate", "journal")
    /\ \/ Fine /\ Goto("gate", "attach") /\ JournalCreated(Sub("gate"))
       \/ /\ Fault /\ Goto("gate", "rollback")
          /\ UNCHANGED disk
    /\ UNCHANGED <<dbVars, memVars, ui, col, accepted, past>>

\* The context snapshot and the notebook link.
AttachSession ==
    /\ At("gate", "attach")
    /\ \/ Fine /\ Goto("gate", "remote")
       \/ Fault /\ Goto("gate", "rollback")
    /\ UNCHANGED <<dbVars, memVars, disk, ui, col, accepted, past>>

Publish(s, remote) ==
    /\ active' = [s |-> s, state |-> "recording", saved |-> 0, remote |-> remote]
    /\ Remember("started", s)
    /\ Become("gate", Idle)

\* The provider group starts, is not asked for, or is unavailable; the last is
\* recorded before the capture may be published without a provider.
StartRemote ==
    LET s == Sub("gate")
    IN  /\ At("gate", "remote")
        /\ \/ /\ RemoteEnabled /\ Fine
              /\ Publish(s, "on")
              /\ col' = [col EXCEPT ![s] = "running"]
              /\ UNCHANGED run
           \/ /\ RemoteEnabled /\ Fine
              /\ Publish(s, "none")
              /\ Row(s, Blamed(run[s], "unavailable"))
              /\ UNCHANGED col
           \/ /\ RemoteEnabled /\ Fault
              /\ Goto("gate", "rollback")
              /\ UNCHANGED <<run, col, active, past>>
           \/ /\ ~RemoteEnabled /\ Fine
              /\ Publish(s, "none")
              /\ UNCHANGED <<run, col>>
        /\ UNCHANGED <<rec, index, disk, text, tomb, detached, ui, accepted>>

\* transition_capture(Recording, Failed), its error ignored, then the purge
\* saga of rollback_failed_capture_start.
Rollback ==
    LET s == Sub("gate")
    IN  /\ At("gate", "rollback")
        /\ \/ Fine /\ Row(s, [run[s] EXCEPT !.state = "failed", !.health = "off"])
           \/ Fault /\ UNCHANGED run
        /\ Goto("gate", "purge")
        /\ UNCHANGED <<rec, index, disk, text, tomb, memVars, ui, col, accepted, past>>

-----------------------------------------------------------------------------
(* purge_session_forever *)

PurgeUnlocked(s) ==
    /\ Up /\ GateFree
    /\ active.s # s
    /\ rec[s].status # "none" \/ s \in tomb
    /\ Become("gate", [Idle EXCEPT !.pc = "purge", !.kind = "purge", !.s = s])
    /\ UNCHANGED <<dbVars, memVars, disk, ui, col, accepted, past, budget>>

PurgeForever(s) ==
    /\ Up /\ GateFree /\ MutexFree
    /\ active.s # s
    /\ rec[s].status # "none" \/ s \in tomb
    /\ Become("gate", [Idle EXCEPT !.pc = "purge", !.kind = "purge", !.s = s])
    /\ UNCHANGED <<dbVars, memVars, disk, ui, col, accepted, past, budget>>

\* A job already there is returned as it is.
MayPurge(s) == s \in tomb \/ run[s].state \notin Unfinished

BeginPurge ==
    LET s == Sub("gate")
    IN  /\ At("gate", "purge")
        /\ \/ /\ MayPurge(s) /\ Fine
              /\ tomb' = tomb \cup {s}
              /\ Remember("erased", s)
              /\ Goto("gate", "purge_files")
           \/ /\ Errs(MayPurge(s))
              /\ Become("gate", Idle)
              /\ UNCHANGED <<tomb, past>>
        /\ UNCHANGED <<run, rec, index, disk, text, memVars, ui, col, accepted>>

PurgeEndsBusy == Goto("gate", IF op["gate"].kind = "startup" THEN "purges" ELSE "idle")

\* The saga is over, or failed in a phase and keeps its tombstone for the next
\* attempt; startup goes on with the other jobs.
PurgeEnds ==
    IF op["gate"].kind = "startup" THEN Goto("gate", "purges")
                                   ELSE Become("gate", Idle)

\* delete_session_purge_external_artifacts: files and directory, then the key.
PurgeFiles ==
    LET s == Sub("gate")
    IN  /\ At("gate", "purge_files")
        /\ \/ /\ Fine /\ Goto("gate", "purge_rows")
              /\ disk' = [disk EXCEPT ![s] = NoFiles]
           \/ /\ Fault /\ PurgeEnds
              /\ \E j \in {disk[s].journal, NoFile}, c \in {disk[s].chunks, NoFile} :
                    disk' = [disk EXCEPT ![s].journal = j, ![s].chunks = c]
        /\ UNCHANGED <<dbVars, memVars, ui, col, accepted, past>>

\* purge_session_artifacts: one transaction.
PurgeRows ==
    LET s == Sub("gate")
    IN  /\ At("gate", "purge_rows")
        /\ \/ /\ Fine /\ Goto("gate", "purge_close")
              /\ Row(s, NoRun)
              /\ rec' = [rec EXCEPT ![s] = NoRec]
              /\ index' = [index EXCEPT ![s] = NoIndex]
              /\ text' = [text EXCEPT ![s] = {}]
           \/ /\ Fault /\ PurgeEnds
              /\ UNCHANGED <<run, rec, index, text>>
        /\ UNCHANGED <<tomb, memVars, disk, ui, col, accepted, past>>

PurgeClose ==
    /\ At("gate", "purge_close")
    /\ \/ Fine /\ tomb' = tomb \ {Sub("gate")}
       \/ Fault /\ UNCHANGED tomb
    /\ PurgeEnds
    /\ UNCHANGED <<run, rec, index, text, memVars, disk, ui, col, accepted, past>>

-----------------------------------------------------------------------------
(* push_notebook_capture_session and pause_notebook_capture_session: the mic *)
(* thread, under the active-capture mutex.                                   *)

\* The owner leaves the slot with the failed operation, which keeps the mutex
\* locked until the teardown has converged.
TakeOver(o) ==
    /\ active' = NoOwner
    /\ Become("mic", [Idle EXCEPT !.pc = "shut", !.kind = "interrupt", !.s = o.s,
                                  !.state = o.state, !.remote = o.remote])

\* A block the journal has: written, and counted by the journal handle.
Journaled(s) ==
    /\ disk' = [disk EXCEPT ![s].journal = @ + 1]
    /\ accepted' = [accepted EXCEPT ![s] = @ + 1]

CanPush ==
    /\ Up /\ MutexFree
    /\ active.state = "recording"
    /\ accepted[active.s] < MaxFrames

\* The write fails, or it succeeds and the periodic sync after it fails.
PushNotJournaled ==
    /\ CanPush /\ Fault
    /\ \/ UNCHANGED <<disk, accepted>>
       \/ Journaled(active.s)
    /\ TakeOver(active)
    /\ UNCHANGED <<dbVars, detached, ui, col, past>>

ProgressDue == accepted[active.s] + 1 - active.saved >= ProgressEvery

ProgressAhead(r, n) == [r EXCEPT !.frames = IF n < MaxFrames THEN n + 1 ELSE n]
\* update_audio_progress
Progress(r, n) == [r EXCEPT !.frames = n]

PushNotRecorded ==
    /\ CanPush /\ ProgressDue /\ Fault
    /\ Journaled(active.s)
    /\ TakeOver(active)
    /\ UNCHANGED <<dbVars, detached, ui, col, past>>

\* The row after the progress write of a push, and after the fan-out failed: a
\* cause already recorded is kept with its health.
PushedRow ==
    IF ProgressDue THEN Progress(run[active.s], accepted[active.s] + 1) ELSE run[active.s]
BackpressureRow ==
    IF PushedRow.cause THEN PushedRow ELSE Blamed(PushedRow, "degraded")
PushedOwner == [active EXCEPT !.saved = IF ProgressDue THEN accepted[active.s] + 1 ELSE @]

\* The group takes the block: it is not cancelled, as it is once its collector
\* has returned.
PushBlock ==
    /\ CanPush /\ Fine
    /\ active.remote = "on" => col[active.s] = "running"
    /\ Journaled(active.s)
    /\ Row(active.s, PushedRow)
    /\ active' = PushedOwner
    /\ UNCHANGED <<rec, index, text, tomb, detached, op, ui, col, past>>

\* The canonical lane cannot take it: the group is cancelled, joining it is
\* left to whoever ends the capture, and recording goes on.
PushBackpressure ==
    /\ CanPush /\ active.remote = "on"
    /\ Journaled(active.s)
    /\ \/ /\ Fine
          /\ Row(active.s, BackpressureRow)
          /\ active' = [PushedOwner EXCEPT !.remote = "cleanup"]
          /\ UNCHANGED op
       \/ /\ Fault
          /\ Row(active.s, PushedRow)
          /\ TakeOver([active EXCEPT !.remote = "cleanup"])
    /\ UNCHANGED <<rec, index, text, tomb, detached, ui, col, past>>

MissingRemote == RemoteEnabled /\ active.remote # "on"

\* missing_remote_truth; or the overlay that an earlier failed write left, which
\* says degraded.
MissingRows(r) ==
    {Blamed(r, IF r.health \in {"live", "degraded"} THEN "degraded" ELSE "unavailable"),
     Blamed(r, "degraded")}

\* A capture whose provider is gone has that on record before it may resume; a
\* pause goes on without.
PausePreflight(kind) ==
    LET s == active.s
    IN  /\ Up /\ MutexFree
        /\ active.state = IF kind = "pause" THEN "recording" ELSE "paused"
        /\ \/ /\ ~MissingRemote \/ run[s].health \in {"degraded", "unavailable"}
              /\ Fine /\ UNCHANGED run
           \/ /\ MissingRemote /\ run[s].health \notin {"degraded", "unavailable"}
              /\ \/ Fine /\ \E r \in MissingRows(run[s]) : Row(s, r)
                 \/ kind = "pause" /\ Fault /\ UNCHANGED run
        /\ Become("mic", [Idle EXCEPT !.pc = "cas", !.kind = kind, !.s = s])
        /\ UNCHANGED <<rec, index, text, tomb, memVars, disk, ui, col, accepted, past>>

Wanted == IF op["mic"].kind = "pause" THEN "paused" ELSE "recording"
Previous == IF op["mic"].kind = "pause" THEN "recording" ELSE "paused"

\* The state is swapped; the control reaches the group, or there is none.
PauseCommits ==
    LET s == Sub("mic")
    IN  /\ At("mic", "cas") /\ run[s].state = Previous /\ Fine
        /\ active.remote = "on" => col[s] = "running"
        /\ Row(s, [run[s] EXCEPT !.state = Wanted])
        /\ active' = [active EXCEPT !.state = Wanted]
        /\ Become("mic", Idle)
        /\ UNCHANGED <<rec, index, text, tomb, detached, disk, ui, col, accepted, past>>

PauseRefused ==
    /\ At("mic", "cas") /\ Errs(run[Sub("mic")].state = Previous)
    /\ Become("mic", Idle)
    /\ UNCHANGED <<dbVars, memVars, disk, ui, col, accepted, past>>

\* The swap is made but the control is not delivered: the group is shut down
\* and joined, and the degraded health is recorded.  If it is not, a pause
\* stands, a resume is rolled back, and a failed rollback ends the capture.
PauseControlFails ==
    LET s == Sub("mic")
        swapped == [run[s] EXCEPT !.state = Wanted]
        lost == [active EXCEPT !.state = Wanted, !.remote = "none"]
        f == budget.fault
    IN  /\ At("mic", "cas") /\ run[s].state = Previous
        /\ active.remote = "on"
        /\ col' = [col EXCEPT ![s] = "none"]
        /\ \/ /\ Fine
              /\ Row(s, Blamed(swapped, "degraded"))
              /\ active' = lost /\ Become("mic", Idle)
           \/ /\ Wanted = "paused" /\ Fault
              /\ Row(s, swapped)
              /\ active' = lost /\ Become("mic", Idle)
           \/ /\ Wanted = "recording" /\ Fault
              /\ UNCHANGED run
              /\ active' = [lost EXCEPT !.state = "paused"] /\ Become("mic", Idle)
           \/ /\ Wanted = "recording"
              /\ f + 2 <= MaxFault /\ budget' = [budget EXCEPT !.fault = f + 2]
              /\ Row(s, swapped)
              /\ TakeOver(lost)
        /\ UNCHANGED <<rec, index, text, tomb, detached, disk, ui, accepted, past>>

-----------------------------------------------------------------------------
(* stop, interrupt, and the teardown of a failed push *)

\* Draining is committed and the owner handed to the detached registry under
\* one hold of the mutex.
StopCapture(s) ==
    /\ Up /\ GateFree /\ MutexFree
    /\ active.s = s /\ run[s].state = active.state
    /\ Row(s, [run[s] EXCEPT !.state = "draining"])
    /\ RegisterDetached(s)
    /\ active' = NoOwner
    /\ Become("gate", [Idle EXCEPT !.pc = "shut", !.kind = "stop", !.s = s,
                                   !.state = "draining", !.remote = active.remote])
    /\ UNCHANGED <<rec, index, text, tomb, disk, ui, col, accepted, past, budget>>

InterruptCapture(s) ==
    /\ Up /\ GateFree /\ MutexFree
    /\ active.s = s
    /\ active' = NoOwner
    /\ Become("gate", [Idle EXCEPT !.pc = "shut", !.kind = "interrupt", !.s = s,
                                   !.state = active.state, !.remote = active.remote])
    /\ UNCHANGED <<dbVars, detached, disk, ui, col, accepted, past, budget>>

\* With no owner at all, a session this process detached is recovered.
InterruptOwnerless(s) ==
    /\ Up /\ GateFree /\ MutexFree
    /\ active = NoOwner /\ s \in detached /\ run[s].state # "absent"
    /\ Become("gate", [Idle EXCEPT !.pc = "pick", !.kind = "recover", !.todo = {s}])
    /\ UNCHANGED <<dbVars, memVars, disk, ui, col, accepted, past, budget>>

\* finish_remote_capture, shutdown_failed_remote_capture: the collector is
\* joined, or aborted and awaited.  join_pending_remote_capture_cleanup gives
\* up on the joining task instead, and a collector inside a store call goes on.
\* persist_remote_shutdown_failure is best effort.
Joined(o) ==
    \/ /\ col' = [col EXCEPT ![o.s] = "none"]
       /\ Fine /\ UNCHANGED past
    \/ /\ o.remote = "cleanup" /\ col[o.s] = "running" /\ Fault
       /\ col' = [col EXCEPT ![o.s] = "late"]
       /\ Remember("outlived", o.s)
ShutdownRows(r) ==
    {r, Blamed(r, IF r.health = "connecting" THEN "unavailable" ELSE "degraded")}

ShutRemote(th) ==
    LET o == op[th]
    IN  /\ At(th, "shut")
        /\ Joined(o)
        /\ IF o.kind = "stop"
           THEN /\ IF o.remote = "none" THEN UNCHANGED run
                                        ELSE \E r \in ShutdownRows(run[o.s]) : Row(o.s, r)
                /\ Goto(th, "stop_journal")
           ELSE UNCHANGED run /\ Goto(th, "mark")
        /\ UNCHANGED <<rec, index, text, tomb, memVars, disk, ui, accepted>>

\* interrupt_capture, interrupt_local_persistence
MarkInterrupted(th) ==
    LET o == op[th]
    IN  /\ At(th, "mark")
        /\ \/ /\ run[o.s].state = o.state /\ Fine
              /\ Row(o.s, Blamed(Interrupted(run[o.s]), "off"))
              /\ Goto(th, "stop_journal")
           \/ /\ Errs(run[o.s].state = o.state) /\ UNCHANGED run
              /\ Goto(th, "teardown")
        /\ UNCHANGED <<rec, index, text, tomb, memVars, disk, ui, col, accepted, past>>

\* Where an operation goes when finalizing or indexing the audio fails.
Failed(o) ==
    CASE o.kind = "stop" -> [o EXCEPT !.pc = "interrupt_local"]
      [] o.kind = "interrupt" -> [o EXCEPT !.pc = "report"]
      [] o.kind = "teardown" -> Idle
      [] o.kind \in {"recover", "startup"} -> [o EXCEPT !.pc = "pick"]

ChunksLoseTail(s) ==
    disk' = [disk EXCEPT ![s].chunks = IF disk[s].journal > 0 THEN disk[s].journal - 1 ELSE 0]

\* recover_capture_audio_journal: every complete record becomes chunks; a
\* failure leaves the chunks written so far.
ChunksWritten(s) == disk' = [disk EXCEPT ![s].chunks = disk[s].journal]
ChunksPartly(s) ==
    IF disk[s].chunks = disk[s].journal THEN UNCHANGED disk
    ELSE \E n \in NoFile..disk[s].journal : disk' = [disk EXCEPT ![s].chunks = n]

\* CaptureAudioJournal::stop
StopJournal(th) ==
    LET o == op[th]
    IN  /\ At(th, "stop_journal")
        /\ \/ Fine /\ ChunksWritten(o.s) /\ Goto(th, "finalize")
           \/ Fault /\ ChunksPartly(o.s) /\ Become(th, Failed(o))
        /\ UNCHANGED <<dbVars, memVars, ui, col, accepted, past>>

DetachedAny(r) == IF r.state = "absent" THEN r ELSE Interrupted(r)

\* recover_detached_unfinished_run; recover_unfinished_runs does it to all.
DetachedRow(r) == IF r.state \in Unfinished THEN Interrupted(r) ELSE r

\* teardown_after_interrupt_persistence_failure: the journal is closed, the run
\* registered as detached and moved to interrupted without the caller's reason.
TeardownJournal(th) ==
    LET s == Sub(th)
    IN  /\ At(th, "teardown")
        /\ \/ Fine /\ ChunksWritten(s)
              /\ Become(th, [op[th] EXCEPT !.pc = "redetach", !.finalized = TRUE])
           \/ Fault /\ ChunksPartly(s) /\ Goto(th, "redetach")
        /\ RegisterDetached(s)
        /\ UNCHANGED <<dbVars, active, ui, col, accepted, past>>

TeardownRow(th) ==
    LET o == op[th]
    IN  /\ At(th, "redetach")
        /\ \/ /\ Fine
              /\ Row(o.s, DetachedRow(run[o.s]))
              /\ detached' = detached \ {o.s}
              /\ Become(th, IF o.finalized
                            THEN [o EXCEPT !.pc = "finalize", !.kind = "teardown"]
                            ELSE Idle)
           \/ /\ Fault /\ UNCHANGED <<run, detached>>
              /\ Become(th, Idle)
        /\ UNCHANGED <<rec, index, text, tomb, active, disk, ui, col, accepted, past>>

-----------------------------------------------------------------------------
(* Indexing finalized audio: run row, session_meta, retention ledger,        *)
(* catalogue row, and only then the removal of the journal.                  *)

OnlyOp(th) == UNCHANGED <<rec, index, text, tomb, memVars, disk, ui, col, accepted, past>>

\* finalize_audio, finalize_interrupted_audio: the frame count never shrinks.
FinalizeAudio(th) ==
    LET o == op[th]
        n == IF o.kind \in {"recover", "startup"} THEN disk[o.s].journal ELSE accepted[o.s]
        allowed == /\ run[o.s].state = IF o.kind = "stop" THEN "draining" ELSE "interrupted"
                   /\ run[o.s].frames <= n
    IN  /\ At(th, "finalize")
        /\ \/ /\ allowed /\ Fine
              /\ Row(o.s, [run[o.s] EXCEPT !.path = TRUE, !.frames = n])
              /\ Goto(th, "meta")
           \/ Errs(allowed) /\ UNCHANGED run /\ Become(th, Failed(o))
        /\ OnlyOp(th)

Indexing(th, pc, row, next) ==
    LET o == op[th]
    IN  /\ At(th, pc)
        /\ \/ Fine /\ index' = [index EXCEPT ![o.s] = row] /\ Goto(th, next)
           \/ Fault /\ UNCHANGED index /\ Become(th, Failed(o))
        /\ UNCHANGED <<run, rec, text, tomb, memVars, disk, ui, col, accepted, past>>

IndexMetaOnly(th) == Indexing(th, "meta", [index[Sub(th)] EXCEPT !.path = TRUE], "read")

\* set_encrypted_path (the path and the key id) and set_audio_format
IndexMeta(th) == Indexing(th, "meta", [index[Sub(th)] EXCEPT !.path = TRUE], "ledger")
\* record_source_audio_retention_chunks_strict
IndexLedger(th) == Indexing(th, "ledger", [index[Sub(th)] EXCEPT !.ledger = "kept"], "read")

\* get_session, and later insert_session of the whole row.
ReadRecord(th) ==
    /\ At(th, "read")
    /\ \/ Fine /\ Become(th, [op[th] EXCEPT !.pc = "write", !.trashed = rec[Sub(th)].trashed])
       \/ Fault /\ Become(th, Failed(op[th]))
    /\ UNCHANGED run /\ OnlyOp(th)

WriteRecord(th) ==
    LET o == op[th]
    IN  /\ At(th, "write")
        /\ \/ /\ Fine
              /\ rec' = [rec EXCEPT ![o.s] =
                    [status |-> IF o.kind = "stop" THEN "completed" ELSE "interrupted",
                     trashed |-> o.trashed]]
              /\ Goto(th, IF o.kind = "stop" THEN "complete" ELSE "remove_journal")
           \/ Fault /\ UNCHANGED rec /\ Become(th, Failed(o))
        /\ UNCHANGED <<run, index, text, tomb, memVars, disk, ui, col, accepted, past>>

CompleteRun(th) ==
    LET o == op[th]
    IN  /\ At(th, "complete")
        /\ \/ /\ run[o.s].state = "draining" /\ Fine
              /\ Row(o.s, [run[o.s] EXCEPT !.state = "completed", !.health = "off"])
              /\ Goto(th, "remove_journal")
           \/ Errs(run[o.s].state = "draining") /\ UNCHANGED run /\ Become(th, Failed(o))
        /\ OnlyOp(th)

\* The detached marker goes with the last step of a stop and of a recovery.  A
\* journal that cannot be removed fails a recovery and is only logged otherwise.
RemoveJournal(th) ==
    LET o == op[th]
    IN  /\ At(th, "remove_journal")
        /\ \/ /\ Fine
              /\ disk' = [disk EXCEPT ![o.s].journal = NoFile]
              /\ detached' = IF o.kind \in {"stop", "recover"} THEN detached \ {o.s} ELSE detached
           \/ /\ Fault /\ UNCHANGED disk
              /\ detached' = IF o.kind = "stop" THEN detached \ {o.s} ELSE detached
        /\ Become(th, CASE o.kind = "stop" ->
                               IF MaximumPrivacy THEN [o EXCEPT !.pc = "retain_files"] ELSE Idle
                        [] o.kind \in {"recover", "startup"} -> [o EXCEPT !.pc = "pick"]
                        [] OTHER -> Idle)
        /\ UNCHANGED <<dbVars, active, ui, col, accepted, past>>

-----------------------------------------------------------------------------
(* enforce_realtime_capture_retention of a completed stop *)

RetentionIgnoresGaps(s) == "facts" \in text[s]
RetentionApplies(s) == "facts" \in text[s] /\ "gap" \notin text[s]

\* enforce_privacy_after_task: the chunk files the ledger lists, then the key
\* the metadata names, then the references.
Shredded(s) ==
    IF index[s].ledger = "kept"
    THEN /\ disk' = [disk EXCEPT ![s].chunks = NoFile]
         /\ index' = [index EXCEPT ![s].ledger = "deleted"]
    ELSE UNCHANGED <<disk, index>>
\* The first file that cannot be deleted, or marked deleted, ends the call.
PartlyShredded(s) ==
    /\ UNCHANGED index
    /\ \E c \in {disk[s].chunks, IF index[s].ledger = "kept" THEN NoFile ELSE disk[s].chunks} :
          disk' = [disk EXCEPT ![s].chunks = c]
Retained(s) == past' = [past EXCEPT !.erased = @ \cup {s}, !.retained = @ \cup {s}]

\* The metadata is read before the files are deleted.
RetainFiles ==
    LET s == Sub("gate")
    IN  /\ At("gate", "retain_files")
        /\ \/ /\ ~RetentionApplies(s) /\ Fine
              /\ Become("gate", Idle)
              /\ UNCHANGED <<disk, index, past>>
           \/ /\ RetentionApplies(s) /\ Fine
              /\ Shredded(s) /\ Retained(s)
              /\ Become("gate", [op["gate"] EXCEPT !.pc = "retain_key", !.named = index[s].path])
           \/ /\ RetentionApplies(s) /\ Fault
              /\ PartlyShredded(s) /\ Retained(s)
              /\ Become("gate", Idle)
        /\ UNCHANGED <<run, rec, text, tomb, memVars, ui, col, accepted>>

\* A failure leaves the references that come after it.
RetainKey ==
    LET s == Sub("gate")
        keyGone == [disk EXCEPT ![s].key = @ /\ ~op["gate"].named]
        indexClear == [index EXCEPT ![s].path = FALSE]
    IN  /\ At("gate", "retain_key")
        /\ \/ /\ Fine
              /\ disk' = keyGone /\ index' = indexClear
              /\ Row(s, [run[s] EXCEPT !.path = FALSE])
           \/ /\ Fault
              /\ \/ UNCHANGED <<disk, index>>
                 \/ disk' = keyGone /\ index' \in {index, indexClear}
              /\ UNCHANGED run
        /\ Become("gate", Idle)
        /\ UNCHANGED <<rec, text, tomb, memVars, ui, col, accepted, past>>

-----------------------------------------------------------------------------
(* What a failed stop or interruption records, and recovery *)

\* record_local_persistence_interruption
InterruptLocal ==
    LET s == Sub("gate")
    IN  /\ At("gate", "interrupt_local")
        /\ \/ /\ run[s].state = "draining" /\ Fine
              /\ Row(s, Blamed(Interrupted(run[s]), "off"))
              /\ Become("gate", [Idle EXCEPT !.pc = "pick", !.kind = "recover", !.todo = {s}])
           \/ Errs(run[s].state = "draining") /\ UNCHANGED run /\ Become("gate", Idle)
        /\ OnlyOp("gate")

\* report_capture_interrupt_persistence_failure
ReportFailure(th) ==
    LET s == Sub(th)
    IN  /\ At(th, "report")
        /\ \/ Fine /\ Row(s, Blamed(run[s], "off")) /\ UNCHANGED detached
           \/ Fault /\ UNCHANGED run /\ RegisterDetached(s)
        /\ Become(th, Idle)
        /\ UNCHANGED <<rec, index, text, tomb, active, disk, ui, col, accepted, past>>

PickedAgain(o, s) ==
    [o EXCEPT !.pc = IF o.kind = "startup" THEN "load" ELSE "detach", !.s = s]
Picked(o, s) ==
    [o EXCEPT !.pc = IF o.kind = "startup" THEN "load" ELSE "detach", !.s = s,
              !.todo = @ \ {s}]

\* The next capture to recover; then the start that asked for it, the purges
\* of a startup, or nothing.
PickNext ==
    LET o == op["gate"]
    IN  /\ At("gate", "pick")
        /\ \/ \E s \in o.todo : Become("gate", Picked(o, s))
           \/ /\ o.todo = {} /\ o.kind = "startup"
              /\ Become("gate", [o EXCEPT !.pc = "purges", !.s = NoSession, !.todo = tomb])
           \/ /\ o.todo = {} /\ o.kind = "recover"
              /\ Become("gate", IF o.starts THEN [Idle EXCEPT !.pc = "create", !.kind = "start"]
                                            ELSE Idle)
        /\ UNCHANGED <<run, budget>> /\ OnlyOp("gate")

RecoverySkips == Goto("gate", "pick")
RecoveryFails == Become("gate", Idle)
\* A run that is gone, or terminal in another way, needs no recovery; an error
\* ends the operation, a start included.
RecoverRow ==
    LET s == Sub("gate")
    IN  /\ At("gate", "detach")
        /\ \/ /\ Fine
              /\ Row(s, DetachedRow(run[s]))
              /\ IF DetachedRow(run[s]).state = "interrupted"
                 THEN Goto("gate", "load") /\ UNCHANGED detached
                 ELSE Goto("gate", "pick") /\ detached' = detached \ {s}
           \/ Fault /\ RecoveryFails /\ UNCHANGED <<run, detached>>
        /\ UNCHANGED <<rec, index, text, tomb, active, disk, ui, col, accepted, past>>

\* recover_interrupted_capture_audio_run: from the journal while there is one,
\* else from the chunks already finalized.
RecoverAudio ==
    LET s == Sub("gate")
        fromJournal == disk[s].journal # NoFile /\ disk[s].key
        fromChunks == /\ disk[s].journal = NoFile /\ run[s].path
                      /\ disk[s].chunks = run[s].frames
    IN  /\ At("gate", "load")
        /\ \/ fromJournal /\ Fine /\ ChunksWritten(s) /\ Goto("gate", "finalize")
           \/ fromJournal /\ Fault /\ ChunksPartly(s) /\ Goto("gate", "pick")
           \/ fromChunks /\ Fine /\ UNCHANGED disk /\ Goto("gate", "meta")
           \/ fromChunks /\ Fault /\ UNCHANGED disk /\ Goto("gate", "pick")
           \/ ~fromJournal /\ ~fromChunks /\ Fine /\ UNCHANGED disk /\ Goto("gate", "pick")
        /\ UNCHANGED <<dbVars, memVars, ui, col, accepted, past>>

-----------------------------------------------------------------------------
(* Process death and startup *)

Crash ==
    /\ budget.crash < MaxCrash
    /\ budget' = [budget EXCEPT !.crash = @ + 1]
    /\ active' = NoOwner /\ detached' = {}
    /\ op' = [gate |-> Down, mic |-> Idle]
    /\ ui' = NoDestroy
    /\ col' = [s \in Session |-> "none"]
    /\ UNCHANGED <<dbVars, disk, accepted, past>>

\* mark_stale_as_failed (its error is logged), recover_unfinished_runs, then
\* the audio of every interrupted run.
StaleRow(r) == IF r.status = "recording" /\ ~r.trashed THEN [r EXCEPT !.status = "failed"] ELSE r
Startup ==
    /\ At("gate", "down")
    /\ \/ Fine /\ rec' = [s \in Session |-> StaleRow(rec[s])]
       \/ Fault /\ UNCHANGED rec
    /\ run' = [s \in Session |-> DetachedRow(run[s])]
    /\ Become("gate", [Idle EXCEPT !.pc = "pick", !.kind = "startup",
                                   !.todo = {s \in Session : run'[s].state = "interrupted"}])
    /\ UNCHANGED <<index, text, tomb, memVars, disk, ui, col, accepted, past>>

\* resume_pending_session_purges; then the process serves calls.
ResumePurges ==
    LET o == op["gate"]
    IN  /\ At("gate", "purges")
        /\ \/ \E s \in o.todo :
                 Become("gate", [o EXCEPT !.pc = "purge_files", !.s = s, !.todo = @ \ {s}])
           \/ o.todo = {} /\ Become("gate", Idle)
        /\ UNCHANGED <<run, budget>> /\ OnlyOp("gate")

-----------------------------------------------------------------------------
(* The event collector *)

\* update_remote_health with no cause keeps the recorded one, unless the group
\* is fully live.
CollectorRows(r) ==
    {[r EXCEPT !.health = "live", !.cause = FALSE]}
    \cup {[r EXCEPT !.health = h] : h \in {"connecting", "degraded"}}
    \cup {Blamed(r, h) : h \in {"degraded", "unavailable"}}

CollectorHealth(s) ==
    /\ col[s] # "none" /\ run[s].state # "absent"
    /\ \E r \in CollectorRows(run[s]) : Row(s, r)
    /\ UNCHANGED <<rec, index, text, tomb, memVars, disk, op, ui, col, accepted, past, budget>>

\* Utterances are accepted while the run is active, gaps at any time.
CollectorText(s) ==
    /\ col[s] # "none" /\ accepted[s] > 0 /\ run[s].state # "absent"
    /\ \E w \in {"facts", "gap"} :
          /\ w = "facts" => run[s].state \in Unfinished
          /\ text' = [text EXCEPT ![s] = @ \cup {w}]
    /\ UNCHANGED <<run, rec, index, tomb, memVars, disk, op, ui, col, accepted, past, budget>>

\* A failed write, a protocol error, or the end of the provider's streams.
CollectorEnds(s) ==
    /\ col[s] # "none"
    /\ col' = [col EXCEPT ![s] = "none"]
    /\ UNCHANGED <<dbVars, memVars, disk, op, ui, accepted, past, budget>>

-----------------------------------------------------------------------------
(* Calls that take neither the gate nor, past their first check, the mutex *)

SoftDelete(s) ==
    /\ Up /\ MutexFree
    /\ active.s # s /\ rec[s].status # "none" /\ ~rec[s].trashed
    /\ rec' = [rec EXCEPT ![s].trashed = TRUE]
    /\ UNCHANGED <<run, index, text, tomb, memVars, disk, op, ui, col, accepted, past, budget>>

Restore(s) ==
    /\ Up /\ rec[s].trashed
    /\ rec' = [rec EXCEPT ![s].trashed = FALSE]
    /\ UNCHANGED <<run, index, text, tomb, memVars, disk, op, ui, col, accepted, past, budget>>

\* enforce_destroy: the metadata is read, the listed chunk files are shredded; a
\* list that cannot be read counts as empty.
DestroyFiles(s) ==
    /\ Up /\ ui = NoDestroy
    /\ rec[s].status # "none"
    /\ Remember("erased", s)
    /\ \/ /\ \/ Fine /\ Shredded(s)
             \/ Fault /\ UNCHANGED <<disk, index>>
          /\ ui' = [s |-> s, key |-> index[s].path,
                    final |-> /\ run[s].state \in Terminal
                              /\ \A th \in Thread : ~WorksOn(th, s)]
       \/ Fault /\ PartlyShredded(s) /\ UNCHANGED ui
    /\ UNCHANGED <<run, rec, text, tomb, memVars, op, col, accepted>>

\* The key the metadata named when it was read, then the reference; errors are
\* ignored.
DestroyKey ==
    LET s == ui.s
        keyGone == [disk EXCEPT ![s].key = @ /\ ~ui.key]
        indexClear == [index EXCEPT ![s].path = FALSE]
    IN  /\ s # NoSession
        /\ \/ Fine /\ disk' = keyGone /\ index' = indexClear
           \/ ui.key /\ Fault /\ UNCHANGED disk /\ index' = indexClear
           \/ Fault /\ disk' = keyGone /\ UNCHANGED index
        /\ ui' = NoDestroy
        /\ UNCHANGED <<run, rec, text, tomb, memVars, op, col, accepted, past>>

-----------------------------------------------------------------------------
GateStep ==
    \/ \E s \in Session : CreateRun(s)
    \/ StoreKey \/ OpenJournal \/ AttachSession \/ StartRemote \/ Rollback
    \/ BeginPurge \/ PurgeFiles \/ PurgeRows \/ PurgeClose
    \/ RetainFiles \/ RetainKey \/ InterruptLocal
    \/ PickNext \/ RecoverRow \/ RecoverAudio \/ Startup \/ ResumePurges

EitherStep(th) ==
    \/ ShutRemote(th) \/ MarkInterrupted(th) \/ StopJournal(th)
    \/ TeardownJournal(th) \/ TeardownRow(th)
    \/ FinalizeAudio(th) \/ IndexMeta(th) \/ IndexLedger(th)
    \/ ReadRecord(th) \/ WriteRecord(th) \/ CompleteRun(th) \/ RemoveJournal(th)
    \/ ReportFailure(th)

PauseStep == PauseCommits \/ PauseRefused \/ PauseControlFails

Request ==
    \/ StartCapture
    \/ PushBlock \/ PushNotJournaled \/ PushNotRecorded \/ PushBackpressure
    \/ \E kind \in {"pause", "resume"} : PausePreflight(kind)
    \/ \E s \in Session : \/ StopCapture(s) \/ InterruptCapture(s)
                          \/ InterruptOwnerless(s)

UserRequest ==
    UserDeletes /\ \E s \in Session : \/ PurgeForever(s) \/ SoftDelete(s)
                                      \/ Restore(s) \/ DestroyFiles(s)

Collector == \E s \in Session : CollectorHealth(s) \/ CollectorText(s) \/ CollectorEnds(s)

Next ==
    \/ GateStep
    \/ \E th \in Thread : EitherStep(th)
    \/ PauseStep \/ DestroyKey
    \/ Request \/ UserRequest \/ Collector \/ Crash

Spec == Init /\ [][Next]_vars

\* The threads run the operations they have begun.
FairSpec ==
    Spec /\ WF_vars(GateStep \/ EitherStep("gate")) /\ WF_vars(PauseStep \/ EitherStep("mic"))

-----------------------------------------------------------------------------
(* Properties *)

\* Every variable has its shape, and a thread that is idle carries nothing.
TypeOK ==
    /\ run \in [Session -> RunRow] /\ rec \in [Session -> RecRow]
    /\ index \in [Session -> IndexRow] /\ disk \in [Session -> Files]
    /\ text \in [Session -> SUBSET {"facts", "gap"}] /\ tomb \subseteq Session
    /\ active \in Owner /\ detached \subseteq Session
    /\ op \in [Thread -> Op] /\ col \in [Session -> {"none", "running", "late"}]
    /\ ui \in [s : Session \cup {NoSession}, key : BOOLEAN, final : BOOLEAN]
    /\ accepted \in [Session -> 0..MaxFrames] /\ past \in Past
    /\ budget \in [fault : 0..MaxFault, crash : 0..MaxCrash]
    /\ \A th \in Thread : At(th, "idle") => op[th] = Idle

Kept(s) == s \in past.started /\ s \notin past.erased

\* No accepted block is lost, whatever write fails and wherever the process dies:
\* until somebody deletes the audio, the key is there and the journal holds
\* every block the microphone thread was told was taken; and the journal goes
\* only after the chunks hold every block and the run, the metadata, the
\* retention ledger and the catalogue all say so (recover_interrupted_capture_
\* audio_run: "removed only after every durable audio index commits").
AcceptedAudioSurvives ==
    \A s \in Session : Kept(s) =>
        /\ disk[s].key
        /\ \/ disk[s].journal = accepted[s]
           \/ /\ disk[s].journal = NoFile /\ disk[s].chunks = accepted[s]
              /\ run[s].path /\ run[s].frames = accepted[s]
              /\ index[s] = [path |-> TRUE, ledger |-> "kept"]
              /\ run[s].state \in {"completed", "interrupted"}
              /\ rec[s].status = run[s].state

\* A capture that was started and is not over has somebody who will end it: the
\* owner in the slot (whose state is the durable one), an operation at work on
\* it, or the detached marker by which the next start or interruption finds it.
UnfinishedHasOwner ==
    \A s \in Session : Up /\ s \in past.started /\ run[s].state \in Unfinished =>
        \/ active.s = s /\ active.state = run[s].state
        \/ \E th \in Thread : WorksOn(th, s)
        \/ s \in detached

\* A terminal run reports its provider off: no collector, deferred cleanup or
\* health write of the mic thread crosses the end of its capture, except that of
\* a collector which outlived the 1.2 s its end waits for it.
TerminalIsOff ==
    \A s \in Session : run[s].state \in Terminal /\ s \notin past.outlived
                         => run[s].health = "off"

\* Retention deletes a recording only when text can stand in for all of it: there
\* are transcript facts, and no outage left a gap, or none that was known, since
\* a collector that outlived its join may record one afterwards.
RetentionKeepsGaps ==
    \A s \in past.retained : run[s].state = "absent" \/
        /\ "facts" \in text[s]
        /\ "gap" \in text[s] => s \in past.outlived

\* Delete Forever and the rollback of a failed start leave nothing: once the run
\* and its tombstone are gone no file, key or index of the session exists, and
\* no teardown or recovery that was under way brings one back.
PurgeIsFinal ==
    \A s \in Session : run[s].state = "absent" /\ s \notin tomb =>
        disk[s] = NoFiles /\ index[s] = NoIndex /\ rec[s] = NoRec

\* Progress is honest: the durable frame count never exceeds what the journal or
\* the chunks can deliver while the audio is kept, and never shrinks, so that
\* finalize_interrupted_audio cannot refuse a recovery.
ProgressIsBacked ==
    \A s \in Session : Kept(s) /\ disk[s].journal # NoFile => run[s].frames <= disk[s].journal

\* Together: what was accepted is on disk, the row claims no more, and retention
\* takes only what text stands in for.
AudioIsKept == TypeOK /\ AcceptedAudioSurvives /\ ProgressIsBacked /\ RetentionKeepsGaps

\* The owner of an unfinished capture, and the provider of a finished one.
EndsAreOwned == UnfinishedHasOwner /\ TerminalIsOff

\* Every operation the gate or the mic thread has begun ends, the teardown that
\* holds the mutex and the startup after a crash included: no two of them wait
\* for each other.
OperationsEnd == \A th \in Thread : []<>(At(th, "idle"))

\* A soft delete that succeeded stands until it is restored or purged.
TrashIsKept ==
    [][\A s \in Session : rec[s].trashed /\ rec'[s].status # "none" /\ ~Restore(s)
                            => rec'[s].trashed]_vars

\* Resuming without a provider is never silent: the durable health of a capture
\* that leaves Paused without its provider group is not Live or Connecting.
ResumeIsHonest ==
    [][(/\ active.s # NoSession /\ active'.s = active.s
        /\ active.state = "paused" /\ active'.state = "recording" /\ MissingRemote)
       => run'[active.s].health \notin {"live", "connecting"}]_vars

\* A start that failed leaves no journal and no key behind, or the tombstone that
\* will remove them.
FailedStartIsClean ==
    \A s \in past.created \ past.started : ~WorksOn("gate", s) /\ Up =>
        s \in tomb \/ (disk[s].journal = NoFile /\ ~disk[s].key)

\* A destruction that returns leaves the audio of a finished session unreadable:
\* no key with a journal or a chunk.
DestroyedIsUnreadable ==
    [][DestroyKey /\ ui.final =>
        LET d == disk'[ui.s] IN d.key => d.journal = NoFile /\ d.chunks = NoFile]_vars

=============================================================================
