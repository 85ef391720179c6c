--------------------------- MODULE RemoteArtifacts ---------------------------
(***************************************************************************)
(* What one post-stop transcription leaves at the speech provider, and the *)
(* journal that is meant to find it again: the upload / create / poll /    *)
(* delete flow of soniox_async.rs, its observer that writes                *)
(* provider_remote_artifacts, and the worker's startup sweep.              *)
(*                                                                         *)
(* An artifact is named by the attempt that made it; all attempts of a     *)
(* task carry the same reference tag.  The provider may process a request  *)
(* after its sender has given up or died, or never.                        *)
(***************************************************************************)
EXTENDS Integers, FiniteSets

CONSTANTS Job,        \* stable task ids, one claim row each
          MaxAttempt,  \* bound on provider attempts of one task
          MaxCrash     \* bound on process deaths

ASSUME ArtifactAssumption == MaxAttempt \in Nat \ {0} /\ MaxCrash \in Nat

Attempt == 1..MaxAttempt
NoId == 0
Kind == {"file", "transcription"}
Artifact == [kind : Kind, task : Job, attempt : Attempt]

VARIABLES claim,     \* provider_remote_artifacts: one row, or none, per task
          remote,    \* artifacts that exist at the provider
          inflight,  \* create requests the provider has not processed yet
          acked,     \* artifacts whose id the client has been told (history)
          attempts,  \* provider attempts made for each task
          flow,      \* the one attempt the worker is running
          done,      \* tasks whose transcript was reported as a success
          failed,    \* tasks whose only provider attempt was reported failed
          sweep,     \* the startup sweep
          crashes

journalVars == <<claim, remote, inflight, acked, attempts, flow, done, failed,
                 sweep, crashes>>

art(k, t, n) == [kind |-> k, task |-> t, attempt |-> n]

ClaimRow == [open : BOOLEAN, file : 0..MaxAttempt, transcription : 0..MaxAttempt]
NoClaim == [open |-> FALSE, file |-> NoId, transcription |-> NoId]
FlowStep == {"idle", "opened", "uploading", "creating", "waiting",
             "delete_transcription", "delete_file", "close", "report"}
NoTask == "none"
FlowRow == [pc : FlowStep, task : Job \cup {NoTask}, file : 0..MaxAttempt,
            transcription : 0..MaxAttempt, ok : BOOLEAN, cleaned : BOOLEAN]
NoFlow == [pc |-> "idle", task |-> NoTask, file |-> NoId, transcription |-> NoId,
         ok |-> FALSE, cleaned |-> FALSE]

Running(pc) == flow.pc = pc
ThisAttempt == attempts[flow.task]

-----------------------------------------------------------------------------
(* transcribe_wav: open the claim, run the flow, delete, report. *)

\* INSERT ... ON CONFLICT DO NOTHING
OpenedClaim(c) == [c EXCEPT !.open = TRUE]

\* Only a worker that has finished its sweep dispatches, and only a task whose
\* outcome is not recorded yet: a second attempt follows a death in the first.
OpenClaim(t) ==
    /\ Running("idle") /\ sweep.swept
    /\ t \notin done \cup failed
    /\ attempts[t] < MaxAttempt
    /\ claim' = [claim EXCEPT ![t] = OpenedClaim(@)]
    /\ attempts' = [attempts EXCEPT ![t] = @ + 1]
    /\ flow' = [NoFlow EXCEPT !.pc = "opened", !.task = t]
    /\ UNCHANGED <<remote, inflight, acked, done, failed, sweep, crashes>>

\* Cancelled before the first request: nothing to clean, the claim stays.
CancelBeforeUpload ==
    /\ Running("opened")
    /\ flow' = NoFlow
    /\ UNCHANGED <<claim, remote, inflight, acked, attempts, done, failed, sweep, crashes>>

SendUpload ==
    /\ Running("opened")
    /\ inflight' = inflight \cup {art("file", flow.task, ThisAttempt)}
    /\ flow' = [flow EXCEPT !.pc = "uploading"]
    /\ UNCHANGED <<claim, remote, acked, attempts, done, failed, sweep, crashes>>

\* Mutant: the id is journalled under the following attempt.
RecordedLate(c, k, n) == [c EXCEPT ![k] = n + 1]

\* The observer's write: it may fail, which is only logged.
Recorded(c, k, n) ==
    IF k = "file" THEN [c EXCEPT !.file = n] ELSE [c EXCEPT !.transcription = n]
Record(k) ==
    \/ claim' = [claim EXCEPT ![flow.task] = Recorded(@, k, ThisAttempt)]
    \/ UNCHANGED claim

\* The upload is answered: the id is remembered, journalled, and the
\* transcription is requested.
UploadAnswered ==
    /\ Running("uploading")
    /\ art("file", flow.task, ThisAttempt) \in remote
    /\ acked' = acked \cup {art("file", flow.task, ThisAttempt)}
    /\ Record("file")
    /\ inflight' = inflight \cup {art("transcription", flow.task, ThisAttempt)}
    /\ flow' = [flow EXCEPT !.pc = "creating", !.file = ThisAttempt]
    /\ UNCHANGED <<remote, attempts, done, failed, sweep, crashes>>

CreateAnswered ==
    /\ Running("creating")
    /\ art("transcription", flow.task, ThisAttempt) \in remote
    /\ acked' = acked \cup {art("transcription", flow.task, ThisAttempt)}
    /\ Record("transcription")
    /\ flow' = [flow EXCEPT !.pc = "waiting", !.transcription = ThisAttempt]
    /\ UNCHANGED <<remote, inflight, attempts, done, failed, sweep, crashes>>

\* A transport or provider error, the overall deadline or a cancellation ends
\* the flow at any of its waits; what is in flight stays in flight.
FlowFails ==
    /\ flow.pc \in {"uploading", "creating", "waiting"}
    /\ flow' = [flow EXCEPT !.pc = "delete_transcription", !.cleaned = TRUE]
    /\ UNCHANGED <<claim, remote, inflight, acked, attempts, done, failed, sweep, crashes>>

TranscriptFetched ==
    /\ Running("waiting")
    /\ flow' = [flow EXCEPT !.pc = "delete_transcription", !.ok = TRUE, !.cleaned = TRUE]
    /\ UNCHANGED <<claim, remote, inflight, acked, attempts, done, failed, sweep, crashes>>

\* delete_with_retry of one id: confirmed (deleted or 404), or given up after
\* CLEANUP_ATTEMPTS; an unconfirmed request may have been carried out.
Delete(k, id, next) ==
    LET a == art(k, flow.task, id)
    IN  \/ /\ remote' = remote \ {a}
           /\ flow' = [flow EXCEPT !.pc = next]
        \/ /\ id # NoId
           /\ remote' \in {remote, remote \ {a}}
           /\ flow' = [flow EXCEPT !.pc = next, !.cleaned = FALSE]

\* cleanup_remote: the transcription first, then the file it refers to.
DeleteTranscription ==
    /\ Running("delete_transcription")
    /\ Delete("transcription", flow.transcription, "delete_file")
    /\ UNCHANGED <<claim, inflight, acked, attempts, done, failed, sweep, crashes>>

DeleteFile ==
    /\ Running("delete_file")
    /\ Delete("file", flow.file, "close")
    /\ UNCHANGED <<claim, inflight, acked, attempts, done, failed, sweep, crashes>>

\* remote_artifacts_cleaned closes the claim (a failed write is logged).
ClosedClaim(t) ==
    \/ claim' = [claim EXCEPT ![t] = NoClaim]
    \/ UNCHANGED claim

\* Mutant: the claim is closed whether or not the deletions were confirmed.
CloseAlways ==
    /\ Running("close")
    /\ ClosedClaim(flow.task)
    /\ flow' = [flow EXCEPT !.pc = "report"]
    /\ UNCHANGED <<remote, inflight, acked, attempts, done, failed, sweep, crashes>>

CloseAttempt ==
    /\ Running("close")
    /\ IF flow.cleaned THEN ClosedClaim(flow.task) ELSE UNCHANGED claim
    /\ flow' = [flow EXCEPT !.pc = "report"]
    /\ UNCHANGED <<remote, inflight, acked, attempts, done, failed, sweep, crashes>>

\* Mutant: a transcript that arrived is a success even if the cleanup failed.
ReportIgnoresCleanup ==
    /\ Running("report")
    /\ done' = IF flow.ok THEN done \cup {flow.task} ELSE done
    /\ failed' = IF flow.ok THEN failed ELSE failed \cup {flow.task}
    /\ flow' = NoFlow
    /\ UNCHANGED <<claim, remote, inflight, acked, attempts, sweep, crashes>>

\* A confirmed cleanup is a precondition of success; the caller then persists
\* the receipt or the failure.
Report ==
    /\ Running("report")
    /\ done' = IF flow.ok /\ flow.cleaned THEN done \cup {flow.task} ELSE done
    /\ failed' = IF flow.ok /\ flow.cleaned THEN failed ELSE failed \cup {flow.task}
    /\ flow' = NoFlow
    /\ UNCHANGED <<claim, remote, inflight, acked, attempts, sweep, crashes>>

-----------------------------------------------------------------------------
(* The startup sweep. *)

Unresolved(t) == claim[t].file = NoId \/ claim[t].transcription = NoId

\* The claims are read once; if any lacks an id the remote inventory is listed,
\* which may fail.
StartSweep ==
    /\ Running("idle") /\ ~sweep.swept /\ ~sweep.started
    /\ \E listed \in BOOLEAN :
          /\ listed => \E t \in Job : claim[t].open /\ Unresolved(t)
          /\ sweep' = [sweep EXCEPT !.started = TRUE, !.listed = listed,
                                    !.todo = {t \in Job : claim[t].open}]
    /\ UNCHANGED <<claim, remote, inflight, acked, attempts, flow, done, failed, crashes>>

\* The ids the sweep knows for t: the recorded ones, and with an inventory
\* every artifact that carries t's tag.
SweepTargets(t) ==
    {a \in remote : a.task = t /\ \/ sweep.listed
                                  \/ a.attempt = claim[t][a.kind]}

Swept(t) == [sweep EXCEPT !.todo = @ \ {t}]

\* Without an inventory a claim with a missing id is left for the next launch.
SweepSkips(t) ==
    /\ t \in sweep.todo
    /\ ~sweep.listed /\ Unresolved(t)
    /\ sweep' = Swept(t)
    /\ UNCHANGED <<claim, remote, inflight, acked, attempts, flow, done, failed, crashes>>

\* Every target is deleted and the claim closed, or some deletion fails and the
\* claim stays.
SweepClaim(t) ==
    /\ t \in sweep.todo
    /\ sweep.listed \/ ~Unresolved(t)
    /\ \/ remote' = remote \ SweepTargets(t) /\ ClosedClaim(t)
       \/ /\ \E deleted \in SUBSET SweepTargets(t) : remote' = remote \ deleted
          /\ UNCHANGED claim
    /\ sweep' = Swept(t)
    /\ UNCHANGED <<inflight, acked, attempts, flow, done, failed, crashes>>

\* One pass per process, also if it could not delete anything.
FinishSweep ==
    /\ sweep.started /\ sweep.todo = {} /\ ~sweep.swept
    /\ sweep' = [sweep EXCEPT !.swept = TRUE, !.started = FALSE, !.listed = FALSE]
    /\ UNCHANGED <<claim, remote, inflight, acked, attempts, flow, done, failed, crashes>>

-----------------------------------------------------------------------------
(* The provider and the process. *)

ProviderProcesses(a) ==
    /\ a \in inflight
    /\ inflight' = inflight \ {a}
    /\ remote' = remote \cup {a}
    /\ UNCHANGED <<claim, acked, attempts, flow, done, failed, sweep, crashes>>

RequestLost(a) ==
    /\ a \in inflight
    /\ inflight' = inflight \ {a}
    /\ UNCHANGED <<claim, remote, acked, attempts, flow, done, failed, sweep, crashes>>

NoSweep == [swept |-> FALSE, started |-> FALSE, listed |-> FALSE, todo |-> {}]

Crash ==
    /\ crashes < MaxCrash
    /\ crashes' = crashes + 1
    /\ flow' = NoFlow
    /\ sweep' = NoSweep
    /\ UNCHANGED <<claim, remote, inflight, acked, attempts, done, failed>>

ArtifactInit ==
    /\ claim = [t \in Job |-> NoClaim]
    /\ remote = {} /\ inflight = {} /\ acked = {} /\ done = {} /\ failed = {}
    /\ attempts = [t \in Job |-> 0]
    /\ flow = NoFlow
    /\ sweep = NoSweep
    /\ crashes = 0

ArtifactNext ==
    \/ \E t \in Job : OpenClaim(t) \/ SweepSkips(t) \/ SweepClaim(t)
    \/ CancelBeforeUpload \/ SendUpload \/ UploadAnswered \/ CreateAnswered
    \/ FlowFails \/ TranscriptFetched
    \/ DeleteTranscription \/ DeleteFile \/ CloseAttempt \/ Report
    \/ StartSweep \/ FinishSweep
    \/ \E a \in inflight : ProviderProcesses(a) \/ RequestLost(a)
    \/ Crash

ArtifactSpec == ArtifactInit /\ [][ArtifactNext]_journalVars

-----------------------------------------------------------------------------
(* Properties *)

ArtifactTypeOK ==
    /\ claim \in [Job -> ClaimRow]
    /\ remote \subseteq Artifact
    /\ inflight \subseteq Artifact
    /\ acked \subseteq Artifact
    /\ attempts \in [Job -> 0..MaxAttempt]
    /\ flow \in FlowRow
    /\ done \subseteq Job /\ failed \subseteq Job
    /\ sweep \in [swept : BOOLEAN, started : BOOLEAN, listed : BOOLEAN,
                  todo : SUBSET Job]
    /\ crashes \in 0..MaxCrash

\* transcribe_wav: a success is reported only when nothing of the attempt that
\* produced it is left at the provider, nor can still arrive there.
SuccessLeavesNothing ==
    \A t \in done, k \in Kind : art(k, t, attempts[t]) \notin remote \cup inflight

\* The observer, the claim row and the sweep's search: as long as a task has had
\* one attempt, every artifact the provider has confirmed is deleted, or its
\* claim is open and leads a sweep to it, by the recorded id or, because an id
\* is missing, through the inventory.
FirstAttemptIsCovered ==
    \A a \in acked \cap remote :
        attempts[a.task] = 1
            => /\ claim[a.task].open
               /\ claim[a.task][a.kind] = a.attempt \/ Unresolved(a.task)

\* A death while the attempt runs: what was requested and not answered, already
\* at the provider or still on its way, has an open claim as well, and after a
\* first attempt an id is missing in it, so that the next sweep asks for the
\* inventory.  An attempt that gives up the wait ends this cover when it closes
\* its claim (RemoteIsClaimed).
RunningAttemptIsCovered ==
    \A a \in (remote \cup inflight) \ acked :
        flow.task = a.task /\ flow.pc \notin {"idle", "report"}
            => /\ claim[a.task].open
               /\ attempts[a.task] = 1 => Unresolved(a.task)

\* The journal is well formed and covers what it can cover: what was answered to
\* a first attempt, for good, and what is unanswered, while the attempt runs.
ClaimsCover == ArtifactTypeOK /\ FirstAttemptIsCovered /\ RunningAttemptIsCovered

\* notebook_capture_store.rs on the claim row: it exists as long as the
\* provider may hold an artifact.
RemoteIsClaimed == \A a \in remote : claim[a.task].open

\* The same for artifacts whose ids the client has been told, over all attempts.
AckedIsClaimed == \A a \in acked \cap remote : claim[a.task].open
=============================================================================
