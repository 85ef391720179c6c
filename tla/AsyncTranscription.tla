-------------------------- MODULE AsyncTranscription --------------------------
(***************************************************************************)
(* Post-recording transcription of a stopped session, end to end: the      *)
(* user's request, the run's async receipt in the main database, the       *)
(* stable row in tasks.db, the one worker loop that dispatches it, the     *)
(* provider's durable receipt, the search and document projections, the    *)
(* Delete Forever saga, and what startup makes of any point at which the   *)
(* process died.                                                           *)
(*                                                                         *)
(* Two databases, a document store and process memory are written by two   *)
(* actors: the API thread (one call at a time, under                       *)
(* capture_ownership_gate) and the worker.  One step is one transaction.   *)
(* A session has one task, whose stable id is derived from its run; the    *)
(* provider call is one step here and a module of its own                  *)
(* (RemoteArtifacts).                                                      *)
(***************************************************************************)
EXTENDS TaskQueue

CONSTANTS Private,   \* sessions recorded at privacy level high or maximum
          Worker,    \* the worker's permit
          MaxCrash   \* bound on process deaths

ASSUME AsyncAssumption ==
    /\ Task = Session
    /\ Slot = {Worker}
    /\ Private \subseteq Session
    /\ MaxCrash \in Nat
    /\ 10 \in Priority /\ {1, 3} \subseteq RetryPolicy

VARIABLES run,      \* notebook_capture_runs: the run of each session
          doc,      \* sessions whose transcript is in the notebook document
          purge,    \* session_purge_jobs: the saga's phase, or NoPurge
          worker,   \* the worker loop
          blocked,  \* SessionTaskRegistry: ids blocked for this process
          api,      \* the API call that holds the gate
          boot,     \* startup recovery
          uploads,  \* provider attempts per session (history)
          crashes

asyncVars == <<run, doc, purge, worker, blocked, api, boot, uploads, crashes>>
vars == <<queueVars, asyncVars>>

AsyncState == {"none", "pending", "reserved", "enqueued", "completed", "failed"}
Run == [exists     : BOOLEAN,
        async      : AsyncState,
        provenance : BOOLEAN,
        receipt    : BOOLEAN,
        audio      : BOOLEAN,
        search     : {"none", "pending", "ready", "failed"},
        projection : {"none", "pending", "projecting", "ready", "failed"}]

StoppedRun == [exists |-> TRUE, async |-> "none", provenance |-> FALSE,
               receipt |-> FALSE, audio |-> TRUE, search |-> "none",
               projection |-> "none"]
ErasedRun == [StoppedRun EXCEPT !.exists = FALSE, !.audio = FALSE]

\* notebook_capture_runs: what its CHECKs ask of a row,
RowChecks(r) ==
    /\ r.projection # "none" => r.async = "completed"
    /\ r.receipt <=> r.search # "none"
    /\ r.receipt => r.provenance
\* and its triggers of an update.
TriggersAllow(old, new) ==
    /\ \/ new.async = old.async
       \/ <<old.async, new.async>> \in
            {<<"none", "pending">>, <<"pending", "reserved">>, <<"reserved", "enqueued">>,
             <<"enqueued", "completed">>, <<"enqueued", "failed">>}
    /\ \/ new.projection = old.projection
       \/ <<old.projection, new.projection>> = <<"none", "pending">> /\ new.async = "completed"
       \/ <<old.projection, new.projection>> \in
            {<<"pending", "projecting">>, <<"projecting", "ready">>, <<"projecting", "failed">>,
             <<"failed", "pending">>}
    /\ old.receipt => new.receipt
    /\ old.provenance => new.provenance

NoPurge == -1
LastPhase == 6
Tombstone(s) == purge[s] # NoPurge

NoSession == "none"
WorkerStep == {"idle", "polled", "unkeyed", "claimed", "check1", "verify",
               "preflight", "check2", "dispatch", "gate", "journal", "upload",
               "provider", "commit", "fts", "joined", "check3", "finalize", "complete", "failing",
               "close", "check4", "project", "write", "publish", "drop",
               "r_register", "r_check1", "r_close", "r_check2", "r_fts", "r_check3"}
NoWork == [pc |-> "idle", session |-> NoSession, ready |-> FALSE,
           registered |-> FALSE, cancelled |-> FALSE, result |-> "none"]

ApiStep == {"idle", "reserve", "enqueue", "mark", "read_receipt", "read_row",
            "promote", "decide", "recover_fts", "recover_privacy",
            "recover_complete", "recover_mark", "block", "wait", "effect",
            "advance", "finish", "search", "project", "write", "publish"}
NoCall == [pc |-> "idle", session |-> NoSession, seen |-> "none",
           receipt |-> FALSE, status |-> "absent"]

BootPhase == {"purges", "search", "compensate", "projections", "running"}

W == worker.session
A == api.session
At(pc) == worker.pc = pc
Calling(pc) == api.pc = pc
Holds(s) == worker.registered /\ W = s
GoTo(pc) == worker' = [worker EXCEPT !.pc = pc]
CallGoesTo(pc) == api' = [api EXCEPT !.pc = pc]
CallEnds == api' = NoCall
SetRun(s, r) == run' = [run EXCEPT ![s] = r]

\* What a step of one actor leaves to the other.
WorkerFrame == UNCHANGED <<api, boot, purge, blocked, crashes>>
ApiFrame == UNCHANGED <<worker, boot, uploads, crashes>>
QueueFrame == UNCHANGED queueVars

-----------------------------------------------------------------------------
(* The main database (notebook_capture_store.rs). *)

\* mark_async_task_enqueued
CanMarkEnqueued(s) ==
    run[s].exists /\ ~Tombstone(s) /\ run[s].async \in {"reserved", "enqueued"}
EnqueuedRun(r) == [r EXCEPT !.async = "enqueued"]

\* mark_async_task_terminal_for_session: a success needs a visible Enqueued
\* receipt, a failure may also close a Reserved one; repeating is idempotent.
Desired(success) == IF success THEN "completed" ELSE "failed"
CanClose(s, success) ==
    /\ run[s].exists /\ ~Tombstone(s)
    /\ \/ run[s].async \in {Desired(success), "enqueued"}
       \/ ~success /\ run[s].async = "reserved"
\* Mutant: a failure gets a projection as well.
ClosedRunProjecting(r, success) ==
    IF r.async = Desired(success) THEN r
    ELSE [r EXCEPT !.async = Desired(success), !.projection = "pending"]

ClosedRun(r, success) ==
    IF r.async = Desired(success) THEN r
    ELSE [r EXCEPT !.async = Desired(success),
                   !.projection = IF success THEN "pending" ELSE @]

\* Mutant: the receipt may be committed under a tombstone.
CanCommitUnderTombstone(s) ==
    run[s].exists /\ run[s].async = "enqueued" /\ run[s].provenance /\ ~run[s].receipt

\* commit_async_provider_success: tokens and receipt in one transaction.
CanCommit(s) ==
    /\ run[s].exists /\ ~Tombstone(s)
    /\ run[s].async = "enqueued" /\ run[s].provenance /\ ~run[s].receipt
CommittedRun(r) == [r EXCEPT !.receipt = TRUE, !.search = "pending"]

\* The index and Ready in one transaction.
IndexReady(s) == SetRun(s, [run[s] EXCEPT !.search = "ready"])
\* Failed is retryable; what is Ready stays so.
IndexFails(s) == SetRun(s, [run[s] EXCEPT !.search = IF @ = "ready" THEN @ ELSE "failed"])

\* project_transcribe_search_receipt: nothing under a tombstone.
ProjectSearch(s) == IF run[s].receipt /\ ~Tombstone(s) THEN IndexReady(s) \/ IndexFails(s)
                                                        ELSE UNCHANGED run

\* Mutant: privacy cleanup keeps the audio.
CleanedRunKeepsAudio(s) == run[s]

\* enforce_privacy_after_task: chunks, key and references of a private session.
CleanedRun(s) == IF s \in Private THEN [run[s] EXCEPT !.audio = FALSE] ELSE run[s]

-----------------------------------------------------------------------------
(* project_persisted_async_transcript, by whichever actor runs it. *)

CanProject(s) ==
    /\ run[s].exists /\ run[s].receipt
    /\ run[s].async = "completed" /\ run[s].projection = "pending"

\* Mutant: the projection is Ready before the document is written.
BeginProjectionAsReady(s) == SetRun(s, [run[s] EXCEPT !.projection = "ready"])

BeginProjection(s) == SetRun(s, [run[s] EXCEPT !.projection = "projecting"])

\* The document is written, or the write fails and is marked retryable.
DocumentWritten(s) == doc' = doc \cup {s} /\ UNCHANGED run
DocumentFails(s) ==
    SetRun(s, [run[s] EXCEPT !.projection = "failed"]) /\ UNCHANGED doc

\* complete_async_projection_unless_purging
PublishProjection(s) ==
    SetRun(s, [run[s] EXCEPT !.projection = IF Tombstone(s) THEN "failed" ELSE "ready"])

-----------------------------------------------------------------------------
(* The worker: poll, claim, verify (task_worker.rs). *)

\* A durable receipt whose run is still open, the worker's first concern.
Recoverable(s) == run[s].receipt /\ run[s].async \in {"reserved", "enqueued"}

\* claim_next_worker_task, first half.  A completed row only needs its run
\* closed; a claimable one is claimed by id; everything else is passed over.
PollReconciles(s) ==
    /\ At("idle") /\ boot.phase = "running"
    /\ Recoverable(s) /\ tasks[s].status = "completed"
    /\ worker' = [NoWork EXCEPT !.pc = "r_register", !.session = s]
    /\ QueueFrame /\ WorkerFrame /\ UNCHANGED <<run, doc, uploads>>

PollClaimsReceipt(s) ==
    /\ At("idle") /\ boot.phase = "running"
    /\ Recoverable(s)
    /\ ClaimById(Worker, s)
    /\ worker' = [NoWork EXCEPT !.pc = "claimed", !.session = s, !.ready = TRUE]
    /\ WorkerFrame /\ UNCHANGED <<run, doc, uploads>>

PollFindsNoReceipt ==
    /\ At("idle") /\ boot.phase = "running"
    /\ \A s \in Session : Recoverable(s) => /\ tasks[s].status # "completed"
                                            /\ ~Claimable(tasks[s])
    /\ \E s \in Session : Exists(s)
    /\ GoTo("polled")
    /\ QueueFrame /\ WorkerFrame /\ UNCHANGED <<run, doc, uploads>>

\* Second half, with a provider credential: the queue's own order.
PollClaimsNext(s) ==
    /\ At("polled")
    /\ ClaimNext(Worker, s)
    /\ worker' = [NoWork EXCEPT !.pc = "claimed", !.session = s]
    /\ WorkerFrame /\ UNCHANGED <<run, doc, uploads>>

\* No credential, or nothing claimable.
PollEndsEmpty ==
    /\ At("polled")
    /\ GoTo("idle")
    /\ QueueFrame /\ WorkerFrame /\ UNCHANGED <<run, doc, uploads>>

\* The credential vanished between has() and get(): the claim is given back.
CredentialVanishes ==
    /\ At("claimed") /\ ~worker.ready
    /\ GoTo("unkeyed")
    /\ QueueFrame /\ WorkerFrame /\ UNCHANGED <<run, doc, uploads>>

ReleaseUnkeyed ==
    /\ At("unkeyed")
    /\ IF tasks[W].status = "running" THEN ReleaseWithoutRetry(W) ELSE QueueFrame
    /\ GoTo("drop")
    /\ WorkerFrame /\ UNCHANGED <<run, doc, uploads>>

\* SessionTaskRegistry::register; a blocked owner's row is removed instead.
Register ==
    /\ At("claimed")
    /\ W \notin blocked
    /\ worker' = [worker EXCEPT !.pc = "check1", !.registered = TRUE]
    /\ QueueFrame /\ WorkerFrame /\ UNCHANGED <<run, doc, uploads>>

RegisterRefused ==
    /\ At("claimed")
    /\ W \in blocked
    /\ IF Exists(W) THEN PurgeTask(W) ELSE QueueFrame
    /\ GoTo("drop")
    /\ WorkerFrame /\ UNCHANGED <<run, doc, uploads>>

\* session_task_may_continue, before dispatch, after the handler, and between
\* the steps of a local recovery.
MayContinue(s) == ~Tombstone(s) /\ Exists(s)
NextAfterCheck(pc) ==
    CASE pc = "check1" -> "verify"     [] pc = "check2" -> "dispatch"
      [] pc = "check3" -> IF worker.result = "ok" THEN "finalize" ELSE "failing"
      [] pc = "check4" -> "project"    [] pc = "r_check1" -> "r_close"
      [] pc = "r_check2" -> "r_fts"    [] pc = "r_check3" -> "project"
ChecksCancel == {"check2", "r_check1", "r_check2", "r_check3"}

CheckPasses ==
    /\ worker.pc \in {"check1", "check2", "check3", "check4"} \cup ChecksCancel
    /\ ~(worker.cancelled /\ worker.pc \in ChecksCancel)
    /\ MayContinue(W)
    /\ GoTo(NextAfterCheck(worker.pc))
    /\ QueueFrame /\ WorkerFrame /\ UNCHANGED <<run, doc, uploads>>

\* A tombstoned session loses its rows on the way.
CheckStops ==
    /\ worker.pc \in {"check1", "check2", "check3", "check4"} \cup ChecksCancel
    /\ \/ worker.cancelled /\ worker.pc \in ChecksCancel
       \/ ~MayContinue(W)
    /\ IF Tombstone(W) /\ Exists(W) /\ ~(worker.cancelled /\ worker.pc \in ChecksCancel)
       THEN PurgeSession(W) ELSE QueueFrame
    /\ GoTo("drop")
    /\ WorkerFrame /\ UNCHANGED <<run, doc, uploads>>

\* verify_capture_async_task_receipt: the run must exist, hold no provider
\* output (unless this is its recovery) and be Reserved or Enqueued for this
\* very row.
Verified(s) ==
    /\ run[s].exists /\ Exists(s)
    /\ worker.ready \/ ~run[s].receipt
    /\ \/ run[s].async = "enqueued"
       \/ run[s].async = "reserved" /\ ~Tombstone(s)

\* A Reserved receipt is promoted by its claimant.  A frozen privacy level that
\* cannot be read, or is invalid, still sends the task to preflight failure.
VerifyPasses ==
    /\ At("verify")
    /\ Verified(W)
    /\ SetRun(W, EnqueuedRun(run[W]))
    /\ GoTo("check2") \/ (~worker.ready /\ GoTo("preflight"))
    /\ QueueFrame /\ WorkerFrame /\ UNCHANGED <<doc, uploads>>

VerifyRejects ==
    /\ At("verify")
    /\ ~Verified(W)
    /\ GoTo(IF worker.ready THEN "drop" ELSE "preflight")
    /\ QueueFrame /\ WorkerFrame /\ UNCHANGED <<run, doc, uploads>>

PreflightFails ==
    /\ At("preflight")
    /\ IF tasks[W].status = "running" THEN FailLocalPreflight(W) ELSE QueueFrame
    /\ GoTo("close")
    /\ WorkerFrame /\ UNCHANGED <<run, doc, uploads>>

\* The lease is renewed from dispatch until the handle is dropped.
HeartbeatRuns ==
    /\ worker.pc \in {"dispatch", "gate", "journal", "upload", "provider", "commit",
                      "fts", "joined", "check3", "finalize", "complete", "failing",
                      "close", "check4", "project", "write", "publish"}
    /\ slot[Worker] = W
    /\ tasks[W].lease \in 0..Lease - 1
    /\ Heartbeat(W)
    /\ UNCHANGED asyncVars

-----------------------------------------------------------------------------
(* dispatch_task and run_transcribe_*: the handler. *)

HandlerReturns(result) == worker' = [worker EXCEPT !.pc = "joined", !.result = result]

\* A durable receipt is replayed without the provider.
DispatchReplays ==
    /\ At("dispatch")
    /\ run[W].receipt
    /\ GoTo("fts")
    /\ QueueFrame /\ WorkerFrame /\ UNCHANGED <<run, doc, uploads>>

\* Without one the handler needs a credential, the frozen context, the session
\* key and retained audio.  Missing metadata, key or audio charges no attempt.
DispatchRefuses ==
    /\ At("dispatch")
    /\ ~run[W].receipt
    /\ \E result \in {"charged", "preflight"} : HandlerReturns(result)
    /\ QueueFrame /\ WorkerFrame /\ UNCHANGED <<run, doc, uploads>>

\* Mutant: an already durable receipt is not looked for.
DispatchWithoutReceiptCheck ==
    /\ At("dispatch")
    /\ run[W].audio
    /\ GoTo("gate")
    /\ QueueFrame /\ WorkerFrame /\ UNCHANGED <<run, doc, uploads>>

DispatchPrepares ==
    /\ At("dispatch")
    /\ ~run[W].receipt /\ ~worker.ready /\ run[W].audio
    /\ GoTo("gate")
    /\ QueueFrame /\ WorkerFrame /\ UNCHANGED <<run, doc, uploads>>

\* Mutant: the gate does not look for a tombstone.
MayClaimUnderTombstone(s) == run[s].exists

\* claim_provider_provenance, the provider dispatch gate: one transaction.
MayClaim(s) == run[s].exists /\ ~Tombstone(s)

GateOpens ==
    /\ At("gate")
    /\ MayClaim(W)
    /\ SetRun(W, [run[W] EXCEPT !.provenance = TRUE])
    /\ GoTo("journal")
    /\ QueueFrame /\ WorkerFrame /\ UNCHANGED <<doc, uploads>>

\* A decode or frame-count error, a tombstone, or a cancellation.
GateRefuses ==
    /\ At("gate")
    /\ HandlerReturns("charged")
    /\ QueueFrame /\ WorkerFrame /\ UNCHANGED <<run, doc, uploads>>

\* The artifact claim is journalled (RemoteArtifacts), then the token is looked
\* at for the last time: neither step looks for a tombstone again.
JournalOpens ==
    /\ At("journal")
    /\ ~worker.cancelled
    /\ GoTo("upload")
    /\ QueueFrame /\ WorkerFrame /\ UNCHANGED <<run, doc, uploads>>

JournalRefuses ==
    /\ At("journal")
    /\ HandlerReturns("charged")
    /\ QueueFrame /\ WorkerFrame /\ UNCHANGED <<run, doc, uploads>>

\* upload_file's POST; a cancellation since the last look comes too late for it.
UploadBegins ==
    /\ At("upload")
    /\ uploads' = [uploads EXCEPT ![W] = @ + 1]
    /\ GoTo("provider")
    /\ QueueFrame /\ WorkerFrame /\ UNCHANGED <<run, doc>>

ProviderSucceeds ==
    /\ At("provider")
    /\ GoTo("commit")
    /\ QueueFrame /\ WorkerFrame /\ UNCHANGED <<run, doc, uploads>>

\* Error, timeout, failed remote cleanup, or cancellation.
ProviderFails ==
    /\ At("provider")
    /\ HandlerReturns("charged")
    /\ QueueFrame /\ WorkerFrame /\ UNCHANGED <<run, doc, uploads>>

CommitReceipt ==
    /\ At("commit")
    /\ CanCommit(W)
    /\ SetRun(W, CommittedRun(run[W]))
    /\ GoTo("fts")
    /\ QueueFrame /\ WorkerFrame /\ UNCHANGED <<doc, uploads>>

CommitRefused ==
    /\ At("commit")
    /\ ~CanCommit(W)
    /\ HandlerReturns("charged")
    /\ QueueFrame /\ WorkerFrame /\ UNCHANGED <<run, doc, uploads>>

HandlerIndexes ==
    /\ At("fts")
    /\ ProjectSearch(W)
    /\ HandlerReturns("ok")
    /\ QueueFrame /\ WorkerFrame /\ UNCHANGED <<doc, uploads>>

\* await_handler_or_session_cancel is biased: a cancelled session's result is
\* dropped and its row left alone.
JoinHandler ==
    /\ At("joined")
    /\ GoTo(IF worker.cancelled THEN "drop" ELSE "check3")
    /\ QueueFrame /\ WorkerFrame /\ UNCHANGED <<run, doc, uploads>>

-----------------------------------------------------------------------------
(* After the handler: finalize, close the run, project. *)

\* finalize_successful_task: the row must still be ours, and privacy cleanup
\* comes before completion; an error leaves the row running.
FinalizeCleans ==
    /\ At("finalize")
    /\ tasks[W].status = "running"
    /\ SetRun(W, CleanedRun(W))
    /\ GoTo("complete")
    /\ QueueFrame /\ WorkerFrame /\ UNCHANGED <<doc, uploads>>

FinalizeFails ==
    /\ At("finalize")
    /\ GoTo("drop")
    /\ QueueFrame /\ WorkerFrame /\ UNCHANGED <<run, doc, uploads>>

CompleteRow ==
    /\ At("complete")
    /\ IF tasks[W].status = "running"
       THEN Complete(W) /\ GoTo("close")
       ELSE QueueFrame /\ GoTo("drop")
    /\ WorkerFrame /\ UNCHANGED <<run, doc, uploads>>

\* persist_task_handler_failure, unless a receipt turns out to be durable.
HandlerFailed ==
    /\ At("failing")
    /\ IF run[W].receipt \/ tasks[W].status # "running"
       THEN QueueFrame /\ GoTo("drop")
       ELSE /\ IF worker.result = "preflight" THEN FailLocalPreflight(W) ELSE Fail(W)
            /\ GoTo("close")
    /\ WorkerFrame /\ UNCHANGED <<run, doc, uploads>>

\* close_capture_async_receipt_if_queue_terminal
QueueTerminal(s) == tasks[s].status \in {"completed", "failed"}
CloseRun ==
    LET success == tasks[W].status # "failed"
    IN  /\ At("close")
        /\ IF QueueTerminal(W) /\ CanClose(W, success)
           THEN /\ SetRun(W, ClosedRun(run[W], success))
                /\ GoTo(IF success /\ worker.result = "ok" THEN "check4" ELSE "drop")
           ELSE UNCHANGED run /\ GoTo("drop")
        /\ QueueFrame /\ WorkerFrame /\ UNCHANGED <<doc, uploads>>

WorkerProjects ==
    /\ At("project")
    /\ IF CanProject(W) THEN BeginProjection(W) /\ GoTo("write")
                        ELSE UNCHANGED run /\ GoTo("drop")
    /\ QueueFrame /\ WorkerFrame /\ UNCHANGED <<doc, uploads>>

WorkerWrites ==
    /\ At("write")
    /\ \/ DocumentWritten(W) /\ GoTo("publish")
       \/ DocumentFails(W) /\ GoTo("drop")
    /\ QueueFrame /\ WorkerFrame /\ UNCHANGED uploads

WorkerPublishes ==
    /\ At("publish")
    /\ PublishProjection(W)
    /\ GoTo("drop")
    /\ QueueFrame /\ WorkerFrame /\ UNCHANGED <<doc, uploads>>

\* The registration and the Task handle are dropped together.
WorkerDrops ==
    /\ At("drop")
    /\ IF slot[Worker] = NoHandle THEN QueueFrame ELSE DropHandle(Worker)
    /\ worker' = NoWork
    /\ WorkerFrame /\ UNCHANGED <<run, doc, uploads>>

(* recover_completed_provider_receipt_with: no handle, but the same ownership. *)

RecoveryRegisters ==
    /\ At("r_register")
    /\ worker' = IF run[W].receipt /\ W \notin blocked
                 THEN [worker EXCEPT !.pc = "r_check1", !.registered = TRUE]
                 ELSE NoWork
    /\ QueueFrame /\ WorkerFrame /\ UNCHANGED <<run, doc, uploads>>

RecoveryCloses ==
    /\ At("r_close")
    /\ IF tasks[W].status = "completed" /\ CanClose(W, TRUE)
       THEN SetRun(W, ClosedRun(run[W], TRUE)) /\ GoTo("r_check2")
       ELSE UNCHANGED run /\ GoTo("drop")
    /\ QueueFrame /\ WorkerFrame /\ UNCHANGED <<doc, uploads>>

RecoveryIndexes ==
    /\ At("r_fts")
    /\ ProjectSearch(W)
    /\ GoTo("r_check3")
    /\ QueueFrame /\ WorkerFrame /\ UNCHANGED <<doc, uploads>>

-----------------------------------------------------------------------------
(* API calls (notebook_capture_api.rs), and the same code run by startup. *)

Serving == boot.phase = "running" /\ Calling("idle")

\* ensure_post_stop_async_task_for_run works on the run it was given.
EnsureFrom(s, state) ==
    [NoCall EXCEPT !.session = s, !.seen = state,
                   !.pc = IF state = "pending" THEN "reserve" ELSE "read_receipt"]

\* Mutant: a failed request may be asked for again.
RequestAgainAfterFailure(s) ==
    /\ Serving
    /\ run[s].exists /\ ~Tombstone(s)
    /\ run[s].async # "completed" /\ run[s].audio
    /\ LET state == IF run[s].async \in {"none", "failed"} THEN "pending" ELSE run[s].async
       IN  SetRun(s, [run[s] EXCEPT !.async = state]) /\ api' = EnsureFrom(s, state)
    /\ QueueFrame /\ UNCHANGED <<doc, purge, blocked>> /\ ApiFrame

\* none -> pending needs retained audio; a repeated authorization finds what is
\* there.
MayAuthorize(s) ==
    /\ run[s].exists /\ ~Tombstone(s)
    /\ run[s].async \in {"none", "pending", "reserved", "enqueued"}
    /\ run[s].async = "none" => run[s].audio

Request(s) ==
    /\ Serving
    /\ MayAuthorize(s)
    /\ LET state == IF run[s].async = "none" THEN "pending" ELSE run[s].async
       IN  SetRun(s, [run[s] EXCEPT !.async = state]) /\ api' = EnsureFrom(s, state)
    /\ QueueFrame /\ UNCHANGED <<doc, purge, blocked>> /\ ApiFrame

Reserve ==
    /\ Calling("reserve")
    /\ SetRun(A, [run[A] EXCEPT !.async = "reserved"])
    /\ CallGoesTo("enqueue")
    /\ QueueFrame /\ UNCHANGED <<doc, purge, blocked>> /\ ApiFrame

\* enqueue_once_with_stable_id: one provider attempt, an existing row is kept.
EnqueueRow ==
    /\ Calling("enqueue")
    /\ IF Exists(A) THEN QueueFrame ELSE Enqueue(A, A, 10, 1)
    /\ CallGoesTo("mark")
    /\ UNCHANGED <<run, doc, purge, blocked>> /\ ApiFrame

MarkEnqueued ==
    /\ Calling("mark")
    /\ IF CanMarkEnqueued(A) THEN SetRun(A, EnqueuedRun(run[A])) ELSE UNCHANGED run
    /\ CallEnds
    /\ QueueFrame /\ UNCHANGED <<doc, purge, blocked>> /\ ApiFrame

\* reconcile_capture_async_task_receipt_on_startup: the receipt is read first,
\* then the row, and the worker may be moving both.
ReadReceipt ==
    /\ Calling("read_receipt")
    /\ api' = [api EXCEPT !.pc = "read_row", !.receipt = run[A].receipt]
    /\ QueueFrame /\ UNCHANGED <<run, doc, purge, blocked>> /\ ApiFrame

\* A missing row is rebuilt for a durable receipt and fails the run otherwise.
ReadRow ==
    /\ Calling("read_row")
    /\ \/ /\ Exists(A)
          /\ api' = [api EXCEPT !.pc = "promote", !.status = tasks[A].status]
          /\ QueueFrame /\ UNCHANGED run
       \/ /\ ~Exists(A) /\ api.receipt
          /\ Enqueue(A, A, 10, 3)
          /\ api' = [api EXCEPT !.pc = "promote", !.status = "pending"]
          /\ UNCHANGED run
       \/ /\ ~Exists(A) /\ ~api.receipt
          /\ IF CanClose(A, FALSE) THEN SetRun(A, ClosedRun(run[A], FALSE))
                                   ELSE UNCHANGED run
          /\ CallEnds
          /\ QueueFrame
    /\ UNCHANGED <<doc, purge, blocked>> /\ ApiFrame

Promote ==
    /\ Calling("promote")
    /\ IF api.seen # "reserved" THEN UNCHANGED run /\ CallGoesTo("decide")
       ELSE IF CanMarkEnqueued(A)
            THEN SetRun(A, EnqueuedRun(run[A])) /\ CallGoesTo("decide")
            ELSE UNCHANGED run /\ CallEnds
    /\ QueueFrame /\ UNCHANGED <<doc, purge, blocked>> /\ ApiFrame

\* What the row's status says, as it was read.
Decide ==
    LET success == api.status = "completed"
    IN  /\ Calling("decide")
        /\ \/ /\ api.receipt /\ ~success
              /\ CallGoesTo("recover_fts") /\ UNCHANGED run
           \/ /\ ~api.receipt /\ api.status \in {"pending", "running"}
              /\ CallEnds /\ UNCHANGED run
           \/ /\ success \/ (~api.receipt /\ api.status = "failed")
              /\ IF CanClose(A, success) THEN SetRun(A, ClosedRun(run[A], success))
                                         ELSE UNCHANGED run
              /\ CallEnds
        /\ QueueFrame /\ UNCHANGED <<doc, purge, blocked>> /\ ApiFrame

\* complete_recovered_provider_receipt
RecoverIndex ==
    /\ Calling("recover_fts")
    /\ ProjectSearch(A)
    /\ CallGoesTo("recover_privacy")
    /\ QueueFrame /\ UNCHANGED <<doc, purge, blocked>> /\ ApiFrame

RecoverPrivacy ==
    /\ Calling("recover_privacy")
    /\ \/ SetRun(A, CleanedRun(A)) /\ CallGoesTo("recover_complete")
       \/ UNCHANGED run /\ CallEnds
    /\ QueueFrame /\ UNCHANGED <<doc, purge, blocked>> /\ ApiFrame

RecoverComplete ==
    /\ Calling("recover_complete")
    /\ IF tasks[A].status \in {"completed", "absent"} THEN QueueFrame
       ELSE CompleteFromDurableProviderReceipt(A)
    /\ IF Exists(A) THEN CallGoesTo("recover_mark") ELSE CallEnds
    /\ UNCHANGED <<run, doc, purge, blocked>> /\ ApiFrame

RecoverMark ==
    /\ Calling("recover_mark")
    /\ IF CanClose(A, TRUE) THEN SetRun(A, ClosedRun(run[A], TRUE)) ELSE UNCHANGED run
    /\ CallEnds
    /\ QueueFrame /\ UNCHANGED <<doc, purge, blocked>> /\ ApiFrame

\* retry_notebook_async_projection
RetryProjection(s) ==
    /\ Serving
    /\ run[s].exists /\ ~Tombstone(s)
    /\ run[s].projection \in {"failed", "pending"}
    /\ SetRun(s, [run[s] EXCEPT !.projection = "pending"])
    /\ api' = [NoCall EXCEPT !.pc = "project", !.session = s]
    /\ QueueFrame /\ UNCHANGED <<doc, purge, blocked>> /\ ApiFrame

CallProjects ==
    /\ Calling("project")
    /\ IF CanProject(A) THEN BeginProjection(A) /\ CallGoesTo("write")
                        ELSE UNCHANGED run /\ CallEnds
    /\ QueueFrame /\ UNCHANGED <<doc, purge, blocked>> /\ ApiFrame

CallWrites ==
    /\ Calling("write")
    /\ \/ DocumentWritten(A) /\ CallGoesTo("publish")
       \/ DocumentFails(A) /\ CallEnds
    /\ QueueFrame /\ UNCHANGED <<purge, blocked>> /\ ApiFrame

CallPublishes ==
    /\ Calling("publish")
    /\ PublishProjection(A)
    /\ CallEnds
    /\ QueueFrame /\ UNCHANGED <<doc, purge, blocked>> /\ ApiFrame

-----------------------------------------------------------------------------
(* Delete Forever: a durable tombstone, then one phase after the other. *)

PurgeCall(s) == [NoCall EXCEPT !.pc = "block", !.session = s]

\* purge_session_forever; a session whose saga got stuck may be purged again.
BeginPurge(s) ==
    /\ Serving
    /\ run[s].exists \/ Tombstone(s)
    /\ purge' = [purge EXCEPT ![s] = IF Tombstone(s) THEN @ ELSE 0]
    /\ api' = PurgeCall(s)
    /\ QueueFrame /\ UNCHANGED <<run, doc, blocked>> /\ ApiFrame

\* Mutant: running handlers are cancelled, but new ones may register.
CancelWithoutBlocking ==
    /\ Calling("block")
    /\ worker' = IF Holds(A) THEN [worker EXCEPT !.cancelled = TRUE] ELSE worker
    /\ CallGoesTo("wait")
    /\ QueueFrame /\ UNCHANGED <<run, doc, purge, blocked, boot, uploads, crashes>>

\* cancel_and_wait: the owner is blocked for this process and its handler is
\* cancelled; the wait is bounded.
BlockAndCancel ==
    /\ Calling("block")
    /\ blocked' = blocked \cup {A}
    /\ worker' = IF Holds(A) THEN [worker EXCEPT !.cancelled = TRUE] ELSE worker
    /\ CallGoesTo("wait")
    /\ QueueFrame /\ UNCHANGED <<run, doc, purge, boot, uploads, crashes>>

\* Mutant: the saga does not wait for the handler to drop its registration.
HandlersStoppedAtOnce ==
    /\ Calling("wait")
    /\ CallGoesTo(IF purge[A] = LastPhase THEN "finish" ELSE "effect")
    /\ QueueFrame /\ UNCHANGED <<run, doc, purge, blocked>> /\ ApiFrame

HandlersStopped ==
    /\ Calling("wait")
    /\ ~Holds(A)
    /\ CallGoesTo(IF purge[A] = LastPhase THEN "finish" ELSE "effect")
    /\ QueueFrame /\ UNCHANGED <<run, doc, purge, blocked>> /\ ApiFrame

WaitTimesOut ==
    /\ Calling("wait")
    /\ Holds(A)
    /\ CallEnds
    /\ QueueFrame /\ UNCHANGED <<run, doc, purge, blocked>> /\ ApiFrame

\* Mutant: the document phase is recorded without being done.
PurgeEffectKeepsDocument ==
    LET phase == purge[A] + 1
    IN  /\ Calling("effect")
        /\ IF phase = 3 /\ Exists(A) THEN PurgeSession(A) ELSE QueueFrame
        /\ run' = [run EXCEPT ![A] = CASE phase = 4 -> [@ EXCEPT !.audio = FALSE]
                                       [] phase = 5 -> ErasedRun
                                       [] OTHER -> @]
        /\ CallGoesTo("advance")
        /\ UNCHANGED <<doc, purge, blocked>> /\ ApiFrame

\* What reaching each phase takes: 1 task_handlers_stopped, 2 loro_removed,
\* 3 tasks_removed, 4 external_artifacts_removed, 5 main_database_removed,
\* 6 purge_receipts_removed.  Repeating one is harmless.
PurgeEffect ==
    LET phase == purge[A] + 1
    IN  /\ Calling("effect")
        /\ doc' = IF phase = 2 THEN doc \ {A} ELSE doc
        /\ IF phase = 3 /\ Exists(A) THEN PurgeSession(A) ELSE QueueFrame
        /\ run' = [run EXCEPT ![A] = CASE phase = 4 -> [@ EXCEPT !.audio = FALSE]
                                       [] phase = 5 -> ErasedRun
                                       [] OTHER -> @]
        /\ CallGoesTo("advance")
        /\ UNCHANGED <<purge, blocked>> /\ ApiFrame

\* A phase that fails keeps the tombstone and the phase reached.
PurgeFails ==
    /\ Calling("effect")
    /\ purge[A] > 0
    /\ CallEnds
    /\ QueueFrame /\ UNCHANGED <<run, doc, purge, blocked>> /\ ApiFrame

\* Mutant: the saga goes on after its last phase.
PurgeAdvancesPastLast ==
    /\ Calling("advance")
    /\ purge' = [purge EXCEPT ![A] = @ + 1]
    /\ CallGoesTo("effect")
    /\ QueueFrame /\ UNCHANGED <<run, doc, blocked>> /\ ApiFrame

PurgeAdvances ==
    /\ Calling("advance")
    /\ purge' = [purge EXCEPT ![A] = @ + 1]
    /\ CallGoesTo(IF purge[A] + 1 = LastPhase THEN "finish" ELSE "effect")
    /\ QueueFrame /\ UNCHANGED <<run, doc, blocked>> /\ ApiFrame

\* complete_session_purge_job removes the tombstone last.
FinishPurge ==
    /\ Calling("finish")
    /\ purge' = [purge EXCEPT ![A] = NoPurge]
    /\ CallEnds
    /\ QueueFrame /\ UNCHANGED <<run, doc, blocked>> /\ ApiFrame

-----------------------------------------------------------------------------
(* Process death and startup (lib.rs). *)

\* Mutant: startup does not reconcile open requests.
PassAfterSkipsCompensation ==
    [purges |-> "search", search |-> "projections", projections |-> "running"]

\* Startup's passes, in order, and the sessions each one visits.
PassAfter == [purges |-> "search", search |-> "compensate",
              compensate |-> "projections", projections |-> "running"]
Visits(phase) ==
    {s \in Session :
        CASE phase = "purges" -> Tombstone(s)
          [] phase = "search" -> ~Tombstone(s) /\ run[s].receipt
                                 /\ run[s].search \in {"pending", "failed"}
          [] phase = "compensate" -> ~Tombstone(s)
                                     /\ run[s].async \in {"pending", "reserved", "enqueued"}
          [] phase = "projections" -> ~Tombstone(s) /\ run[s].async = "completed"
                                      /\ run[s].projection = "pending"
          [] OTHER -> FALSE}

\* tasks.db is only a rebuildable scheduler: it may be gone at the next start.
QueueFileLost ==
    /\ tasks' = [t \in Task |-> Absent(tasks[t])]
    /\ slot' = [p \in Slot |-> NoHandle]
    /\ UNCHANGED stamp

\* recover_unfinished_runs and recover_abandoned_tasks come first.
Crash ==
    /\ crashes < MaxCrash
    /\ crashes' = crashes + 1
    /\ Restart \/ QueueFileLost
    /\ run' = [s \in Session |-> IF run[s].projection = "projecting"
                                 THEN [run[s] EXCEPT !.projection = "failed"] ELSE run[s]]
    /\ worker' = NoWork /\ api' = NoCall /\ blocked' = {}
    /\ boot' = [phase |-> "purges", todo |-> Visits("purges")]
    /\ UNCHANGED <<doc, purge, uploads>>

BootVisits(s) ==
    /\ Calling("idle") /\ s \in boot.todo
    /\ boot' = [boot EXCEPT !.todo = @ \ {s}]
    /\ api' = CASE boot.phase = "purges" -> PurgeCall(s)
                [] boot.phase = "search" -> [NoCall EXCEPT !.pc = "search", !.session = s]
                [] boot.phase = "compensate" -> EnsureFrom(s, run[s].async)
                [] boot.phase = "projections" -> [NoCall EXCEPT !.pc = "project", !.session = s]
    /\ QueueFrame /\ UNCHANGED <<run, doc, purge, worker, blocked, uploads, crashes>>

BootAdvances ==
    /\ Calling("idle") /\ boot.phase # "running" /\ boot.todo = {}
    /\ boot' = [phase |-> PassAfter[boot.phase], todo |-> Visits(PassAfter[boot.phase])]
    /\ QueueFrame /\ UNCHANGED <<run, doc, purge, worker, blocked, api, uploads, crashes>>

\* resume_pending_async_search_projections
BootIndexes ==
    /\ Calling("search")
    /\ ProjectSearch(A)
    /\ CallEnds
    /\ QueueFrame /\ UNCHANGED <<doc, purge, blocked>> /\ ApiFrame

-----------------------------------------------------------------------------
Init ==
    /\ tasks = [t \in Task |-> [status |-> "absent", priority |-> 10,
                                payload |-> [session |-> t, kind |-> "valid"],
                                retry_count |-> 0, max_retries |-> 1,
                                lease |-> NoLease, created |-> 0]]
    /\ slot = [p \in Slot |-> NoHandle]
    /\ stamp = 0
    /\ run = [s \in Session |-> StoppedRun]
    /\ doc = {}
    /\ purge = [s \in Session |-> NoPurge]
    /\ worker = NoWork /\ blocked = {} /\ api = NoCall
    /\ boot = [phase |-> "running", todo |-> {}]
    /\ uploads = [s \in Session |-> 0]
    /\ crashes = 0

\* The worker loop, without the choices that need luck to get out of.
WorkerNext ==
    \/ \E s \in Session : PollReconciles(s) \/ PollClaimsReceipt(s) \/ PollClaimsNext(s)
    \/ PollFindsNoReceipt \/ PollEndsEmpty \/ CredentialVanishes \/ ReleaseUnkeyed
    \/ Register \/ RegisterRefused \/ CheckPasses \/ CheckStops
    \/ VerifyPasses \/ VerifyRejects \/ PreflightFails
    \/ DispatchReplays \/ DispatchRefuses \/ DispatchPrepares
    \/ GateOpens \/ GateRefuses \/ JournalOpens \/ JournalRefuses
    \/ UploadBegins \/ ProviderSucceeds \/ ProviderFails
    \/ CommitReceipt \/ CommitRefused \/ HandlerIndexes \/ JoinHandler
    \/ FinalizeCleans \/ FinalizeFails \/ CompleteRow \/ HandlerFailed \/ CloseRun
    \/ WorkerProjects \/ WorkerWrites \/ WorkerPublishes \/ WorkerDrops
    \/ RecoveryRegisters \/ RecoveryCloses \/ RecoveryIndexes

\* A call or a startup pass that has begun.
CallNext ==
    \/ Reserve \/ EnqueueRow \/ MarkEnqueued \/ ReadReceipt \/ ReadRow \/ Promote
    \/ Decide \/ RecoverIndex \/ RecoverPrivacy \/ RecoverComplete \/ RecoverMark
    \/ CallProjects \/ CallWrites \/ CallPublishes
    \/ BlockAndCancel \/ HandlersStopped \/ WaitTimesOut
    \/ PurgeEffect \/ PurgeFails \/ PurgeAdvances \/ FinishPurge
    \/ BootAdvances \/ BootIndexes \/ \E s \in Session : BootVisits(s)

LeaseRunsOut == Tick /\ UNCHANGED asyncVars

UserNext == \E s \in Session : Request(s) \/ RetryProjection(s) \/ BeginPurge(s)

Next ==
    \/ WorkerNext \/ CallNext \/ UserNext
    \/ HeartbeatRuns \/ LeaseRunsOut \/ Crash

Spec == Init /\ [][Next]_vars

\* The worker loop and a begun call run on; leases run out.  The environment is
\* not always against us: a credential and a working disk recur often enough.
FairSpec ==
    /\ Spec
    /\ WF_vars(WorkerNext) /\ WF_vars(CallNext) /\ WF_vars(LeaseRunsOut)
    /\ SF_vars(\E s \in Session : PollClaimsNext(s))
    /\ SF_vars(Register) /\ SF_vars(FinalizeCleans)

-----------------------------------------------------------------------------
(* Properties *)

AsyncTypeOK ==
    /\ QueueTypeOK
    /\ run \in [Session -> Run]
    /\ doc \subseteq Session
    /\ purge \in [Session -> NoPurge..LastPhase]
    /\ worker \in [pc : WorkerStep, session : Session \cup {NoSession},
                   ready : BOOLEAN, registered : BOOLEAN, cancelled : BOOLEAN,
                   result : {"none", "ok", "charged", "preflight"}]
    /\ blocked \subseteq Session
    /\ api \in [pc : ApiStep, session : Session \cup {NoSession}, seen : AsyncState,
                receipt : BOOLEAN, status : Status]
    /\ boot \in [phase : BootPhase, todo : SUBSET Session]
    /\ uploads \in [Session -> Nat]
    /\ crashes \in 0..MaxCrash

\* dispatch_task and verify_capture_async_task_receipt: the provider is called
\* only for a session that has no provider output yet, whose run holds the
\* Enqueued receipt and the provenance claim, and whose row this worker runs.
ProviderCallIsCovered ==
    At("provider") =>
        /\ ~run[W].receipt /\ run[W].async = "enqueued" /\ run[W].provenance
        /\ tasks[W].status = "running" /\ worker.registered

\* enqueue_once and the receipt protocol: within one life of the process a
\* session is uploaded at most once.
OneUploadPerLife == \A s \in Session : uploads[s] <= 1 + crashes

\* Delete Forever: once its saga is past task_handlers_stopped no handler of the
\* session is running, nor starts running again, in this process or the next.
NoHandlerUnderPurge == \A s \in Session : purge[s] >= 1 => ~Holds(s)

\* The handler of s has passed the gate and not yet begun its upload.
Cleared(s) == W = s /\ worker.pc \in {"journal", "upload"}

\* From the moment the tombstone is durable no handler of the session passes the
\* provenance gate and no transcript of it becomes durable, wherever its handler
\* is when the user decides.  The POST is not under the gate: a handler that had
\* passed it may still begin its one upload, but only while the saga has not
\* recorded task_handlers_stopped.
NothingNewUnderTombstone ==
    \A s \in Session : Tombstone(s) =>
        /\ Cleared(s)' => Cleared(s)
        /\ uploads'[s] # uploads[s] => Cleared(s) /\ purge[s] = 0
        /\ run'[s].receipt => run[s].receipt

\* When the tombstone is gone nothing of the session is left in any store, and
\* no handler will write it again.
PurgedIsGone ==
    \A s \in Session : ~run[s].exists /\ ~Tombstone(s) =>
        /\ ~Exists(s) /\ s \notin doc /\ ~run[s].audio /\ ~run[s].receipt
        /\ ~Holds(s)

\* Both halves of a purge: the handlers first, then everything, for good.
PurgeIsFinal == NoHandlerUnderPurge /\ PurgedIsGone

\* Delete Forever from its tombstone on: nothing new appears under it, and what
\* its phases removed stays removed.
DeletionHolds == [][NothingNewUnderTombstone /\ PurgeIsFinal']_vars

\* Cross-database agreement: a run is completed only with a durable receipt, its
\* row is completed unless tasks.db was lost, and a private session's audio is destroyed before that.
CompletedIsBacked ==
    \A s \in Session : run[s].async = "completed" =>
        /\ run[s].receipt
        /\ ~Tombstone(s) => tasks[s].status \in {"completed", "absent"}
        /\ s \in Private => ~run[s].audio

\* Both ends of the provider's work: no upload without its durable reservation and
\* none twice in one life, no completion without its receipt.
ProviderWorkIsBacked ==
    AsyncTypeOK /\ ProviderCallIsCovered /\ OneUploadPerLife /\ CompletedIsBacked

\* A user's request is settled, whatever dies on the way: the run ends up
\* completed or failed, or the session is being erased.  One case waits for the
\* next start or a repeated request: a durable receipt whose row was failed by
\* the race of ReceiptNeverFails, which the worker cannot claim any more.
RequestSettles ==
    \A s \in Session :
        run[s].async \in {"pending", "reserved", "enqueued"} ~>
            \/ run[s].async \in {"completed", "failed"}
            \/ Tombstone(s) \/ ~run[s].exists
            \/ run[s].receipt /\ tasks[s].status = "failed"

\* The state of a session that TranscriptionPromise speaks of.
OutcomeOf(s) ==
    IF Tombstone(s) \/ ~run[s].exists THEN "erased"
    ELSE CASE run[s].async = "completed" ->
                 IF run[s].projection = "ready" THEN "published" ELSE "completed"
           [] run[s].async = "failed" -> "failed"
           [] run[s].async = "none" -> "idle"
           [] OTHER -> IF run[s].receipt THEN "transcribed" ELSE "requested"

Promise == INSTANCE TranscriptionPromise WITH outcome <- [s \in Session |-> OutcomeOf(s)]

\* Refinement: the two databases, the worker, the API and startup together move
\* each session only along the outcomes TranscriptionPromise allows; no crash
\* and no interleaving takes a session back or skips the durable receipt.
PromiseKept == Promise!PromiseSpec

\* complete_async_projection_unless_purging: a projection is Ready only when the
\* transcript really is in the notebook document.
ReadyIsInDocument == \A s \in Session : run[s].projection = "ready" /\ ~Tombstone(s) => s \in doc

\* The reconciliation comment of task_worker.rs: once the immutable provider
\* receipt exists, the run is not rewritten as failed.
ReceiptNeverFails == \A s \in Session : run[s].receipt => run[s].async # "failed"

\* The one-attempt authorization of task_queue.rs: a session is uploaded once.
OneUpload == \A s \in Session : uploads[s] <= 1

\* The schema refuses no write: every change of a run is an update that the row's
\* CHECKs and the table's triggers let through (migration.rs:
\* notebook_capture_runs_schema), or, for the failure of a Reserved run, two of
\* one transaction (mark_async_task_terminal_for_session); so none of the errors
\* they would raise ends a step of the worker, the call or startup half-way.
Takes(old, new) == TriggersAllow(old, new) /\ RowChecks(new)
Accepted(old, new) ==
    \/ Takes(old, new)
    \/ old.async = "reserved" /\ Takes(old, EnqueuedRun(old)) /\ Takes(EnqueuedRun(old), new)
SchemaTakesEveryWrite ==
    [][\A s \in Session :
          run[s].exists /\ run'[s].exists => Accepted(run[s], run'[s])]_run
=============================================================================
