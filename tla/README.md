# A TLA+ model of Zulangue's durable core

Zulangue records meetings, transcribes them in real time or after the fact,
projects the transcript into collaborative notebook documents and shares those
with other devices. Its Rust core (`crates/`) keeps its state in two SQLite
databases (`zulangue.db`, `tasks.db`), in Loro documents, in encrypted audio
files and keys, in the memory of the process and of its peers, and at an external
speech provider. None of these can be written in one transaction with another;
the process may die between any two writes, and the user may decide to erase a
session at any moment. This project models that.

## Inventory

| Component | State | Operations | What is hard | What makes it correct |
|---|---|---|---|---|
| Task queue (`vt-pipeline/task_queue.rs`) | rows of `tasks.db`: status, retry count and budget, lease, priority; permits of a semaphore | enqueue, claim (next, by id), heartbeat, complete, fail (three kinds), release, purge, recover at start | leases that run out under a live handler, dropped handles, rows of an older build | budget never exceeded, running iff leased, only authorized payloads run, failed is terminal, abandoned rows come back |
| Remote provider artifacts (`vt-stt/soniox_async.rs`, journal in `notebook_capture_store.rs`, sweep in `task_worker.rs`) | a claim row per task; files and transcriptions at the provider | open claim, upload, create, poll, delete, close, sweep | lost answers, deadlines, death between request and journal write, unconfirmed deletes | nothing is left behind a success; whatever may be left can be found again |
| Post-recording transcription (`vt-ffi/task_worker.rs`, `transcribe_api.rs`, `notebook_capture_api.rs`) | the run's async state, provenance, provider receipt, search and document projection; the worker; `SessionTaskRegistry` | request, reserve, enqueue, mark, claim, verify, dispatch, commit, finalize, close, project, reconcile | two databases and a document store; the worker, the API thread and startup work on the same rows | one upload per life, agreement of the databases, audio of private sessions destroyed first, every request settles |
| Delete Forever (`notebook_capture_api.rs`, `notebook_capture_store.rs`) | `session_purge_jobs`: tombstone and phase | begin, block and cancel handlers, six phases, finish, resume at start | handlers in flight, failing phases, death between effect and record | nothing of the session is left or comes back; other sessions are untouched |
| Capture lifecycle (`notebook_capture_api.rs`, `audio_api.rs`) | run state, remote health, gaps, audio progress | start, push, pause, resume, stop, interrupt, recover, destroy | the gate thread, the microphone thread, provider events and the user race | one active capture; accepted audio survives; a stopped run has its audio and facts |
| Capture callbacks (`notebook_capture_api.rs`, the Swift transcript store) | mailboxes that keep one event each, revisions, the client's view and its gap repair | emit, dispatch, deliver, pull a snapshot, acknowledge | every station drops events; a snapshot and an event cross | the view becomes the rows |
| Realtime facts (`notebook_capture_store.rs`, `notebook_capture_api.rs`) | utterances, variants, translation inbox; the assembler's open segments | upsert, bind, withdraw, correct, replay; cut tokens into rows | late and duplicated provider results, language changes, a source that moves | settled text stays, a lane says what its facts say, no word is lost or told twice |
| Realtime projection (`block_document_api.rs`, `transcript_projection.rs`, the ledger in `notebook_capture_store.rs`) | machine lane, user override, document in memory and on disk, watermarks | project, correct, acknowledge, replay, purge | two writers, failed and torn file writes, a death between ledger and file | an acknowledged lane is in the file, a user's words are not overwritten |
| Soniox stream (`vt-stt/soniox_stream.rs`) and the group of lanes (`notebook_capture_api.rs`) | connection, replay buffer, origin; per lane flags of the collector, the run's health | connect, send, receive, reconnect, pause, finish; collect, isolate, stop | reconnect in mid-utterance, a lane that dies, stop against the collector | words keep their place, live means live, an auxiliary lane never ends the group |
| Sharing (`vt-share`, `vt-ffi/share_api.rs`, `shared_session_docs.rs`) | room roster, admission roster, document copies, per-link queues, the shadow of what the machine wrote | join, leave, hello, push, relay, anti-entropy, admit, import, refresh, correct | lost, late and reordered envelopes, rosters that lag; a machine and persons that write the same lane | only admitted authors' operations are held; every edit arrives; corrections stand |
| Private file store, key store (`vt-crypto`) | one secret file, its lock and temporary files | open, store, delete, sweep | threads of several processes, a kill at any step, failed writes | the file is an atomic map |
| Schema migration (`vt-store/migration.rs`) | schema version and the rows it rewrites | install, upgrade one version at a time, refuse | a death between two versions, every old version | no text, watermark or pending correction is lost |
| Context packs (`context_pack_store.rs`) | packs, sources, bindings, keys, the preview shown, the frozen snapshot | edit, bind, delete, preview, confirm, freeze | two callers, keys outside the transaction | what is sent is what was confirmed; keys follow packs |
| Session move, editors (`session_move.rs`, `editor_api.rs`, `editor_bridge.rs`, `notebook_store.rs`) | documents of Notebooks in memory and on disk, rows, move journal | project, type, flush, move, roll back, replay, delete | a crash inside a move, a flush against a move | no section or durable word is lost, recordings stay in order |
| Mirror (`vt-mirror`) | the last state of a document and the document | diff, apply, import | list moves, places that shift | applying the diff yields the target |
| Services (`services/community-invite`, `services/share-relay`) | invites | issue, redeem | - | not modelled |
| macOS app (`macos/Zulangue`) | view state | presentation over the FFI | - | only the transcript store (callbacks) |
| Export, audio decoding, localisation, plain types | none | conversions | - | not modelled |

How they interact: the API thread (one call at a time behind
`capture_ownership_gate`) and the single worker task share both databases and the
document store; `SessionTaskRegistry`, which blocks and cancels the handlers of a
session that is being erased, is the only memory they share. Startup runs recovery
passes before the worker is spawned. The worker calls the provider through
`soniox_async`, whose observer writes the artifact journal. During a capture the
microphone thread pushes blocks into the lanes, each lane owns a provider
connection, one collector reads the lanes' events, writes rows and health, and
leaves events in the mailbox of the callback dispatcher; a projection pass, guarded
by one process-wide lock, brings final rows into the notebook's document, which
sharing exchanges with other devices.

## Modules

| Module | Models |
|---|---|
| `TaskQueue` | `tasks.db`, one action per operation. A lease is the time it has left; `created_at` has a resolution of one second |
| `RemoteArtifacts` | one provider attempt at a time with its journal and the startup sweep; the provider may process a request late or never |
| `AsyncTranscription` | extends `TaskQueue` with the run in the main database, the worker, the API calls, the purge saga, process death and startup |
| `TranscriptionPromise` | the abstract specification of it: how a session's outcome may move |
| `CaptureLifecycle` | a microphone capture from start to its last durable write: the run, the catalogue row, the indexes, journal, chunks and key, the slot of the active capture, the registry of detached ones; every write may fail, the process may die |
| `CaptureCallbacks` | a row's way to the screen: two one-event mailboxes, revisions, the client's guard and its repair |
| `RealtimeFacts` | utterances, translation facts and their bindings in SQLite, with a canonical and auxiliary streams |
| `RealtimeProjection` | how final lanes reach the document, corrections, failures, replay and purge |
| `SegmentAssembler` | the assembler that cuts final words, guesses and translations into rows |
| `SonioxStream` | one lane: connection, replay buffer, clock |
| `LaneEvents` | the events a lane may emit: implemented by `SonioxStream`, assumed by `StreamGroup` |
| `StreamGroup` | the lanes of one capture, their collector, health, pause and stop |
| `SharedRoom` | the room of a share and the two rosters kept of it |
| `SharedDocument` | the copies of one shared document and everything that travels between them |
| `SharedLanes` | one block of a shared recording at its host: facts, document, and the shadow that tells the machine's text from a person's |
| `PrivateFile` | the key file under threads, processes, kills and failed writes |
| `KeyMap` | the abstract specification of it: a map that one call changes at one place |
| `ContextPacks` | packs, previews and the frozen context; its key store is `KeyMap` |
| `Migration` | opening a database of any supported version |
| `NotebookDocuments` | the documents of Notebooks: projections, words, moves, deletion |
| `Mirror` | the list diffs and what they leave in the document |
| `MCTaskQueue`, `MCAsyncTranscription`, `MCRealtimeFacts`, `MCRealtimeStreams`, `LocalStores`, `MCLocalStores`, `MCNotebookDocuments` | constants, symmetry and sums of disjoint parts for TLC |
| `RemoteArtifactsProofs`, `AsyncTranscriptionProofs` (with the queue's), `CaptureLifecycleProofs`, `RealtimeProjectionProofs`, `SharingProofs`, `RealtimeStreamsProofs` (a lane and the group), `LocalStoresProofs` (the three stores), `CaptureCallbacksProofs` | the theorems |

Some runs check several modules that share no state: the MC module has a variable
`part` (in `MCLocalStores` also `which`), chosen once, and each behaviour is one of one of the parts while the others
rest. Such a sum checks each part as a run of its own would.

**AsyncTranscription.** Every queue step of the worker and of the API is the
corresponding action of `TaskQueue`; the provider call, a module of its own, is one
step here, after three that lead to it: the provenance claim (the gate), the artifact
journal with the last look at the cancellation token, and the beginning of the upload. The worker's `pc` names the points between two transactions of
`spawn_worker` and its callees; `api` does the same for the API call that holds the
gate, and `boot` for the passes of startup. A step is one transaction, or one write
to a document or a file. A session has one task whose stable id is derived from its
run, so `Task = Session`. `OutcomeOf` maps a session to an outcome of
`TranscriptionPromise` (a tombstone or a missing run is `erased`, a Ready projection
`published`, a durable receipt `transcribed`); `PromiseKept` says that the mapped
behaviour satisfies `PromiseSpec`.

**CaptureLifecycle** has three threads, named for the lock they hold: the gate
thread runs start, stop, interrupt, purge and startup under
`capture_ownership_gate`; the mic thread runs push, pause and the teardown of a
failed push under the active-capture mutex; `ui` runs a destruction, which holds
neither. `op[th].pc` names the points between two durable writes, so a stop is nine
steps. Interruption, teardown, in-process recovery and startup recovery share those
steps with their own error paths (`Failed`). A call that is refused or fails is the
second disjunct of each step (`Errs`); one that changes nothing and ends nothing is
left out, as it is a call that was not made. The provider group is one lane here.

**The realtime path.** `SonioxStream` counts audio in blocks; its provider and its
collector are modelled as far as the lane can observe them. `StreamGroup` lets each
lane emit what `LaneEvents` allows and follows the collector's flags, the run's
health, the context receipt and stop. `SegmentAssembler` numbers words as they are
spoken; `RealtimeFacts` abstracts a source to the stretch of time it covers and a
translation to the facts it is composed of; alignment by time is a guess made from
outside. `RealtimeProjection` abstracts a text to the machine's n-th revision or the
user's n-th correction.

**Sharing.** A document is the set of operations it has integrated; an operation
depends on all its author had integrated, and one that comes too early waits.
`SharedDocument` lets the host's roster change at any time and viewers' rosters lag
as far as they like; pushed envelopes arrive in any order, and a connection that
drops loses what is on its way. `SharedRoom` has the gossip, unordered as well.
`SharedLanes` is what the host's refresh does to one block: a refresh is one step,
for it runs under the lock of the shadows; the write of the document may fail after
the shadow is set, and a restart reads the document but not the shadow.

**NotebookDocuments** has one UI thread, the flusher, the async projector and the
collector. A document is open in memory or only on disk; all mutations but the
block verbs hold one guard. **Mirror** is one list, used by one thread; a `set_state`
is in `call` from its last write until it returns, which is when its promise can be read.

## Runs

| Run | Shows | Bounds |
|---|---|---|
| `queue` | dispatch is sound (types, budget, lease, authorization), failed is terminal, abandoned rows come back; the screen becomes the rows | two ids of one session, two permits, both retry policies callers use (1 and 3), lease of one tick, two stamps; one row of two versions, four revisions, one failed refresh, one buffered event |
| `async` | agreement of the stores, purge, privacy, writes the schema takes, refinement of `TranscriptionPromise`; every request settles | one private session, two deaths, each of which may also lose `tasks.db` |
| `capture` | accepted audio survives, ownership, remote truth, retention, purge; every operation ends | one session, one block, two failures (a write, or a join that times out), one death, provider on, maximum privacy |
| `realtime_facts` | lanes say what their facts say, settled text stays; no word is lost by the assembler; watermark, corrections and purge of the projection | two rows, two facts, one target, two stretches of time; a source and a growing translation lane, two revisions, two corrections, one failure, two deaths; three words, guesses and unconfirmed translations of one; ticks are symmetric |
| `realtime_streams` | words keep their place on the timeline, the lane implements `LaneEvents`, a dial settles; live is true, an auxiliary lane never ends the group, dead lanes stay dark, stop returns | three blocks, a queue of two, two reconnect attempts, overlap of one block; two lanes, two tries, one queued event beside a discontinuity |
| `members_left_out` | violation: a viewer is in the room and not admitted | host, two viewers, roster of two, one flap |
| `shared_document` | only admitted authors' operations are held, everything comes by the host; every edit arrives | host and two viewers, one of them writing one edit, one fault |
| `local_stores` | an upgrade keeps work; what is sent was confirmed; keys follow packs; a sweep spares the living and the key file is `KeyMap`; the mirror is faithful; a corrected translation stands; a provider success leaves nothing; what was answered to a first attempt is covered by an open claim until it is deleted, and what is unanswered while its attempt runs | every version from 23, one death, two languages; two callers, two packs and sources, three calls, one fault; three threads of two processes, two keys, one fault; lists of up to three of three ids with two texts; a source and a translation, five turns; two jobs, two attempts, one death |
| `documents` | sections and words stay, moves keep the order, the deleted stays gone | two Notebooks, two sessions (one transcribed), two acts of the user's, one mishap |
| `purge_takes` | violation: Delete Forever leaves blocks at the end of the list | as `documents`, no mishap |
| `purge_ends` | violation: Delete Forever of a recording is refused for ever | as `documents`, no mishap |
| `machine_yields` | violation: a refresh overwrites the host's correction of a source | a source and a translation, three turns |

Several properties are conjunctions, named for what they say together:
`DispatchIsSound` (types, `RetryBudget`, `RunningHasLease`, `OnlyAuthorizedRuns`),
`ProviderWorkIsBacked` (types, `ProviderCallIsCovered`, `OneUploadPerLife`,
`CompletedIsBacked`), `DeletionHolds` (`NothingNewUnderTombstone` and both halves of
`PurgeIsFinal`), `ClaimsCover` (types, `FirstAttemptIsCovered`, `RunningAttemptIsCovered`), `AudioIsKept` and `EndsAreOwned` of the capture, `LanesAreSound` and
`RecoveredIsWhole` of the facts, `ContextIsHonest` (`ConfirmedIsSent`,
`ReceiptIsExact`), `HealthIsTrue` (types and `LiveIsTrue`),
`MovesAreFaithful` (`SectionStays`, `MovesKeepOrder`), `DocumentsAreFaithful`
(`MirrorIsFaithful`, `TranslationsStand`).

Why the bounds are enough: a row's life depends on its own status, budget and
lease; two rows and two permits are what claim order, quarantine and an expired
lease under a live handle need. Two attempts are the least at which a claim row is
shared. Two deaths let recovery itself be interrupted. Two failed writes reach every
error path of a stop and of a teardown (the operation fails, then what records the
failure), where a join of the collector that times out counts as one of the two; one session suffices there since captures meet only in the slot, which a
second capture finds empty or is refused. Two revisions are what a stale
acknowledgement needs, two corrections what a superseded one needs. Three blocks
and a queue of two let audio be lost, replayed and overtaken. Two packs let
one be bound and another deleted. Three list items are
the least at which an insertion, a deletion and a move meet. Every other bound
(`MaxTry`, `MaxQueued`, `MaxFlap`, `MaxAct`, `MaxMishap`, `MaxGuess`, `MaxOut`, ...)
counts something each module names where it is declared. Deadlock is checked in
`realtime_streams`; the other systems rest when their bounds are
used up. Names that a module never tells apart are symmetric: Notebooks, ticks, and in
`local_stores` ids, texts, keys, callers and jobs.

Fairness. `queue`: the clock, the dispatcher thread, the main actor and the repair task
of the client. `async`: weak fairness of the worker loop (a tokio
task that polls every 200 ms, whose provider calls have an overall deadline), of a
begun API call or startup pass, and of the clock; strong fairness of `PollClaimsNext`
and `Register` says that a provider credential is present again and again, and of
`FinalizeCleans` that the privacy cleanup does not fail for ever: assumptions on the
environment, without which a request legitimately stays open. `capture`: the gate
and mic threads run on (synchronous calls whose waits are bounded by timeouts).
`realtime_streams`: the lane's task and its back-off timers; the bounded joins of stop,
and its cleanup. `shared_document`: anti-entropy on a live link, which
a timer repeats. `purge_ends`: the purge and move in hand, and the replay of a purge
at launch. Nothing is assumed of the user, of crashes or of the network.
Where what is owed stays owed until it is paid (a document loses no operation, a run
that drains drains for good), the property says `[]<>` of having been paid, which is
then the same as a leads-to.

## Disagreements with the code's own comments

Four have a run that expects the violation:

* `MembersAreNotLeftOut`: `enable_document_sync` copies the roster, materialises the
  recordings and only then installs the context; a member whose Hello comes between
  is refused until the roster changes again.
* `PurgeTakesEveryBlock`: the keyed list diff has no trailing deletes, so Delete
  Forever leaves the blocks behind the last survivor.
* `PurgeEnds`: a flat document with text of another recording only is refused in the
  document phase, at every launch again.
* `MachineYields`: a lane that a person has corrected is said to be left alone; the
  source is written back with every other lane's news, recorded as the machine's, and
  overwritten by the next change of its fact.

The others are stated in the modules, without a run of their own; TLC shows each
when the property is added to the run named.

* `RemoteIsClaimed` (`local_stores`): `cleanup_remote` knows only ids it was told; when the
  flow ends while the upload is unanswered the cleanup counts as confirmed and the
  claim is closed. `AckedIsClaimed`: a sweep that fails still counts as done; the
  next attempt closes the shared claim after deleting only its own ids.
* `ReceiptNeverFails` (`async`): the worker looks for durable receipts and then claims
  the next row; a lease that expires in between sends a row with a receipt through
  the path for rows without one, which fails the run. `OneUpload`:
  `recover_abandoned_tasks` returns a dispatched row without charging the attempt, so
  the audio is uploaded again; the passing bound is one per life.
* `TrashIsKept`, `FailedStartIsClean`, `DestroyedIsUnreadable`, `ResumeIsHonest`
  (`capture`): a stop writes the catalogue row
  back whole and undoes a soft delete; a rollback whose purge job is refused removes
  nothing; destruction misses an un-indexed journal; a cancelled collector drains
  between a resume's preflight and its swap.
* `TailReplacementIsAccepted` (`realtime_facts`): a withdrawn fact bound beside a final
  one makes the store refuse a row's final source. `AckedIsReadable`: a document is
  written in place, so an acknowledged one can be torn. `RevisionsAreTaken`: a second
  final translation of a segment that an identity switch completed is refused as
  immutable, which fails the capture.
* `OriginIsOnTheTimeline`, `AcceptedAudioIsKept` (`realtime_streams`, lane): after an outage that
  outlasts the buffer a second short one moves the origin to audio that is not
  retained; failed sends and the fence's drain are not recorded for replay.
* `GroupStaysOnTheAir`, `NoOwnerIsNeverLive` (`realtime_streams`, group): a context receipt refused
  because health is not live cancels the group; a drained Connected overwrites
  degraded after the owner has been given up.
* `UpgradeResumes` (`local_stores`): version 30 has no arm in `run_migrations`, though
  `migrate_v30_to_v31` exists, and the step to 30 writes version 31.
* `MovesLoseNothing` (`documents`): a stale second move loses edits, and a rollback over
  a stray copy removes what was typed on it.
* Beyond the properties: in the callbacks, a snapshot read after a failed pause may
  regress the view until the next event, and a stop that fails ends the client's
  callbacks and its repair with rows still missing; in the mirror, two moves, or a
  move beside an insertion, use places from before the change, and an apply that
  fails has already committed part; in the documents, a duplicate left by a crashed
  move survives Delete Forever, and a failed flush is dropped; in sharing, `stop_sharing` leaves connections open; in context packs, a crash between the snapshot's key and its row leaves a
  key nothing names; in the collector, a late withdrawal of a completed row's sibling
  is dropped, and waiting lanes are not marked unavailable when it ends on a failing
  store.

Five promises are narrower than one would like, because the code is:

* The POST of an upload is not under the provenance gate. A tombstone that commits
  after the claim, and before the cancellation reaches the handler, lets it begin its
  one upload under the tombstone; `NothingNewUnderTombstone` says that no handler passes
  the gate any more, that only one which had passed it may begin, and only until the saga
  has recorded `task_handlers_stopped`, and that no receipt becomes durable.
* The end of a capture waits 1.2 s for its collector. One that outlives the wait
  (`past.outlived`) may still write health and record a gap: `TerminalIsOff` says
  nothing of its capture, and `RetentionKeepsGaps` only that its gap was not there
  to be seen when the audio went.
* A success leaves nothing (`SuccessLeavesNothing`), but a flow that gives up on an
  unanswered upload, by deadline or cancellation, is no success: it closes its claim all
  the same. `ClaimsCover` ends there, and `RemoteIsClaimed` (above) fails.
* `UpgradeKeepsWork` speaks of databases that open. A death after the step from 29 leaves
  a version that may not be recognised (`UpgradeResumes`).
* `PrivateFile` has the file locks of unix builds; in others `acquire_file_lock` does
  nothing, and neither the module nor its theorems speak of them.

`RequestSettles` has one exit that follows from `ReceiptNeverFails`: a durable receipt
whose row has been failed is not claimable any more and waits for the next start or a
repeated request.

## Proofs

TLC checks small instances; the theorems hold for every value of the constants that
satisfies the module's named assumption. Each proof has an inductive invariant,
because no property below is inductive alone, and each follows one pattern: Init
establishes the invariant, every action keeps it (one step per action, one lemma per
operator on rows, lanes or documents), the property follows from it.

| Theorem | Property | Assumed | Argument |
|---|---|---|---|
| `QueueSafety`, `QueueFailedIsTerminal` | `DispatchIsSound`, `FailedNeverRunsAgain` | `QueueAssumption` | the budget of a released row needs the budget of running rows, and its authorization must survive every update: `RowOK` says all of one row, each row transformer keeps it |
| `SuccessIsClean` | `SuccessLeavesNothing` | `ArtifactAssumption` | `FlowOK` follows the running attempt from its first request to its confirmed deletions; `AttemptsBound` and `OnePlace` make the names of a new attempt fresh |
| `JournalCovers` | `ClaimsCover` | the same | `CoverInv`: the claim is opened before the first request and stays open while the attempt runs; an id answered to a first attempt is told to the journal before the claim can close (`RecordedTold`), and an unanswered request leaves an id missing there (`UnansweredLacksAnId`) |
| `AsyncSafety`, `ProviderWork`, `Deletion`, `PromiseHolds` | `ProviderWorkIsBacked`, `DeletionHolds`, `PromiseKept` (refinement of `TranscriptionPromise`) | `QueueAssumption`, `AsyncAssumption` | `AsyncInv`, described below |
| `SchemaTakes` | `SchemaTakesEveryWrite` | the same | whether a trigger lets an update through depends on what the row is and what its writer still knows: `Checked` (the CHECKs of every row) beside `AsyncInv`, and every write is one the schema takes (`Moves`) |
| `CaptureInvariant`, `PurgesAreFinal` | `AcceptedAudioSurvives`, `ProgressIsBacked`, `UnfinishedHasOwner`; `PurgeIsFinal` | `CaptureAssumption` | `CaptureInv`, described below |
| `AudioHolds`, `EndsHold` | `AudioIsKept`, `EndsAreOwned` | the same | the collector of a run lives as long as its owner (`Watched`) unless its end gave up on it, and that is remembered (`past.outlived`); so nothing else writes the run's health or text once it has ended |
| `FileInvariant`, `SweepIsSafe`, `FileIsAMap` | `SweepSparesTheLiving`, `KeepsEveryKey` (refinement of `KeyMap`) | `ActorAssumption` | the file lock has one writer or only readers, so the document is what it was between a writer's read and its rename, and every step maps to one key's change or to a stutter |
| `UpgradeHolds` | `UpgradeKeepsWork` | none | `UpgradeInv`: the objects a database has tell the shape its row, lanes and correction are in, and each migration, whole or rolled back by a death, takes one shape to the next |
| `PacksHold` | `KeysFollowPacks` | `PacksAssumption` (by `ContextAssumption`) | `PacksInv`: until something fails a pack has a key exactly while it is active, except for the packs of calls between the two (`KeysAreSettled`); no two of those make one pack (`MakersDiffer`), and a deletion holds the mutex from its check to its tombstone (`CallIsSound`) |
| `ProjectionInvariant`, `WatermarkHolds`, `CorrectionsHold`, `PurgeHolds` | `WatermarkIsSound`, `UserTextSurvives`, `PurgedStaysGone` | `ProjectionAssumption` | the file becomes what the memory was, so the memory, what a failed correction would put back and the staged corrections are as good as the file at every point of the guard's critical section (`DocumentsOK`, `CorrectionsOK`); `Shows` keeps what a projection read at its own watermark |
| `ShareInvariant`, `AdmissionHolds` | `AdmissionIsSound` | `DocumentAssumption` | said of everything that travels as well: of an envelope with its signer in the place of the owner (`AllAllowed`, `ByTheHub`), and copies are causally closed (`Causal`) |
| `LanesInvariant`, `TranslationsHold` | `TranslationsStand`, in `DocumentsAreFaithful` | `LanesAssumption` | where a correction was made over a known shadow, the shadow stays known and differs from it, so every later refresh finds the lane frozen |
| `LaneInvariant`, `LaneKeepsProtocol` | `EventProtocol` (refinement of `LaneEvents`) | `OneLaneAssumption` | the events carry the count of tries, `run_stream` decides by the outage; they agree wherever a session begins (`TriesAgree`), so a Connected without a RecoveryStarted is the first |
| `WordsInvariant`, `WordsHold` | `WordsKeepTheirPlace` | the same | `WordsInv`: what is retained ends at the clock and reaches back to the confirmed position (`Retained`), the connection carries everything since its origin (`Carried`), what is withheld of a replay was confirmed on an earlier connection, and the open tail holds only words the provider may still change (`Withheld`); so an answer that replaces the tail drops none of them, and what it confirms it publishes |
| `ScreenInvariant`, `ScreenHolds` | `ScreenIsWhole` | `CallbacksAssumption` | `ScreenInv`: of the changes told up to its revision, a full event says all and another the last, at whatever station it is (`Tells`); so does a repair's snapshot at its checkpoint, and the deltas kept after it fill the run of revisions up to the target or the repair goes on |
| `GroupInvariant`, `HealthHolds`, `RoomHolds`, `TombstonesHold` | `HealthIsTrue`, `RoomSurvives`, `TombstoneStaysDark` | `GroupAssumption` | a dead lane is not connected (`DeadIsDark`), whoever writes health last; a channel is over its bound by one discontinuity at most (`OneOver`) |

`FileIsAMap`, `PromiseHolds` and `LaneKeepsProtocol` show refinements: initial states
map to initial states, each step to a step of the abstract specification or to a
stutter. `LaneEvents` is the seam of the realtime path: `StreamGroup` lets its lanes
emit what that module allows, so what the group's theorems assume of a lane is what
`LaneKeepsProtocol` proves of one.

**AsyncTranscription.** The properties relate two databases, a document store and
three actors whose steps interleave, so the invariant has to say what each actor may
still believe between two of its transactions. `AsyncInv` has four parts. `Rows` is
the invariant of `TaskQueue`, whose lemmas are used again; `Typed` the types.
`ActorsOK` follows the actors: what the handler knows at each `pc` of its session's
run and row (`Fits`: until a receipt is durable its row is running, and from the
provenance claim on the run is enqueued), what a call that has read a receipt or a
status may rely on (`Serves`: receipts stay, a terminal row stays), who may be
projecting, and that a saga past its wait has no handler left (`PurgeOK`).
`SessionOK` is what the stores say of one session: agreement of the databases
(`Agrees`), a tombstone blocks its session or is about to (`Blocks`), what the phases
reached have removed stays removed (`Gone`), and an upload of this life has left
something that forbids the next (`Counted`). One more conjunct is proved beside it,
step by step: a handler past the gate has not uploaded yet (`NotYetUploaded`). A step of one actor changes only its own
session, and of that one only what the others allow (`Kept` for the worker,
`Answerable` for a call): `WorkerActs`, `CallActs`, `PurgeActs` and `BootActs` say so
once, and each action has a lemma that is an instance of one of them. The refinement,
`Deletion` and `SchemaTakes` share one more abstraction, `Moves`: how a step may
change a run, whoever takes it. TLC checks the conjuncts of `AsyncInv` on the instance of `async`;
the proof adds every number of sessions and of deaths, and every lease and budget.

**CaptureLifecycle.** Three threads work on one capture's files and rows, every write
may fail and the process may die between any two, so what is true of a session
depends on who has it. `CaptureInv` says it in three parts. `OneAtWork` and
`OwnerHolds`: while the gate works the slot is empty and the mic thread at rest
(unless the gate purges another session), and the row agrees with the owner in the
slot. `Knows`: what an operation may rely on at each of its steps (`StartKnows`,
`PurgeKnows`, `EndKnows`, `AudioKnows`: from `finalize` on the chunks hold all that was
accepted, from `complete` on the catalogue says how it ended). `SessionOK`: what the
stores say of a session whoever has it, or if nobody has: the audio is in the journal
or whole in the chunks (`Survives`), the frame count claims no more (`Backed`), a purge
left nothing (`Final`), a tombstone stands over what was erased on purpose
(`Buried`), and an unfinished capture is owned (`Owned`). None of these is inductive
without the others: that the journal may go is known only from what the operation
indexed before, and that the chunks are whole only from who else could have touched
them. Each action falls to one of four frames (`MoveKeeps`, `SlotKeeps`, `WorkKeeps`,
`MildKeeps`), which say once that a step about one session spares every other.
A collector that outlives its join writes a row nobody owns any more: its writes are
the mildest frame (`Mild`), and `Watched` is said only of captures whose end did not
give up on their collector. TLC checks `CaptureInv` on the instance of the run `capture`.

Only model-checked: liveness (`AbandonedIsReclaimable`, `RequestSettles`,
`OperationsEnd`, `EverythingArrives`, `DialingSettles`, `StopReturns`,
`EveryEditArrives`), which is out of the prover's reach; what rests on an induction
over lists or on folds, so `ReceiptIsExact` of `ContextPacks` (and `ContextIsHonest`
with it), `LanesAreSound` and `WordsAreKept` of `RealtimeFacts` and
`SegmentAssembler`; `Mirror`, whose longest increasing subsequence is a RECURSIVE operator, and
`DocumentsAreFaithful`, which is checked through it.

## Not modelled

* Power loss: a write that has returned is durable. Torn files are modelled where
  the code writes in place (`RealtimeProjection`).
* The provider's wire format (`soniox_rt.rs`), the tags of the fair event queue, the
  timeline alignment that chooses a translation's row (a choice from outside here).
* Captions, the nearby-join desk, mutes; exports and shared copies under Delete Forever.
* Rich text: a document's unit is a section, a lane or one word of the user's.
* Maps and text in the mirror, and its initialisation from a document.
* The community and relay services (each request is one SQLite transaction over one
  row), the SwiftUI views, export, decoding, localisation, plain types.

## Plan

Next: the timeline alignment and the fair event queue as functions.
