-------------------------- MODULE CaptureCallbacks --------------------------
(***************************************************************************)
(* How the rows of a running capture reach the screen: the collector that  *)
(* writes them, CaptureCallbackSink with its one-event mailbox, the        *)
(* dispatcher thread, the client's own one-event inbox on the way to its   *)
(* main actor, and the client's repair of the revisions it missed.  Every  *)
(* station keeps only the latest event; the revision each event gets under *)
(* the mailbox lock is what makes the losses visible.                      *)
(*                                                                         *)
(* A row is its version; a removed row (a partial row withdrawn) never     *)
(* returns, its sequence is not used again.  Lane health, cues and the     *)
(* live preview travel the same way and are not told apart from rows.      *)
(***************************************************************************)
EXTENDS Naturals, FiniteSets

CONSTANTS Utterance,          \* session sequences
          MaxVersion,   \* revisions of a row
          MaxRevision,  \* callback revisions before the stop's own
          MaxApplied,   \* acknowledged projections
          MaxFailure,   \* refreshes and pauses that fail, callbacks that panic
          MaxBuffered,  \* deltas a repair keeps (256 in the client)
          NoEvent

(* What any instance has to satisfy.                                       *)
CallbackAssumption == MaxVersion \in Nat

VARIABLES
    stored,     \* the session's rows, its capture state and applied watermark
    changed,    \* what the collector has written and not yet sent
    owner,      \* of active_notebook_capture: "active", taken by stop, dropped
    mailbox,    \* next_revision, pending.event, closed, last_enqueued_applied_revision
    handed,     \* the event the dispatcher thread is delivering
    inbox,       \* NotebookCaptureCallbackDispatcher.pendingEvent
    direct,     \* the result of a call, or a read, on its way to the main actor
    client,     \* the store's rows, lastAppliedEventRevision, state and watermark
    repair,     \* utteranceGapRepair and the snapshot its task has read
    announced,  \* for each row, the last revision allocated for a change of it
    failures    \* refreshes, callbacks and pauses that failed

callbackVars == <<stored, changed, owner, mailbox, handed, inbox, direct, client,
                  repair, announced, failures>>

Removed == MaxVersion + 1
Hidden == 0
Ended == {"completed", "interrupted"}
Blank == [row \in Utterance |-> Hidden]
Nothing == [rows |-> {}, full |-> FALSE]
NoRepair == [on |-> FALSE, target |-> 0, asked |-> 0, buffer |-> {}, read |-> NoEvent]

(* list_utterances: the rows there are.                                    *)
Visible == [row \in Utterance |-> IF stored.rows[row] = Removed THEN Hidden ELSE stored.rows[row]]

(* load_capture_callback_snapshot: the run's columns, with the requested   *)
(* rows or, for a full event, all of them, in one read transaction.        *)
Loaded(rows, full, revision) ==
    [revision |-> revision, full |-> full, state |-> stored.state, applied |-> stored.applied,
     rows |-> [row \in Utterance |-> IF full \/ row \in rows THEN Visible[row] ELSE Hidden]]

(* Start's own full event is in the mailbox when its result is applied.    *)
CallbackInit ==
    /\ stored = [rows |-> Blank, state |-> "recording", applied |-> 0]
    /\ changed = Nothing
    /\ owner = "active"
    /\ mailbox = [next |-> 2, event |-> Loaded({}, TRUE, 1), closed |-> FALSE, enqueued |-> 0]
    /\ handed = NoEvent /\ inbox = NoEvent /\ direct = NoEvent
    /\ client = [rows |-> Blank, last |-> 1, state |-> "recording", applied |-> 0]
    /\ repair = NoRepair
    /\ announced = [row \in Utterance |-> [revision |-> 0, version |-> Hidden]]
    /\ failures = 0

-----------------------------------------------------------------------------
(* send: the revision is allocated first; a closed mailbox or a failed     *)
(* refresh leaves the pending event alone and the revision unused.         *)
Enqueued(event) ==
    [mailbox EXCEPT !.next = @ + 1, !.event = event,
                    !.enqueued = IF @ < event.applied THEN event.applied ELSE @]

Refused == [mailbox EXCEPT !.next = @ + 1]

Announce(rows) ==
    announced' = [row \in Utterance |->
        IF row \in rows THEN [revision |-> mailbox.next, version |-> stored.rows[row]]
                        ELSE announced[row]]

Send(rows, full) ==
    \/ /\ ~mailbox.closed
       /\ mailbox' = Enqueued(Loaded(rows, full, mailbox.next))
       /\ UNCHANGED failures
    \/ /\ mailbox.closed
       /\ mailbox' = Refused
       /\ UNCHANGED failures
    \/ /\ ~mailbox.closed /\ failures < MaxFailure
       /\ mailbox' = Refused
       /\ failures' = failures + 1

MayRevise == mailbox.next <= MaxRevision

(* The collector writes a batch of rows, or withdraws a partial one, and   *)
(* sends the batch in a step of its own; a removal goes as a full event.   *)
PersistBatch ==
    \E rows \in (SUBSET Utterance) \ {{}} :
        /\ changed = Nothing /\ stored.state \in {"recording", "paused", "draining"}
        /\ \A row \in rows : stored.rows[row] < MaxVersion
        /\ stored' = [stored EXCEPT !.rows =
                        [row \in Utterance |-> IF row \in rows THEN @[row] + 1 ELSE @[row]]]
        /\ changed' = [rows |-> rows, full |-> FALSE]
        /\ UNCHANGED <<owner, mailbox, handed, inbox, direct, client, repair, announced, failures>>

RemovePartial ==
    \E row \in Utterance :
        /\ changed = Nothing /\ stored.state \in {"recording", "paused", "draining"}
        /\ stored.rows[row] \in 1..MaxVersion
        /\ stored' = [stored EXCEPT !.rows[row] = Removed]
        /\ changed' = [rows |-> {row}, full |-> TRUE]
        /\ UNCHANGED <<owner, mailbox, handed, inbox, direct, client, repair, announced, failures>>

EmitChanged ==
    /\ changed # Nothing /\ MayRevise
    /\ Send(changed.rows, changed.full)
    /\ Announce(changed.rows)
    /\ changed' = Nothing
    /\ UNCHANGED <<stored, owner, handed, inbox, direct, client, repair>>

(* Lane transitions, progress and provider errors: an event without rows.  *)
EmitProgress ==
    /\ changed = Nothing /\ owner = "active" /\ MayRevise
    /\ Send({}, FALSE)
    /\ UNCHANGED <<stored, changed, owner, handed, inbox, direct, client, repair, announced>>

(* Pause and resume: the state, then an event whose copy, refreshed or     *)
(* not, is also the call's result.                                         *)
SwitchPause ==
    /\ owner = "active" /\ direct = NoEvent /\ client.state \notin Ended /\ MayRevise
    /\ LET switched == [stored EXCEPT !.state = IF @ = "paused" THEN "recording" ELSE "paused"]
           event == [Loaded({}, FALSE, mailbox.next) EXCEPT !.state = switched.state]
       IN  /\ stored' = switched
           /\ direct' = event
           /\ \/ ~mailbox.closed /\ mailbox' = Enqueued(event) /\ UNCHANGED failures
              \/ mailbox.closed /\ mailbox' = Refused /\ UNCHANGED failures
              \/ ~mailbox.closed /\ failures < MaxFailure /\ mailbox' = Refused /\ failures' = failures + 1
    /\ UNCHANGED <<changed, owner, handed, inbox, client, repair, announced>>

(* Mutant: with the mailbox empty, nobody is told.                         *)
AcknowledgeQuietly ==
    /\ owner = "active" /\ stored.applied < MaxApplied
    /\ stored' = [stored EXCEPT !.applied = @ + 1]
    /\ mailbox' = IF mailbox.event = NoEvent THEN [mailbox EXCEPT !.enqueued = @ + 1]
                  ELSE [mailbox EXCEPT !.event.applied = @ + 1, !.enqueued = @ + 1]
    /\ UNCHANGED <<changed, owner, handed, inbox, direct, client, repair, announced, failures>>

(* commit_projection_ack: the lock is held from before the acknowledgement *)
(* to the event that tells of it.                                          *)
Acknowledge ==
    /\ owner = "active" /\ stored.applied < MaxApplied
    /\ LET applied == stored.applied + 1 IN
       /\ stored' = [stored EXCEPT !.applied = applied]
       /\ \/ /\ mailbox.closed
             /\ UNCHANGED mailbox
          \/ /\ ~mailbox.closed /\ mailbox.event # NoEvent
             /\ mailbox' = [mailbox EXCEPT !.event.applied = applied, !.enqueued = applied]
          \/ /\ ~mailbox.closed /\ mailbox.event = NoEvent /\ MayRevise
             /\ mailbox' = Enqueued([Loaded({}, FALSE, mailbox.next) EXCEPT !.applied = applied])
    /\ UNCHANGED <<changed, owner, handed, inbox, direct, client, repair, announced, failures>>

(* The projector finds its watermark applied but never told: it sends      *)
(* again (finish_up_to_date_realtime_projection).                          *)
ProjectorWake ==
    /\ owner = "active" /\ ~mailbox.closed /\ mailbox.enqueued < stored.applied /\ MayRevise
    /\ Send({}, FALSE)
    /\ UNCHANGED <<stored, changed, owner, handed, inbox, direct, client, repair, announced>>

-----------------------------------------------------------------------------
(* Stop: draining is told, the collector joined, the run completed, the    *)
(* unbound facts bound once more, the whole session sent and returned, and *)
(* the last clone of the sink dropped: what is pending is still delivered. *)
(* When retention fails after that, the client reads the same of the run. *)
BeginStop ==
    /\ owner = "active" /\ direct = NoEvent /\ client.state \notin Ended
    /\ owner' = "stopping"
    /\ stored' = [stored EXCEPT !.state = "draining"]
    /\ LET event == [Loaded({}, FALSE, mailbox.next) EXCEPT !.state = "draining"] IN
       \/ ~mailbox.closed /\ mailbox' = Enqueued(event) /\ UNCHANGED failures
       \/ mailbox.closed /\ mailbox' = Refused /\ UNCHANGED failures
       \/ ~mailbox.closed /\ failures < MaxFailure /\ mailbox' = Refused /\ failures' = failures + 1
    /\ UNCHANGED <<changed, handed, inbox, direct, client, repair, announced>>

CompleteRun ==
    /\ stored.state = "draining" /\ changed = Nothing
    /\ \E rows \in SUBSET {row \in Utterance : stored.rows[row] \in 1..(MaxVersion - 1)} :
         stored' = [stored EXCEPT !.state = "completed",
                                  !.rows = [row \in Utterance |->
                                      IF row \in rows THEN @[row] + 1 ELSE @[row]]]
    /\ UNCHANGED <<changed, owner, mailbox, handed, inbox, direct, client, repair, announced, failures>>

ReturnStop ==
    /\ owner = "stopping" /\ stored.state = "completed" /\ direct = NoEvent
    /\ \/ /\ ~mailbox.closed
          /\ mailbox' = [Enqueued(Loaded(Utterance, TRUE, mailbox.next)) EXCEPT !.closed = TRUE]
          /\ UNCHANGED failures
       \/ /\ mailbox.closed
          /\ mailbox' = Refused
          /\ UNCHANGED failures
       \/ /\ ~mailbox.closed /\ failures < MaxFailure
          /\ mailbox' = [Refused EXCEPT !.closed = TRUE]
          /\ failures' = failures + 1
    /\ direct' = Loaded(Utterance, TRUE, mailbox.next)
    /\ Announce(Utterance)
    /\ owner' = "dropped"
    /\ UNCHANGED <<stored, changed, handed, inbox, client, repair>>

(* A stop that fails interrupts the run and tells of it without the rows;  *)
(* the client reads them when the error comes back, unless that event has  *)
(* come first.                                                             *)
FailStop ==
    /\ owner = "stopping" /\ stored.state = "draining" /\ changed = Nothing
    /\ direct = NoEvent
    /\ LET event == [Loaded({}, FALSE, mailbox.next) EXCEPT !.state = "interrupted"] IN
       mailbox' = IF mailbox.closed THEN Refused ELSE [Enqueued(event) EXCEPT !.closed = TRUE]
    /\ stored' = [stored EXCEPT !.state = "interrupted"]
    /\ direct' = [Loaded(Utterance, TRUE, 0) EXCEPT !.state = "interrupted"]
    /\ owner' = "dropped"
    /\ UNCHANGED <<changed, handed, inbox, client, repair, announced, failures>>

(* A callback that panics ends the dispatcher.                             *)
Panic ==
    /\ handed # NoEvent /\ failures < MaxFailure
    /\ handed' = NoEvent
    /\ mailbox' = [mailbox EXCEPT !.closed = TRUE, !.event = NoEvent]
    /\ failures' = failures + 1
    /\ UNCHANGED <<stored, changed, owner, inbox, direct, client, repair, announced>>

-----------------------------------------------------------------------------
(* The dispatcher thread, and the client's inbox: each keeps the newest.   *)
Deliver ==
    /\ handed = NoEvent /\ mailbox.event # NoEvent
    /\ handed' = mailbox.event
    /\ mailbox' = [mailbox EXCEPT !.event = NoEvent]
    /\ UNCHANGED <<stored, changed, owner, inbox, direct, client, repair, announced, failures>>

Submit ==
    /\ handed # NoEvent
    /\ inbox' = IF inbox # NoEvent /\ inbox.revision > handed.revision THEN inbox ELSE handed
    /\ handed' = NoEvent
    /\ UNCHANGED <<stored, changed, owner, mailbox, direct, client, repair, announced, failures>>

(* upsertOrderedUtterance: the higher revision of a row stays.             *)
Upserted(shown, rows) ==
    [row \in Utterance |-> IF rows[row] >= shown[row] THEN rows[row] ELSE shown[row]]

(* UtteranceGapRepair.observe: the oldest deltas give way.                 *)
Observed(event) ==
    LET kept == repair.buffer \cup {event}
        oldest == CHOOSE e \in kept : \A f \in kept : e.revision <= f.revision
    IN  [repair EXCEPT !.target = IF @ < event.revision THEN event.revision ELSE @,
                       !.buffer = IF Cardinality(kept) > MaxBuffered THEN kept \ {oldest} ELSE kept]

Begun(event) ==
    [on |-> TRUE, target |-> event.revision, asked |-> event.revision,
     buffer |-> {event}, read |-> NoEvent]

Stale(event) == ~event.full /\ event.revision < client.last
Repeated(event) == ~event.full /\ event.revision = client.last

(* reconcileUtterances: what an event, on the screen as it is, leaves.     *)
Reconciled(event) ==
    IF event.full THEN [rows |-> event.rows, repair |-> NoRepair]
    ELSE IF Repeated(event) THEN [rows |-> client.rows, repair |-> repair]
    ELSE [rows |-> Upserted(client.rows, event.rows),
          repair |-> IF repair.on THEN Observed(event)
                     ELSE IF event.revision # client.last + 1 THEN Begun(event)
                     ELSE repair]

(* apply; an ended state ends the callbacks' generation and its repair.    *)
Apply(event) ==
    IF client.state \in Ended \/ Stale(event) THEN UNCHANGED <<client, repair>>
    ELSE /\ client' = [rows |-> Reconciled(event).rows, last |-> event.revision,
                       state |-> event.state,
                       applied |-> IF client.applied < event.applied THEN event.applied
                                                                     ELSE client.applied]
         /\ repair' = IF event.state \in Ended THEN NoRepair ELSE Reconciled(event).repair

DrainOne ==
    /\ inbox # NoEvent
    /\ Apply(inbox)
    /\ inbox' = NoEvent
    /\ UNCHANGED <<stored, changed, owner, mailbox, handed, direct, announced, failures>>

ResultArrives ==
    /\ direct # NoEvent
    /\ Apply(direct)
    /\ direct' = NoEvent
    /\ UNCHANGED <<stored, changed, owner, mailbox, handed, inbox, announced, failures>>

(* Mutant: stamped with the revision the next event will get.              *)
SnapshotOfNext == Loaded(Utterance, TRUE, IF owner = "active" THEN mailbox.next ELSE 0)

(* full_snapshot_with_remote_truth: all rows, stamped under the mailbox    *)
(* lock with the last revision allocated; without an owner, unstamped.     *)
Snapshot == Loaded(Utterance, TRUE, IF owner = "active" THEN mailbox.next - 1 ELSE 0)

(* A pause that failed reads the run and applies what it reads.            *)
ReadAfterFailedPause ==
    /\ owner = "active" /\ direct = NoEvent /\ client.state \notin Ended
    /\ failures < MaxFailure
    /\ failures' = failures + 1
    /\ direct' = Snapshot
    /\ UNCHANGED <<stored, changed, owner, mailbox, handed, inbox, client, repair, announced>>

-----------------------------------------------------------------------------
(* runUtteranceGapRepair: a read on another thread, the deltas that came   *)
(* meanwhile replayed on it, and once more when they still have a gap.     *)
ReadSnapshot ==
    /\ repair.on /\ repair.read = NoEvent
    /\ repair' = [repair EXCEPT !.read = Snapshot]
    /\ UNCHANGED <<stored, changed, owner, mailbox, handed, inbox, direct, client, announced, failures>>

Checkpoint == IF repair.read.revision = 0 THEN repair.asked ELSE repair.read.revision
Replayed == {e \in repair.buffer : e.revision > Checkpoint}

RowAfterReplay(row) ==
    LET versions == {repair.read.rows[row]} \cup {e.rows[row] : e \in Replayed}
    IN  CHOOSE v \in versions : \A w \in versions : w <= v

(* Mutant: the newest replayed delta is taken for the end of the gap.      *)
ContinuousAnyway ==
    LET ends == {Checkpoint} \cup {e.revision : e \in Replayed}
    IN  CHOOSE r \in ends : \A m \in ends : m <= r

(* The end of the run of revisions without a gap after the checkpoint.     *)
ContinuousThrough ==
    LET ends == {Checkpoint} \cup {e.revision : e \in Replayed}
    IN  CHOOSE r \in ends :
          /\ \A m \in (Checkpoint + 1)..r : m \in ends
          /\ r + 1 \notin ends

InstallSnapshot ==
    /\ repair.on /\ repair.read # NoEvent
    /\ LET newest == {client.last, Checkpoint} \cup {e.revision : e \in Replayed} IN
       client' = [client EXCEPT !.rows = [row \in Utterance |-> RowAfterReplay(row)],
                                !.last = CHOOSE r \in newest : \A m \in newest : m <= r]
    /\ repair' = IF ContinuousThrough >= repair.target THEN NoRepair
                 ELSE [repair EXCEPT !.read = NoEvent, !.asked = repair.target,
                                     !.buffer = Replayed]
    /\ UNCHANGED <<stored, changed, owner, mailbox, handed, inbox, direct, announced, failures>>

-----------------------------------------------------------------------------
CallbackNext ==
    \/ PersistBatch \/ RemovePartial \/ EmitChanged \/ EmitProgress
    \/ SwitchPause \/ Acknowledge \/ ProjectorWake
    \/ BeginStop \/ CompleteRun \/ ReturnStop \/ FailStop \/ Panic
    \/ Deliver \/ Submit \/ DrainOne \/ ResultArrives \/ ReadAfterFailedPause
    \/ ReadSnapshot \/ InstallSnapshot

(* The two dispatchers, the collector's own thread and the repair task run *)
(* whenever they can, and a stop that completed the run returns; nobody    *)
(* need stop or pause.                                                     *)
CallbackFairness ==
    /\ WF_callbackVars(EmitChanged) /\ WF_callbackVars(Deliver) /\ WF_callbackVars(Submit)
    /\ WF_callbackVars(DrainOne) /\ WF_callbackVars(ResultArrives)
    /\ WF_callbackVars(ReadSnapshot) /\ WF_callbackVars(InstallSnapshot)
    /\ WF_callbackVars(ReturnStop)

CallbackSpec == CallbackInit /\ [][CallbackNext]_callbackVars /\ CallbackFairness

-----------------------------------------------------------------------------
(* What the screen shows is as new as a version: a removed row is gone.    *)
Covers(shown, version, row) ==
    IF version = Removed THEN shown = Hidden
    ELSE shown >= version \/ stored.rows[row] = Removed

(* No lost revision is forgotten: with no repair under way the client has  *)
(* every change told up to the revision it believes to have, whatever was  *)
(* coalesced in the mailbox or in the inbox, delivered late or replaced by  *)
(* a snapshot older than what was on the screen.  It is about the          *)
(* allocation of revisions and the stamp of snapshots under one lock, and  *)
(* about reconcileUtterances and runUtteranceGapRepair.                    *)
NoChangeIsForgotten ==
    client.state \notin Ended /\ ~repair.on =>
        \A row \in Utterance : announced[row].revision <= client.last =>
            Covers(client.rows[row], announced[row].version, row)

(* The end of a capture shows all of it, also a row bound after the last   *)
(* event, and whatever repair was under way.                               *)
EndIsWhole == client.state = "completed" => client.rows = Visible

ScreenIsWhole == NoChangeIsForgotten /\ EndIsWhole

(* With no refresh, pause or callback failed, the screen always becomes    *)
(* current by itself, without a further event and without a stop: every    *)
(* row change and every acknowledged projection comes to it.  It is about  *)
(* commit_projection_ack's event for an empty mailbox and about repairs    *)
(* that must end.                                                          *)
ScreenIsCurrent ==
    /\ \A row \in Utterance : Covers(client.rows[row], stored.rows[row], row)
    /\ client.applied >= stored.applied
EverythingArrives ==
    []<>(changed # Nothing \/ failures > 0 \/ client.state \in Ended \/ ScreenIsCurrent)
=============================================================================
