------------------------- MODULE RealtimeProjection -------------------------
(***************************************************************************)
(* How the final lanes of one capture session reach the transcript         *)
(* document, how a user corrects them there, and how Delete Forever takes  *)
(* them out again (crates/vt-ffi/src/notebook_capture_api.rs, the document *)
(* side in block_document_api.rs and transcript_projection.rs, the ledger  *)
(* in vt-store/src/notebook_capture_store.rs).                              *)
(*                                                                         *)
(* Three places hold a lane's words: the machine fact in SQLite, the       *)
(* user's override in SQLite, and the document, once in memory and once on *)
(* disk.  One process-wide guard serialises the writers of the document;   *)
(* the collector, which writes machine facts, does not take it.             *)
(*                                                                         *)
(* A text is the machine's n-th final revision of a lane or the user's     *)
(* n-th correction.  RealtimeFacts says how machine facts become final.     *)
(***************************************************************************)
EXTENDS Naturals, FiniteSets

CONSTANTS
    Lane,           \* the lanes of the session's rows
    SourceLane,     \* those that carry a row's own source
    MaxRevision,    \* final revisions of a translation lane (a source has one)
    MaxEdit,        \* corrections the user stages
    MaxFault,       \* failures of a write or of a statement
    MaxCrash        \* deaths of the process

(* The session has a lane, and the counts are counts.                       *)
ASSUME ProjectionAssumption ==
    /\ Lane # {} /\ SourceLane \subseteq Lane
    /\ MaxRevision \in Nat \ {0} /\ MaxEdit \in Nat
    /\ MaxFault \in Nat /\ MaxCrash \in Nat

Absent == <<"absent", 0>>
Machine(n) == <<"machine", n>>
User(n) == <<"user", n>>
Text == {Absent} \cup { Machine(n) : n \in 1..MaxRevision } \cup { User(n) : n \in 1..MaxEdit }

Document == [Lane -> Text]
Torn == [l \in Lane |-> <<"torn", 0>>]       \* truncated and not yet rewritten
Closed == [l \in Lane |-> <<"closed", 0>>]   \* not opened by this process

NoMutation == [text |-> Absent, edit |-> 0, revision |-> 0]
Idle == [op |-> "none"]

VARIABLES
    machine,    \* each lane's final revision and the watermark that carries it
    desired,    \* realtime_loro_desired_revision
    applied,    \* realtime_loro_applied_revision
    override,   \* realtime_utterance_overrides: text and edit revision of each lane
    staged,     \* notebook_projection_mutations: at most one for each lane
    projection, \* projection_state of the run
    active,     \* the run is recording, paused or draining
    purge,      \* "none", "begun" (the tombstone is written), "cleared" (the document)
    passed,     \* the purge passed the session's blocks over: they end the document
    disk,       \* the block document's file
    memory,     \* the open document
    work,       \* what the holder of the document guard is doing
    terminal,   \* a caller holds the ownership gate and is projecting the ended run
    stage,      \* "recover", "replay" (of a start), "run"
    replayed,   \* the lanes whose staged correction this start has been through
    texts,      \* corrections staged so far
    faults, crashes

ledger == <<machine, desired, applied, override, staged, projection, active, purge>>
document == <<disk, memory, passed>>
process == <<work, terminal, stage, replayed>>
budget == <<texts, faults, crashes>>
projectionVars == <<ledger, document, process, budget>>

ProjectionTypeOK ==
    /\ machine \in [Lane -> [revision : 0..MaxRevision, watermark : Nat]]
    /\ desired \in Nat /\ applied \in 0..desired
    /\ \A l \in Lane : /\ machine[l].watermark \in 0..desired
                       /\ (machine[l].revision = 0) <=> (machine[l].watermark = 0)
    /\ override \in [Lane -> [text : Text, edit : Nat]]
    /\ staged \in [Lane -> [text : Text, edit : Nat, revision : 0..MaxRevision]]
    /\ projection \in {"pending", "projecting", "ready", "failed"}
    /\ (active => projection = "pending") /\ active \in BOOLEAN
    /\ purge \in {"none", "begun", "cleared"}
    /\ disk = Torn \/ disk \in Document
    /\ memory = Closed \/ memory \in Document
    /\ work.op \in {"none", "project", "edit", "purge"}
    /\ replayed \subseteq Lane
    /\ terminal \in BOOLEAN /\ stage \in {"recover", "replay", "run"}
    /\ texts \in 0..MaxEdit /\ faults \in 0..MaxFault /\ crashes \in 0..MaxCrash

-----------------------------------------------------------------------------
IsFinal(l) == machine[l].revision > 0

Edited(l) == override[l].edit > 0

(* What a reader of SQLite sees of a lane: the correction over the fact.    *)
Visible(l) == IF Edited(l) THEN override[l].text
              ELSE IF IsFinal(l) THEN Machine(machine[l].revision) ELSE Absent

(* A lane is the user's to correct once the document durably shows it.      *)
Editable(l) == IsFinal(l) /\ machine[l].watermark \in 1..applied

(* Mutant: the tombstone is forgotten once the document is cleared.          *)
BlockedUntilCleared == purge = "begun"

Blocked == purge # "none"

(* The open document, or the file's when it is not open yet.                *)
Opened == IF memory = Closed THEN disk ELSE memory

CanOpen == Opened # Torn

(* machine_upsert_block over every final lane: translations a user has      *)
(* taken over are left alone, a corrected source is written with its        *)
(* correction.                                                               *)
Upserted(doc) ==
    [l \in Lane |-> IF IsFinal(l) /\ ~(Edited(l) /\ l \notin SourceLane)
                    THEN Visible(l) ELSE doc[l]]

Fault == /\ faults < MaxFault /\ faults' = faults + 1
         /\ UNCHANGED <<texts, crashes>>

-----------------------------------------------------------------------------
(* The collector, or the replay of its inbox at a start, makes a lane final *)
(* or lets a final translation grow.  It does not wait for the guard.       *)
LaneSettles(l) ==
    /\ active \/ (stage = "recover" /\ work = Idle /\ ~terminal)
    /\ ~Blocked
    /\ machine[l].revision < IF l \in SourceLane THEN 1 ELSE MaxRevision
    /\ desired' = desired + 1
    /\ machine' = [machine EXCEPT ![l] = [revision |-> @.revision + 1,
                                          watermark |-> desired + 1]]
    /\ UNCHANGED <<applied, override, staged, projection, active, purge,
                   document, process, budget>>

CaptureEnds ==
    /\ active /\ active' = FALSE
    /\ UNCHANGED <<machine, desired, applied, override, staged, projection, purge,
                   document, process, budget>>

(* begin_session_purge: the tombstone needs no guard.                       *)
PurgeBegins ==
    /\ stage = "run" /\ ~active /\ ~Blocked
    /\ purge' = "begun"
    /\ UNCHANGED <<machine, desired, applied, override, staged, projection, active,
                   document, process, budget>>

-----------------------------------------------------------------------------
(* Mutant: a run that still records may be marked.                           *)
MarkProjectingWhileActive ==
    /\ ~terminal /\ ~Blocked /\ stage \in {"recover", "run"} /\ work = Idle
    /\ projection \in {"pending", "failed"}
    /\ projection' = "projecting" /\ terminal' = TRUE
    /\ UNCHANGED <<machine, desired, applied, override, staged, active, purge,
                   document, work, stage, replayed, budget>>

(* Projecting an ended run: retry_projection turns Failed into Pending, and *)
(* the run is marked Projecting before the guard is asked for.              *)
MarkProjecting ==
    /\ ~active /\ ~terminal /\ ~Blocked /\ stage \in {"recover", "run"} /\ work = Idle
    /\ projection \in {"pending", "failed"}
    /\ projection' = "projecting" /\ terminal' = TRUE
    /\ UNCHANGED <<machine, desired, applied, override, staged, active, purge,
                   document, work, stage, replayed, budget>>

(* What an unsuccessful projection leaves: Failed, unless that write fails  *)
(* too, and a start goes on to the staged corrections.                       *)
AfterProjection == IF stage = "recover" THEN "replay" ELSE stage

ProjectionFailed ==
    /\ terminal' = FALSE /\ work' = Idle /\ stage' = AfterProjection
    /\ projection' = IF terminal THEN "failed" ELSE projection

(* The start of the critical section: the tombstone, the watermark, one     *)
(* read of SQLite, and the upserts in memory.                                *)
Sync ==
    /\ work = Idle /\ stage \in {"recover", "run"} /\ ~Blocked
    /\ stage = "recover" => terminal \/ projection = "ready"
    /\ desired > applied /\ CanOpen
    /\ memory' = Upserted(Opened)
    /\ work' = [op |-> "project", pc |-> "write", complete |-> terminal, wanted |-> desired]
    /\ UNCHANGED <<ledger, disk, passed, terminal, stage, replayed, budget>>

SyncRefused ==
    /\ work = Idle /\ stage \in {"recover", "run"}
    /\ stage = "recover" => terminal
    /\ terminal /\ (Blocked \/ (desired > applied /\ ~CanOpen))
    /\ ProjectionFailed
    /\ UNCHANGED <<machine, desired, applied, override, staged, active, purge,
                   document, replayed, budget>>

(* Nothing is pending: an ended run only becomes Ready.                     *)
SyncUpToDate ==
    /\ work = Idle /\ terminal /\ ~Blocked /\ desired = applied
    /\ projection' = "ready" /\ terminal' = FALSE /\ stage' = AfterProjection
    /\ UNCHANGED <<machine, desired, applied, override, staged, active, purge,
                   document, work, replayed, budget>>

(* save_block_document: fs::write truncates the file, then fills it.        *)
WriteBegins ==
    /\ work # Idle /\ work.pc = "write"
    /\ disk' = Torn
    /\ work' = [work EXCEPT !.pc = "writing"]
    /\ UNCHANGED <<ledger, memory, passed, terminal, stage, replayed, budget>>

WriteEnds ==
    /\ work # Idle /\ work.pc = "writing"
    /\ disk' = memory
    /\ work' = [work EXCEPT !.pc = "written"]
    /\ UNCHANGED <<ledger, memory, passed, terminal, stage, replayed, budget>>

(* Mutant: the projector acknowledges what is desired by now.                *)
AcknowledgedNow == desired

(* The projector acknowledges what it read, not what is desired by now.     *)
Acknowledged == IF applied > work.wanted THEN applied ELSE work.wanted

SyncAcknowledge ==
    /\ work.op = "project" /\ work.pc = "written"
    /\ applied' = Acknowledged
    /\ work' = IF work.complete THEN [work EXCEPT !.pc = "complete"] ELSE Idle
    /\ stage' = IF work.complete THEN stage ELSE AfterProjection
    /\ UNCHANGED <<machine, desired, override, staged, projection, active, purge,
                   document, terminal, replayed, budget>>

SyncComplete ==
    /\ work.op = "project" /\ work.pc = "complete"
    /\ IF Blocked THEN ProjectionFailed
       ELSE /\ projection' = "ready"
            /\ terminal' = FALSE /\ work' = Idle /\ stage' = AfterProjection
    /\ UNCHANGED <<machine, desired, applied, override, staged, active, purge,
                   document, replayed, budget>>

(* The write fails part of the way, or the acknowledgement does.            *)
SyncFails ==
    /\ work.op = "project" /\ work.pc \in {"writing", "written", "complete"}
    /\ Fault
    /\ \/ ProjectionFailed
       \/ /\ terminal                          \* marking it Failed fails as well
          /\ terminal' = FALSE /\ work' = Idle /\ stage' = AfterProjection
          /\ UNCHANGED projection
    /\ UNCHANGED <<machine, desired, applied, override, staged, active, purge, document, replayed>>

-----------------------------------------------------------------------------
(* replace_notebook_utterance_lane stages a correction under the guard.     *)
StageEdit(l) ==
    /\ stage = "run" /\ work = Idle /\ ~Blocked
    /\ Editable(l) /\ staged[l] = NoMutation
    /\ texts < MaxEdit /\ texts' = texts + 1
    /\ staged' = [staged EXCEPT ![l] = [text |-> User(texts + 1), edit |-> override[l].edit,
                                        revision |-> machine[l].revision]]
    /\ work' = [op |-> "edit", lane |-> l, pc |-> "verb", previous |-> Absent]
    /\ UNCHANGED <<machine, desired, applied, override, projection, active, purge,
                   document, terminal, stage, faults, crashes, replayed>>

(* The same correction again finds the one already staged.                  *)
RestageEdit(l) ==
    /\ stage = "run" /\ work = Idle /\ ~Blocked
    /\ Editable(l) /\ staged[l] # NoMutation
    /\ staged[l].edit = override[l].edit /\ staged[l].revision = machine[l].revision
    /\ work' = [op |-> "edit", lane |-> l, pc |-> "verb", previous |-> Absent]
    /\ UNCHANGED <<ledger, document, terminal, stage, replayed, budget>>

(* A start goes through what is still staged.                               *)
ReplayEdit(l) ==
    /\ stage = "replay" /\ work = Idle /\ staged[l] # NoMutation /\ l \notin replayed
    /\ replayed' = replayed \cup {l}
    /\ work' = [op |-> "edit", lane |-> l, pc |-> "verb", previous |-> Absent]
    /\ UNCHANGED <<ledger, document, terminal, stage, budget>>

ReplayEnds ==
    /\ stage = "replay" /\ work = Idle
    /\ \A l \in Lane : staged[l] = NoMutation \/ l \in replayed
    /\ stage' = "run"
    /\ UNCHANGED <<ledger, document, work, terminal, replayed, budget>>

Cancelled(l) == staged' = [staged EXCEPT ![l] = NoMutation]

EditVerb ==
    /\ work.op = "edit" /\ work.pc = "verb"
    /\ CanOpen /\ Opened[work.lane] # Absent
    /\ memory' = [Opened EXCEPT ![work.lane] = staged[work.lane].text]
    /\ work' = [work EXCEPT !.pc = "write", !.previous = Opened[work.lane]]
    /\ UNCHANGED <<ledger, disk, passed, terminal, stage, replayed, budget>>

(* The document cannot be opened, or does not show the lane.                *)
EditVerbRefused ==
    /\ work.op = "edit" /\ work.pc = "verb"
    /\ ~CanOpen \/ Opened[work.lane] = Absent
    /\ Cancelled(work.lane) /\ work' = Idle
    /\ memory' = IF CanOpen THEN Opened ELSE memory
    /\ UNCHANGED <<machine, desired, applied, override, projection, active, purge,
                   disk, passed, terminal, stage, replayed, budget>>

(* The write fails: memory gets its old words back and the correction is    *)
(* cancelled, if that can be written.                                        *)
EditWriteFails ==
    /\ work.op = "edit" /\ work.pc = "writing"
    /\ Fault
    /\ memory' = [memory EXCEPT ![work.lane] = work.previous]
    /\ work' = Idle
    /\ Cancelled(work.lane)
    /\ UNCHANGED <<machine, desired, applied, override, projection, active, purge,
                   disk, passed, terminal, stage, replayed>>

(* Mutant: the override is written before the document is.                   *)
EditCommitUnwritten ==
    /\ work.op = "edit" /\ work.pc = "write"
    /\ override' = [override EXCEPT ![work.lane] = [text |-> staged[work.lane].text, edit |-> @.edit + 1]]
    /\ Cancelled(work.lane) /\ work' = Idle
    /\ UNCHANGED <<machine, desired, applied, projection, active, purge,
                   document, terminal, stage, replayed, budget>>

(* commit_projection_mutation: the correction becomes the override if       *)
(* nothing moved under it; otherwise it stays staged.                        *)
EditCommit ==
    /\ work.op = "edit" /\ work.pc = "written"
    /\ LET l == work.lane
           m == staged[l]
       IN  IF /\ ~Blocked /\ Editable(l)
              /\ m.revision = machine[l].revision /\ m.edit = override[l].edit
           THEN /\ override' = [override EXCEPT ![l] = [text |-> m.text, edit |-> @.edit + 1]]
                /\ Cancelled(l)
           ELSE UNCHANGED <<override, staged>>
    /\ work' = Idle
    /\ UNCHANGED <<machine, desired, applied, projection, active, purge,
                   document, terminal, stage, replayed, budget>>

EditCommitFails ==
    /\ work.op = "edit" /\ work.pc = "written"
    /\ Fault
    /\ work' = Idle
    /\ UNCHANGED <<ledger, document, terminal, stage, replayed>>

-----------------------------------------------------------------------------
(* The purge takes the session's blocks out of the document, if another     *)
(* recording's or an annotation follows them: Mirror does not remove what   *)
(* ends a list (KeyedList).                                                  *)
PurgeDocument ==
    /\ stage = "run" /\ work = Idle /\ purge = "begun" /\ CanOpen
    /\ passed' \in {passed, TRUE}
    /\ memory' = IF passed' THEN Opened ELSE [l \in Lane |-> Absent]
    /\ work' = [op |-> "purge", pc |-> "write"]
    /\ UNCHANGED <<ledger, disk, terminal, stage, replayed, budget>>

PurgeCleared ==
    /\ work.op = "purge" /\ work.pc = "written"
    /\ purge' = "cleared" /\ work' = Idle
    /\ UNCHANGED <<machine, desired, applied, override, staged, projection, active,
                   document, terminal, stage, replayed, budget>>

PurgeWriteFails ==
    /\ work.op = "purge" /\ work.pc = "writing"
    /\ Fault
    /\ work' = Idle
    /\ UNCHANGED <<ledger, document, terminal, stage, replayed>>

-----------------------------------------------------------------------------
(* The process dies.  The next start ends the run, fails what was           *)
(* Projecting, and goes through the projection and the staged corrections.  *)
ProcessDies ==
    /\ crashes < MaxCrash /\ crashes' = crashes + 1
    /\ memory' = Closed /\ work' = Idle /\ terminal' = FALSE /\ replayed' = {}
    /\ stage' = "recover" /\ active' = FALSE
    /\ projection' = IF projection = "projecting" THEN "failed" ELSE projection
    /\ UNCHANGED <<machine, desired, applied, override, staged, purge, disk, passed, texts, faults>>

(* Nothing to project, or a tombstone in the way.                           *)
RecoverSkips ==
    /\ stage = "recover" /\ work = Idle /\ ~terminal
    /\ Blocked \/ (projection = "ready" /\ (desired = applied \/ ~CanOpen))
    /\ stage' = "replay"
    /\ UNCHANGED <<ledger, document, work, terminal, replayed, budget>>

ProjectionInit ==
    /\ machine = [l \in Lane |-> [revision |-> 0, watermark |-> 0]]
    /\ desired = 0 /\ applied = 0
    /\ override = [l \in Lane |-> [text |-> Absent, edit |-> 0]]
    /\ staged = [l \in Lane |-> NoMutation]
    /\ projection = "pending" /\ active = TRUE /\ purge = "none"
    /\ disk = [l \in Lane |-> Absent] /\ memory = Closed /\ passed = FALSE
    /\ work = Idle /\ terminal = FALSE /\ stage = "run" /\ replayed = {}
    /\ texts = 0 /\ faults = 0 /\ crashes = 0

ProjectionNext ==
    \/ \E l \in Lane : LaneSettles(l)
    \/ CaptureEnds \/ PurgeBegins \/ MarkProjecting
    \/ Sync \/ SyncRefused \/ SyncUpToDate \/ WriteBegins \/ WriteEnds
    \/ SyncAcknowledge \/ SyncComplete \/ SyncFails
    \/ \E l \in Lane : StageEdit(l) \/ RestageEdit(l) \/ ReplayEdit(l)
    \/ ReplayEnds \/ EditVerb \/ EditVerbRefused \/ EditWriteFails
    \/ EditCommit \/ EditCommitFails
    \/ PurgeDocument \/ PurgeCleared \/ PurgeWriteFails
    \/ ProcessDies \/ RecoverSkips

ProjectionSpec == ProjectionInit /\ [][ProjectionNext]_projectionVars

-----------------------------------------------------------------------------
(* A lane SQLite says is projected is in the document, and not with older   *)
(* words of the machine: the watermark never runs ahead of the file, though *)
(* the collector moves both the lane and the watermark while a projection   *)
(* is on its way to the disk.                                                *)
AckedLaneIsInDocument ==
    \A l \in Lane : Editable(l) /\ purge = "none" /\ disk # Torn =>
        disk[l] # Absent /\ (disk[l][1] = "machine" => disk[l] = Machine(machine[l].revision))

(* The watermark and the document, both well formed, agree.                  *)
WatermarkIsSound == ProjectionTypeOK /\ AckedLaneIsInDocument

(* A committed correction outlives every later projection, retry, failed    *)
(* correction and restart: the document shows it or a later one of the      *)
(* user's, never the machine's words or an earlier correction.               *)
UserTextSurvives ==
    \A l \in Lane : Edited(l) /\ purge = "none" /\ disk # Torn =>
        disk[l][1] = "user" /\ disk[l][2] >= override[l].text[2]

(* What Delete Forever took out of the document stays out, whichever        *)
(* projection or correction was under way when the tombstone was written.   *)
PurgedStaysGone ==
    purge = "cleared" /\ ~passed => disk = [l \in Lane |-> Absent] /\ (memory = Closed \/ memory = disk)

(* The snapshot an acknowledgement stands for can be read back: the comment *)
(* before the acknowledgement says that it is durable by then.               *)
AckedIsReadable == applied > 0 /\ memory = Closed => disk # Torn

=============================================================================
