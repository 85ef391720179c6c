---------------------- MODULE RealtimeProjectionProofs ----------------------
(***************************************************************************)
(* For any lanes, revisions, corrections, failures and process deaths: what *)
(* the acknowledged watermark and the user's corrections promise of the     *)
(* document, and that a purge stays done.                                   *)
(*                                                                         *)
(* None of the three is inductive.  They speak of the file, and the file    *)
(* becomes what the memory was when a write ends: so the memory, what a     *)
(* failed correction would put back there, and the staged corrections have  *)
(* to be as good as the file is, at every point of the critical section     *)
(* (DocumentsOK, CorrectionsOK).  The collector moves lanes and the desired *)
(* watermark without the guard: what a projection read is kept at its own   *)
(* watermark, above which every later revision is (Shows).                  *)
(***************************************************************************)
EXTENDS RealtimeProjection, TLAPS

ProjectWork == [op : {"project"}, pc : {"write", "writing", "written", "complete"},
                complete : BOOLEAN, wanted : Nat]
EditWork == [op : {"edit"}, lane : Lane, pc : {"verb", "write", "writing", "written"},
             previous : Text]
PurgeWork == [op : {"purge"}, pc : {"write", "writing", "written"}]
Work == {Idle} \cup ProjectWork \cup EditWork \cup PurgeWork

Cleared == [l \in Lane |-> Absent]

\* The holder of the guard has the new document in memory.
InHand == work.op \in {"project", "purge"} \/ (work.op = "edit" /\ work.pc # "verb")

ProcessOK ==
    /\ work \in Work /\ passed \in BOOLEAN
    /\ terminal => ~active
    /\ work.op = "project" => /\ work.wanted <= desired
                              /\ work.complete <=> terminal
                              /\ work.pc = "complete" => terminal
    /\ InHand => memory # Closed
    /\ InHand /\ work.pc \in {"written", "complete"} => disk = memory

CorrectionsOK ==
    /\ \A l \in Lane : Edited(l) => override[l].text \in { User(n) : n \in 1..texts }
    /\ \A l \in Lane : staged[l] # NoMutation =>
          /\ staged[l].text \in { User(n) : n \in 1..texts }
          /\ Edited(l) => staged[l].text[2] > override[l].text[2]
    /\ work.op = "edit" => staged[work.lane] # NoMutation
    /\ work.op = "edit" /\ work.pc # "verb" => memory[work.lane] = staged[work.lane].text

\* A document shows every revision up to a watermark, and no older one.
Shows(doc, watermark) ==
    \A l \in Lane : IsFinal(l) /\ machine[l].watermark <= watermark =>
        doc[l] # Absent /\ (doc[l][1] = "machine" => doc[l] = Machine(machine[l].revision))

KeepsEdits(doc) ==
    \A l \in Lane : Edited(l) => doc[l][1] = "user" /\ doc[l][2] >= override[l].text[2]

Good(doc) == Shows(doc, applied) /\ KeepsEdits(doc)

DocumentsOK ==
    purge = "none" =>
        /\ disk # Torn => Good(disk)
        /\ memory # Closed => Good(memory)
        /\ work.op = "project" => Shows(memory, work.wanted)
        /\ work.op = "edit" /\ work.pc # "verb"
              => Good([memory EXCEPT ![work.lane] = work.previous])

PurgeOK ==
    /\ work.op = "purge" => purge = "begun" /\ (~passed => memory = Cleared)
    /\ purge = "cleared" /\ ~passed =>
          /\ disk = Cleared /\ (memory = Closed \/ memory = disk)
          /\ work = Idle \/ (work.op = "edit" /\ work.pc = "verb")

ProjectionInv == ProjectionTypeOK /\ ProcessOK /\ CorrectionsOK /\ DocumentsOK /\ PurgeOK

-----------------------------------------------------------------------------
\* What tells the texts apart.
LEMMA Texts ==
    /\ Absent \in Text /\ Absent[1] = "absent"
    /\ \A n \in 1..MaxRevision : /\ Machine(n) \in Text /\ Machine(n) # Absent
                                 /\ Machine(n)[1] = "machine" /\ Machine(n)[2] = n
    /\ \A n \in 1..MaxEdit : /\ User(n) \in Text /\ User(n) # Absent
                             /\ User(n)[1] = "user" /\ User(n)[2] = n
    /\ <<"torn", 0>> \notin Text /\ <<"closed", 0>> \notin Text
  BY DEF Absent, Text, Machine, User

\* A file that is whole can be told from a torn one and from none.
LEMMA Documents ==
    Torn \notin Document /\ Closed \notin Document /\ Torn # Closed /\ Cleared \in Document
  BY Texts, ProjectionAssumption DEF Torn, Closed, Document, Cleared

\* Which kind of holder the guard has.
LEMMA WorkKinds ==
    ASSUME work \in Work
    PROVE  /\ work.op = "none" <=> work = Idle
           /\ work.op = "project" <=> work \in ProjectWork
           /\ work.op = "edit" <=> work \in EditWork
           /\ work.op = "purge" <=> work \in PurgeWork
           /\ work.op \in {"none", "project", "edit", "purge"}
  BY DEF Work, Idle, ProjectWork, EditWork, PurgeWork

\* The holder of the guard goes on with its write.
LEMMA PcMoves ==
    ASSUME work \in Work, work # Idle, work.pc # "verb",
           NEW pc \in {"write", "writing", "written"},
           work' = [work EXCEPT !.pc = pc]
    PROVE  /\ work' \in Work /\ work'.op = work.op /\ work'.pc = pc
           /\ work.op = "project" => work'.wanted = work.wanted /\ work'.complete = work.complete
           /\ work.op = "edit" => work'.lane = work.lane /\ work'.previous = work.previous
  <1>1. CASE work \in ProjectWork
    BY <1>1 DEF Work, ProjectWork
  <1>2. CASE work \in EditWork
    BY <1>2 DEF Work, EditWork
  <1>3. CASE work \in PurgeWork
    BY <1>3 DEF Work, PurgeWork
  <1> QED
    BY <1>1, <1>2, <1>3 DEF Work

\* The open document, when there is one.
LEMMA OpenedDocument ==
    ASSUME ProjectionTypeOK, CanOpen
    PROVE  Opened \in Document
  BY Documents DEF ProjectionTypeOK, CanOpen, Opened

\* What the guard's holder does next is again a kind of work.
LEMMA WorkStep ==
    ASSUME ProjectionTypeOK, work \in Work, [ProjectionNext]_projectionVars
    PROVE  work' \in Work
  <1>1. work' = work \/ work' = Idle => work' \in Work
    BY DEF Work
  <1>2. ASSUME NEW l \in Lane,
               work' = [op |-> "edit", lane |-> l, pc |-> "verb", previous |-> Absent]
        PROVE  work' \in Work
    BY <1>2, Texts DEF Work, EditWork
  <1>3. CASE Sync
    BY <1>3 DEF Sync, Work, ProjectWork, ProjectionTypeOK
  <1>4. CASE WriteBegins \/ WriteEnds
    BY <1>4, PcMoves DEF WriteBegins, WriteEnds
  <1>5. CASE SyncAcknowledge
    BY <1>1, <1>5, WorkKinds DEF SyncAcknowledge, Work, ProjectWork
  <1>6. CASE EditVerb
    BY <1>6, WorkKinds, OpenedDocument DEF EditVerb, Work, EditWork, Document
  <1>7. CASE PurgeDocument
    BY <1>7 DEF PurgeDocument, Work, PurgeWork
  <1>8. CASE SyncRefused \/ SyncComplete \/ SyncFails \/ SyncUpToDate \/ MarkProjecting
    BY <1>1, <1>8 DEF SyncRefused, SyncComplete, SyncFails, ProjectionFailed, SyncUpToDate, MarkProjecting
  <1>9. CASE EditVerbRefused \/ EditWriteFails \/ EditCommit \/ EditCommitFails \/ PurgeCleared
             \/ PurgeWriteFails \/ ProcessDies
    BY <1>1, <1>9 DEF EditVerbRefused, EditWriteFails, EditCommit, EditCommitFails, PurgeCleared,
                      PurgeWriteFails, ProcessDies
  <1>10. CASE CaptureEnds \/ PurgeBegins \/ ReplayEnds \/ RecoverSkips \/ UNCHANGED projectionVars
    BY <1>1, <1>10 DEF CaptureEnds, PurgeBegins, ReplayEnds, RecoverSkips, process, projectionVars
  <1>11. ASSUME NEW l \in Lane, LaneSettles(l) \/ StageEdit(l) \/ RestageEdit(l) \/ ReplayEdit(l)
         PROVE  work' \in Work
    BY <1>1, <1>2, <1>11 DEF LaneSettles, StageEdit, RestageEdit, ReplayEdit, process
  <1> QED
    BY <1>3, <1>4, <1>5, <1>6, <1>7, <1>8, <1>9, <1>10, <1>11 DEF ProjectionNext

\* What each step may change, variable by variable.
LEMMA Frame ==
    ASSUME [ProjectionNext]_projectionVars
    PROVE  /\ UNCHANGED <<machine, desired>> \/ \E l \in Lane : LaneSettles(l)
           /\ UNCHANGED applied \/ SyncAcknowledge
           /\ UNCHANGED override \/ EditCommit
           /\ UNCHANGED staged \/ EditVerbRefused \/ EditWriteFails \/ EditCommit
              \/ \E l \in Lane : StageEdit(l)
           /\ UNCHANGED disk \/ WriteBegins \/ WriteEnds
           /\ UNCHANGED memory \/ Sync \/ EditVerb \/ EditVerbRefused \/ EditWriteFails
              \/ PurgeDocument \/ ProcessDies
           /\ UNCHANGED purge \/ PurgeBegins \/ PurgeCleared
           /\ UNCHANGED texts \/ \E l \in Lane : StageEdit(l)
           /\ UNCHANGED faults \/ Fault
           /\ UNCHANGED crashes \/ ProcessDies
           /\ UNCHANGED <<projection, active>> \/ CaptureEnds \/ MarkProjecting \/ SyncRefused
              \/ SyncUpToDate \/ SyncComplete \/ SyncFails \/ ProcessDies
           /\ UNCHANGED <<terminal, stage, replayed>> \/ MarkProjecting \/ SyncRefused \/ SyncUpToDate
              \/ SyncAcknowledge \/ SyncComplete \/ SyncFails \/ ReplayEnds \/ ProcessDies \/ RecoverSkips
              \/ \E l \in Lane : ReplayEdit(l)
  <1> USE DEF ledger, document, process, budget
  <1>1. ASSUME NEW l \in Lane, LaneSettles(l) \/ StageEdit(l)
        PROVE  UNCHANGED <<applied, override, disk, memory, purge, faults, crashes, projection, active,
                           terminal, stage, replayed>>
               /\ (UNCHANGED <<machine, desired>> \/ LaneSettles(l))
               /\ (UNCHANGED <<staged, texts>> \/ StageEdit(l))
    BY <1>1 DEF LaneSettles, StageEdit
  <1>2. ASSUME NEW l \in Lane, RestageEdit(l) \/ ReplayEdit(l)
        PROVE  UNCHANGED <<machine, desired, applied, override, staged, disk, memory, purge, texts,
                           faults, crashes, projection, active>>
               /\ (UNCHANGED <<terminal, stage, replayed>> \/ ReplayEdit(l))
    BY <1>2 DEF RestageEdit, ReplayEdit
  <1>3. CASE CaptureEnds \/ MarkProjecting \/ SyncRefused \/ SyncUpToDate \/ SyncComplete \/ SyncFails
             \/ ReplayEnds \/ EditCommitFails \/ PurgeWriteFails \/ RecoverSkips \/ UNCHANGED projectionVars
    BY <1>3 DEF CaptureEnds, MarkProjecting, SyncRefused, SyncUpToDate, SyncComplete, SyncFails,
                ReplayEnds, EditCommitFails, PurgeWriteFails, RecoverSkips, Fault, projectionVars
  <1>4. CASE PurgeBegins \/ PurgeCleared
    BY <1>4 DEF PurgeBegins, PurgeCleared
  <1>5. CASE Sync \/ EditVerb \/ PurgeDocument \/ ProcessDies
    BY <1>5 DEF Sync, EditVerb, PurgeDocument, ProcessDies
  <1>6. CASE WriteBegins \/ WriteEnds
    BY <1>6 DEF WriteBegins, WriteEnds
  <1>7. CASE SyncAcknowledge
    BY <1>7 DEF SyncAcknowledge
  <1>8. CASE EditVerbRefused \/ EditWriteFails
    BY <1>8 DEF EditVerbRefused, EditWriteFails, Fault
  <1>9. CASE EditCommit
    BY <1>9 DEF EditCommit
  <1> QED
    BY <1>1, <1>2, <1>3, <1>4, <1>5, <1>6, <1>7, <1>8, <1>9 DEF ProjectionNext

-----------------------------------------------------------------------------
\* The types, in parts.
LanesTyped ==
    /\ machine \in [Lane -> [revision : 0..MaxRevision, watermark : Nat]]
    /\ desired \in Nat /\ applied \in 0..desired
    /\ \A l \in Lane : /\ machine[l].watermark \in 0..desired
                       /\ (machine[l].revision = 0) <=> (machine[l].watermark = 0)

CorrectionsTyped ==
    /\ override \in [Lane -> [text : Text, edit : Nat]]
    /\ staged \in [Lane -> [text : Text, edit : Nat, revision : 0..MaxRevision]]

DocumentsTyped ==
    /\ disk = Torn \/ disk \in Document
    /\ memory = Closed \/ memory \in Document

RunTyped ==
    /\ projection \in {"pending", "projecting", "ready", "failed"}
    /\ (active => projection = "pending") /\ active \in BOOLEAN
    /\ purge \in {"none", "begun", "cleared"}

StartTyped ==
    /\ replayed \subseteq Lane
    /\ terminal \in BOOLEAN /\ stage \in {"recover", "replay", "run"}

CountsTyped == texts \in 0..MaxEdit /\ faults \in 0..MaxFault /\ crashes \in 0..MaxCrash

LEMMA TypeParts ==
    ASSUME work \in Work
    PROVE  ProjectionTypeOK <=> LanesTyped /\ CorrectionsTyped /\ DocumentsTyped
                              /\ RunTyped /\ StartTyped /\ CountsTyped
  BY WorkKinds DEF ProjectionTypeOK, LanesTyped, CorrectionsTyped, DocumentsTyped, RunTyped,
                      StartTyped, CountsTyped

LEMMA LanesTypedStep ==
    ASSUME LanesTyped, ProcessOK, [ProjectionNext]_projectionVars
    PROVE  LanesTyped'
  <1> USE DEF LanesTyped
  <1>1. ASSUME NEW l \in Lane, LaneSettles(l) PROVE LanesTyped'
    BY <1>1, ProjectionAssumption DEF LaneSettles
  <1>2. CASE SyncAcknowledge
    BY <1>2, WorkKinds DEF SyncAcknowledge, Acknowledged, ProcessOK, ProjectWork
  <1>3. CASE UNCHANGED <<machine, desired, applied>>
    BY <1>3
  <1> QED
    BY <1>1, <1>2, <1>3, Frame

LEMMA CorrectionsTypedStep ==
    ASSUME CorrectionsTyped, LanesTyped, CountsTyped, ProcessOK,
           [ProjectionNext]_projectionVars
    PROVE  CorrectionsTyped'
  <1>1. ASSUME NEW l \in Lane, StageEdit(l) PROVE CorrectionsTyped'
    <2>1. User(texts + 1) \in Text
      BY <1>1, Texts, ProjectionAssumption DEF StageEdit, CountsTyped
    <2> QED
      BY <1>1, <2>1 DEF StageEdit, CorrectionsTyped, LanesTyped
  <1>2. ASSUME NEW l, Cancelled(l)
        PROVE  staged' \in [Lane -> [text : Text, edit : Nat, revision : 0..MaxRevision]]
    <2>1. NoMutation \in [text : Text, edit : Nat, revision : 0..MaxRevision]
      BY Texts, ProjectionAssumption DEF NoMutation
    <2> QED
      BY <1>2, <2>1 DEF Cancelled, CorrectionsTyped
  <1>3. CASE EditCommit
    <2>1. work.lane \in Lane
      BY <1>3, WorkKinds DEF EditCommit, ProcessOK, EditWork
    <2>2. override' \in [Lane -> [text : Text, edit : Nat]]
      BY <1>3, <2>1 DEF EditCommit, CorrectionsTyped
    <2> QED
      BY <1>2, <1>3, <2>2 DEF EditCommit, CorrectionsTyped
  <1>4. CASE EditVerbRefused \/ EditWriteFails
    BY <1>2, <1>4 DEF EditVerbRefused, EditWriteFails, CorrectionsTyped
  <1>5. CASE UNCHANGED <<override, staged>>
    BY <1>5 DEF CorrectionsTyped
  <1> QED
    BY <1>1, <1>3, <1>4, <1>5, Frame

\* What is taken in hand is a whole document.
LEMMA NewDocument ==
    ASSUME CorrectionsTyped, LanesTyped, DocumentsTyped, ProcessOK
    PROVE  /\ CanOpen => Opened \in Document
           /\ Sync \/ EditVerb \/ PurgeDocument => memory' \in Document
  <1>0. CanOpen => Opened \in Document
    BY DEF CanOpen, Opened, DocumentsTyped
  <1>1. CASE Sync
    <2>1. \A l \in Lane : Visible(l) \in Text
      BY Texts DEF Visible, Edited, IsFinal, CorrectionsTyped, LanesTyped
    <2> QED
      BY <1>0, <1>1, <2>1 DEF Sync, Upserted, Document
  <1>2. CASE EditVerb
    <2>1. staged[work.lane].text \in Text
      BY <1>2, WorkKinds DEF EditVerb, EditWork, ProcessOK, CorrectionsTyped
    <2> QED
      BY <1>0, <1>2, <2>1 DEF EditVerb, Document
  <1>3. CASE PurgeDocument
    BY <1>0, <1>3, Texts DEF PurgeDocument, Document
  <1> QED
    BY <1>0, <1>1, <1>2, <1>3

LEMMA DocumentsTypedStep ==
    ASSUME CorrectionsTyped, LanesTyped, DocumentsTyped, ProcessOK,
           [ProjectionNext]_projectionVars
    PROVE  DocumentsTyped'
  <1> USE DEF DocumentsTyped
  <1>1. CASE Sync
    BY <1>1, NewDocument DEF Sync
  <1>2. CASE WriteBegins
    BY <1>2 DEF WriteBegins
  <1>3. CASE WriteEnds
    BY <1>3, WorkKinds DEF WriteEnds, ProcessOK, InHand
  <1>4. CASE EditVerb
    BY <1>4, NewDocument DEF EditVerb
  <1>5. CASE EditVerbRefused
    BY <1>5, NewDocument DEF EditVerbRefused
  <1>6. CASE EditWriteFails
    BY <1>6, WorkKinds DEF EditWriteFails, ProcessOK, InHand, EditWork, Document
  <1>7. CASE PurgeDocument
    BY <1>7, NewDocument DEF PurgeDocument
  <1>8. CASE ProcessDies
    BY <1>8 DEF ProcessDies
  <1>9. CASE UNCHANGED <<disk, memory>>
    BY <1>9
  <1> QED
    BY <1>1, <1>2, <1>3, <1>4, <1>5, <1>6, <1>7, <1>8, <1>9, Frame

LEMMA RunTypedStep ==
    ASSUME RunTyped, ProcessOK, [ProjectionNext]_projectionVars
    PROVE  RunTyped'
  <1> USE DEF RunTyped
  <1>1. ASSUME purge' \in {"none", "begun", "cleared"}, UNCHANGED <<projection, active>> PROVE RunTyped'
    BY <1>1
  <1>2. purge' \in {"none", "begun", "cleared"}
    BY Frame DEF PurgeBegins, PurgeCleared
  <1>3. CASE CaptureEnds
    BY <1>3 DEF CaptureEnds
  <1>4. CASE MarkProjecting
    BY <1>4 DEF MarkProjecting
  <1>5. CASE SyncRefused
    BY <1>5 DEF SyncRefused, ProjectionFailed, ProcessOK
  <1>6. CASE SyncUpToDate
    BY <1>6 DEF SyncUpToDate, ProcessOK
  <1>7. CASE SyncComplete
    BY <1>7 DEF SyncComplete, ProjectionFailed, ProcessOK
  <1>8. CASE SyncFails
    BY <1>8 DEF SyncFails, ProjectionFailed, ProcessOK
  <1>9. CASE ProcessDies
    BY <1>9 DEF ProcessDies
  <1> QED
    BY <1>1, <1>2, <1>3, <1>4, <1>5, <1>6, <1>7, <1>8, <1>9, Frame

LEMMA StartTypedStep ==
    ASSUME StartTyped, [ProjectionNext]_projectionVars
    PROVE  StartTyped'
  <1> USE DEF StartTyped, AfterProjection
  <1>1. ASSUME NEW l \in Lane, ReplayEdit(l) PROVE StartTyped'
    BY <1>1 DEF ReplayEdit
  <1>2. CASE MarkProjecting \/ ReplayEnds \/ RecoverSkips
    BY <1>2 DEF MarkProjecting, ReplayEnds, RecoverSkips
  <1>3. CASE SyncRefused \/ SyncUpToDate
    BY <1>3 DEF SyncRefused, SyncUpToDate, ProjectionFailed
  <1>4. CASE SyncAcknowledge
    BY <1>4 DEF SyncAcknowledge
  <1>5. CASE SyncComplete
    BY <1>5 DEF SyncComplete, ProjectionFailed
  <1>6. CASE SyncFails
    BY <1>6 DEF SyncFails, ProjectionFailed
  <1>7. CASE ProcessDies
    BY <1>7 DEF ProcessDies
  <1>8. CASE UNCHANGED <<terminal, stage, replayed>>
    BY <1>8
  <1> QED
    BY <1>1, <1>2, <1>3, <1>4, <1>5, <1>6, <1>7, <1>8, Frame

LEMMA CountsTypedStep ==
    ASSUME CountsTyped, [ProjectionNext]_projectionVars
    PROVE  CountsTyped'
  <1>1. texts' \in 0..MaxEdit
    BY Frame, ProjectionAssumption DEF StageEdit, CountsTyped
  <1>2. faults' \in 0..MaxFault
    BY Frame, ProjectionAssumption DEF Fault, CountsTyped
  <1>3. UNCHANGED crashes \/ (crashes < MaxCrash /\ crashes' = crashes + 1)
    BY Frame DEF ProcessDies
  <1>4. crashes' \in 0..MaxCrash
    BY <1>3, ProjectionAssumption DEF CountsTyped
  <1> QED
    BY <1>1, <1>2, <1>4 DEF CountsTyped

\* The holder's document and its place in the critical section.
LEMMA ProcessStep ==
    ASSUME ProjectionTypeOK, ProcessOK, work' \in Work, [ProjectionNext]_projectionVars
    PROVE  ProcessOK'
  <1> USE DEF ProcessOK, InHand
  <1>00. Sync \/ EditVerb \/ PurgeDocument => memory' \in Document
    BY NewDocument, TypeParts
  <1>0. work' = Idle => work'.op = "none"
    BY DEF Idle
  <1>1. ASSUME NEW l \in Lane, LaneSettles(l) PROVE ProcessOK'
    <2>1. work' = work /\ terminal' = terminal /\ memory' = memory /\ disk' = disk /\ passed' = passed
          /\ active' = active
      BY <1>1 DEF LaneSettles, document, process
    <2>2. desired \in Nat /\ desired' = desired + 1
      BY <1>1 DEF LaneSettles, ProjectionTypeOK
    <2> QED
      BY <2>1, <2>2, WorkKinds DEF ProjectWork
  <1>2. ASSUME NEW l \in Lane, StageEdit(l) \/ RestageEdit(l) \/ ReplayEdit(l) PROVE ProcessOK'
    BY <1>2 DEF StageEdit, RestageEdit, ReplayEdit, ledger, document
  <1>3. CASE CaptureEnds \/ PurgeBegins \/ ReplayEnds \/ RecoverSkips \/ UNCHANGED projectionVars
    BY <1>3 DEF CaptureEnds, PurgeBegins, ReplayEnds, RecoverSkips, ledger, document, process, projectionVars
  <1>4. CASE MarkProjecting
    BY <1>0, <1>4 DEF MarkProjecting, document
  <1>5. CASE Sync
    BY <1>5, <1>00, Documents, WorkKinds DEF Sync, ledger, ProjectionTypeOK
  <1>6. CASE SyncRefused \/ SyncUpToDate
    BY <1>0, <1>6 DEF SyncRefused, SyncUpToDate, ProjectionFailed, document
  <1>7. CASE WriteBegins \/ WriteEnds
    BY <1>7, PcMoves, WorkKinds DEF WriteBegins, WriteEnds, ledger
  <1>8. CASE SyncAcknowledge
    BY <1>0, <1>8, WorkKinds DEF SyncAcknowledge, document, ProjectWork
  <1>9. CASE SyncComplete \/ SyncFails
    BY <1>0, <1>9 DEF SyncComplete, SyncFails, ProjectionFailed, document
  <1>10. CASE EditVerb
    BY <1>10, <1>00, Documents, WorkKinds DEF EditVerb, ledger, EditWork
  <1>11. CASE EditVerbRefused \/ EditWriteFails \/ EditCommit \/ EditCommitFails
    BY <1>0, <1>11 DEF EditVerbRefused, EditWriteFails, EditCommit, EditCommitFails, ledger, document
  <1>12. CASE PurgeDocument
    BY <1>12, <1>00, Documents DEF PurgeDocument, ledger
  <1>13. CASE PurgeCleared \/ PurgeWriteFails
    BY <1>0, <1>13 DEF PurgeCleared, PurgeWriteFails, ledger, document
  <1>14. CASE ProcessDies
    BY <1>0, <1>14 DEF ProcessDies
  <1> QED
    BY <1>1, <1>2, <1>3, <1>4, <1>5, <1>6, <1>7, <1>8, <1>9, <1>10, <1>11, <1>12, <1>13, <1>14
       DEF ProjectionNext

\* How the guard changes hands, and what its holder may go on to do.
LEMMA Hands ==
    ASSUME [ProjectionNext]_projectionVars
    PROVE  \/ work' = Idle
           \/ UNCHANGED <<work, memory, staged, disk, override, applied, passed>>
           \/ Sync \/ WriteBegins \/ WriteEnds \/ EditVerb \/ PurgeDocument
           \/ SyncAcknowledge /\ work.complete /\ work' = [work EXCEPT !.pc = "complete"]
           \/ \E l \in Lane : StageEdit(l) \/ RestageEdit(l) \/ ReplayEdit(l)
  <1>1. ASSUME NEW l \in Lane, LaneSettles(l)
        PROVE  UNCHANGED <<work, memory, staged, disk, override, applied, passed>>
    BY <1>1 DEF LaneSettles, document, process
  <1>2. CASE CaptureEnds \/ PurgeBegins \/ MarkProjecting \/ SyncUpToDate \/ ReplayEnds \/ RecoverSkips
             \/ UNCHANGED projectionVars
    BY <1>2 DEF CaptureEnds, PurgeBegins, MarkProjecting, SyncUpToDate, ReplayEnds, RecoverSkips,
                ledger, document, process, projectionVars
  <1>3. CASE SyncRefused \/ SyncComplete \/ SyncFails
    BY <1>3 DEF SyncRefused, SyncComplete, SyncFails, ProjectionFailed
  <1>4. CASE EditVerbRefused \/ EditWriteFails \/ EditCommit \/ EditCommitFails \/ PurgeCleared
             \/ PurgeWriteFails \/ ProcessDies
    BY <1>4 DEF EditVerbRefused, EditWriteFails, EditCommit, EditCommitFails, PurgeCleared,
                PurgeWriteFails, ProcessDies
  <1>5. CASE SyncAcknowledge
    BY <1>5 DEF SyncAcknowledge
  <1> QED
    BY <1>1, <1>2, <1>3, <1>4, <1>5 DEF ProjectionNext

\* What is staged and what is committed: numbers of the user's texts only grow.
StagedOK ==
    /\ \A l \in Lane : Edited(l) => override[l].text \in { User(n) : n \in 1..texts }
    /\ \A l \in Lane : staged[l] # NoMutation =>
          /\ staged[l].text \in { User(n) : n \in 1..texts }
          /\ Edited(l) => staged[l].text[2] > override[l].text[2]

LEMMA StagedStep ==
    ASSUME ProjectionTypeOK, ProcessOK, CorrectionsOK, [ProjectionNext]_projectionVars
    PROVE  StagedOK'
  <1> USE DEF StagedOK, Edited
  <1>0. StagedOK
    BY DEF CorrectionsOK
  <1>t. /\ override \in [Lane -> [text : Text, edit : Nat]]
        /\ staged \in [Lane -> [text : Text, edit : Nat, revision : 0..MaxRevision]]
        /\ texts \in Nat
    BY ProjectionAssumption DEF ProjectionTypeOK
  <1>1. ASSUME NEW l \in Lane, StageEdit(l) PROVE StagedOK'
    <2>1. override' = override /\ texts' = texts + 1
          /\ staged' = [staged EXCEPT ![l] = [text |-> User(texts + 1), edit |-> override[l].edit,
                                              revision |-> machine[l].revision]]
      BY <1>1 DEF StageEdit
    <2>2. \A n \in 1..texts : User(n) \in { User(m) : m \in 1..texts' } /\ User(n)[2] = n
      BY <2>1, <1>t DEF User
    <2>3. User(texts + 1) \in { User(m) : m \in 1..texts' } /\ User(texts + 1)[2] = texts + 1
      BY <2>1, <1>t DEF User
    <2> QED
      BY <1>0, <1>t, <2>1, <2>2, <2>3
  <1>2. ASSUME NEW l, Cancelled(l), UNCHANGED <<override, texts>> PROVE StagedOK'
    BY <1>0, <1>t, <1>2 DEF Cancelled
  <1>3. CASE EditCommit
    <2>1. texts' = texts
      BY <1>3 DEF EditCommit, budget
    <2>2. CASE UNCHANGED <<override, staged>>
      BY <1>0, <2>1, <2>2
    <2>3. CASE override' = [override EXCEPT ![work.lane] = [text |-> staged[work.lane].text,
                                                            edit |-> @.edit + 1]]
               /\ Cancelled(work.lane)
      <3>1. work.lane \in Lane /\ staged[work.lane] # NoMutation
        BY <1>3, WorkKinds DEF EditCommit, ProcessOK, EditWork, CorrectionsOK
      <3> QED
        BY <1>0, <1>t, <2>1, <2>3, <3>1 DEF Cancelled
    <2> QED
      BY <1>3, <2>2, <2>3 DEF EditCommit
  <1>4. CASE EditVerbRefused \/ EditWriteFails
    BY <1>2, <1>4 DEF EditVerbRefused, EditWriteFails, Fault, budget
  <1>5. CASE UNCHANGED <<override, staged, texts>>
    BY <1>0, <1>5
  <1> QED
    BY <1>1, <1>3, <1>4, <1>5, Frame

LEMMA CorrectionsStep ==
    ASSUME ProjectionTypeOK, ProcessOK, CorrectionsOK, [ProjectionNext]_projectionVars
    PROVE  CorrectionsOK'
  <1> DEFINE Underway == /\ work.op = "edit" => staged[work.lane] # NoMutation
                         /\ work.op = "edit" /\ work.pc # "verb"
                              => memory[work.lane] = staged[work.lane].text
  <1>1. StagedOK'
    BY StagedStep
  <1>2. Underway
    BY DEF CorrectionsOK
  <1>3. ASSUME NEW l \in Lane, StageEdit(l) \/ RestageEdit(l) \/ ReplayEdit(l) PROVE Underway'
    <2>1. work' = [op |-> "edit", lane |-> l, pc |-> "verb", previous |-> Absent]
      BY <1>3 DEF StageEdit, RestageEdit, ReplayEdit
    <2>2. CASE StageEdit(l)
      <3>1. User(texts + 1) # Absent
        BY DEF User, Absent
      <3>2. staged'[l].text = User(texts + 1)
        BY <2>2 DEF StageEdit, ProjectionTypeOK
      <3> QED
        BY <2>1, <3>1, <3>2 DEF NoMutation
    <2>3. CASE RestageEdit(l) \/ ReplayEdit(l)
      BY <2>1, <2>3 DEF RestageEdit, ReplayEdit, ledger
    <2> QED
      BY <1>3, <2>2, <2>3
  <1>4. ASSUME EditVerb PROVE Underway'
    BY <1>2, <1>4, WorkKinds, NewDocument, TypeParts DEF EditVerb, ProcessOK, EditWork, ledger, Document
  <1>5. ASSUME WriteBegins \/ WriteEnds PROVE Underway'
    BY <1>2, <1>5, PcMoves DEF WriteBegins, WriteEnds, ProcessOK, ledger
  <1>6. ASSUME Sync \/ PurgeDocument PROVE Underway'
    <2>1. Sync => work'.op # "edit"
      BY DEF Sync
    <2>2. PurgeDocument => work'.op # "edit"
      BY DEF PurgeDocument
    <2> QED
      BY <1>6, <2>1, <2>2
  <1>7. ASSUME SyncAcknowledge /\ work' = [work EXCEPT !.pc = "complete"] PROVE Underway'
    <2>1. work'.op # "edit"
      BY <1>7, WorkKinds DEF SyncAcknowledge, ProcessOK, ProjectWork
    <2> QED
      BY <2>1
  <1>8. ASSUME work' = Idle PROVE Underway'
    BY <1>8 DEF Idle
  <1>9. ASSUME UNCHANGED <<work, memory, staged>> PROVE Underway'
    BY <1>2, <1>9
  <1>10. Underway'
    BY <1>3, <1>4, <1>5, <1>6, <1>7, <1>8, <1>9, Hands
  <1> QED
    BY <1>1, <1>10 DEF CorrectionsOK, StagedOK

-----------------------------------------------------------------------------
\* A lane that settles gets a watermark no acknowledged document speaks of.
LEMMA StillGood ==
    ASSUME ProjectionTypeOK, NEW doc, NEW l \in Lane, LaneSettles(l),
           NEW watermark \in 0..desired, Shows(doc, watermark)
    PROVE  Shows(doc, watermark)'
  <1>1. /\ machine' = [machine EXCEPT ![l] = [revision |-> @.revision + 1, watermark |-> desired + 1]]
        /\ desired \in Nat
        /\ machine \in [Lane -> [revision : 0..MaxRevision, watermark : Nat]]
    BY DEF LaneSettles, ProjectionTypeOK
  <1>2. machine'[l].watermark = desired + 1
    BY <1>1
  <1>3. \A k \in Lane : k # l => machine'[k] = machine[k]
    BY <1>1
  <1> QED
    BY <1>1, <1>2, <1>3 DEF Shows, IsFinal

\* What was acknowledged before is in a document that shows all of it since.
LEMMA ShowsLess ==
    ASSUME NEW doc, NEW m \in Nat, NEW n \in 0..m, ProjectionTypeOK, Shows(doc, m)
    PROVE  Shows(doc, n)
  <1> QED
    BY DEF Shows, ProjectionTypeOK

\* The document the projector writes shows every lane and every correction.
LEMMA UpsertsAreGood ==
    ASSUME ProjectionTypeOK, CorrectionsOK,
           NEW doc \in Document, Good(doc)
    PROVE  Shows(Upserted(doc), desired) /\ KeepsEdits(Upserted(doc))
  <1>1. ASSUME NEW l \in Lane, Edited(l)
        PROVE  /\ override[l].text[1] = "user" /\ override[l].text # Absent
               /\ override[l].text[2] \in Nat
    BY <1>1, Texts DEF CorrectionsOK, ProjectionTypeOK, User, Absent
  <1>2. ASSUME NEW l \in Lane, IsFinal(l)
        PROVE  /\ Machine(machine[l].revision) # Absent
               /\ Machine(machine[l].revision)[1] = "machine"
    BY <1>2 DEF Machine, Absent
  <1>3. ASSUME NEW l \in Lane, Edited(l) PROVE doc[l][1] = "user" /\ doc[l] # Absent
    BY <1>3, Texts DEF Good, KeepsEdits, Absent
  <1>4. \A l \in Lane : Upserted(doc)[l] = IF IsFinal(l) /\ ~(Edited(l) /\ l \notin SourceLane)
                                          THEN Visible(l) ELSE doc[l]
    BY DEF Upserted
  <1>5. ASSUME NEW l \in Lane, IsFinal(l)
        PROVE  /\ Upserted(doc)[l] # Absent
               /\ Upserted(doc)[l][1] = "machine" => Upserted(doc)[l] = Machine(machine[l].revision)
    BY <1>1, <1>2, <1>3, <1>4, <1>5 DEF Visible
  <1>6. ASSUME NEW l \in Lane, Edited(l)
        PROVE  Upserted(doc)[l][1] = "user" /\ Upserted(doc)[l][2] >= override[l].text[2]
    <2>1. CASE Upserted(doc)[l] = doc[l]
      BY <1>6, <2>1 DEF Good, KeepsEdits
    <2>2. CASE Upserted(doc)[l] = override[l].text
      BY <1>1, <1>6, <2>2
    <2>3. Visible(l) = override[l].text
      BY <1>6 DEF Visible
    <2> QED
      BY <1>4, <1>6, <2>1, <2>2, <2>3
  <1> QED
    BY <1>5, <1>6 DEF Shows, KeepsEdits

\* A correction in the place of what a good document shows of its lane.
LEMMA EditsAreGood ==
    ASSUME ProjectionTypeOK, CorrectionsOK,
           NEW doc \in Document, Good(doc), NEW l \in Lane, staged[l] # NoMutation
    PROVE  /\ Good([doc EXCEPT ![l] = staged[l].text])
           /\ [[doc EXCEPT ![l] = staged[l].text] EXCEPT ![l] = doc[l]] = doc
  <1>1. /\ staged[l].text[1] = "user" /\ staged[l].text # Absent
        /\ staged[l].text[2] \in Nat
    BY DEF CorrectionsOK, ProjectionTypeOK, User, Absent
  <1>2. Edited(l) => staged[l].text[2] > override[l].text[2] /\ override[l].text[2] \in Nat
    BY DEF CorrectionsOK, ProjectionTypeOK, User
  <1> DEFINE new == [doc EXCEPT ![l] = staged[l].text]
  <1>3. new[l] = staged[l].text /\ \A k \in Lane : k # l => new[k] = doc[k]
    BY DEF Document
  <1>4. Shows(new, applied)
    BY <1>1, <1>3 DEF Shows, Good
  <1>5. KeepsEdits(new)
    BY <1>1, <1>2, <1>3 DEF KeepsEdits, Good
  <1> QED
    BY <1>4, <1>5 DEF Good, Document

LEMMA OpenedIsGood ==
    ASSUME DocumentsOK, purge = "none", CanOpen
    PROVE  Good(Opened)
  BY DEF DocumentsOK, CanOpen, Opened

\* Every document in sight is good, whatever the guard's holder is at.
LEMMA DocumentsStep ==
    ASSUME ProjectionInv, ProjectionTypeOK', ProcessOK', [ProjectionNext]_projectionVars
    PROVE  DocumentsOK'
  <1> SUFFICES ASSUME purge' = "none" PROVE DocumentsOK'
    BY DEF DocumentsOK
  <1> USE DEF ProjectionInv
  <1>0. purge = "none"
    BY Frame DEF PurgeBegins, PurgeCleared, ProjectionTypeOK
  <1>00. /\ disk # Torn => Good(disk)
         /\ memory # Closed => Good(memory)
         /\ work.op = "project" => Shows(memory, work.wanted)
         /\ work.op = "edit" /\ work.pc # "verb"
              => Good([memory EXCEPT ![work.lane] = work.previous])
    BY <1>0 DEF DocumentsOK
  <1>1. ASSUME NEW l \in Lane, LaneSettles(l) PROVE DocumentsOK'
    <2>1. UNCHANGED <<disk, memory, work, applied, override>> /\ applied \in 0..desired
      BY <1>1 DEF LaneSettles, document, process, ProjectionTypeOK
    <2>2. ASSUME NEW doc, Good(doc) PROVE Good(doc)'
      BY <1>1, <2>1, <2>2, StillGood DEF Good, KeepsEdits, Edited
    <2>3. work.op = "project" => work.wanted \in 0..desired /\ work' = work
      BY <2>1, WorkKinds DEF ProcessOK, ProjectWork, ProjectionTypeOK
    <2>4. work.op = "project" => Shows(memory, work.wanted)'
      BY <1>00, <1>1, <2>1, <2>3, StillGood
    <2> QED
      BY <1>00, <2>1, <2>2, <2>4 DEF DocumentsOK

  <1>2. ASSUME UNCHANGED <<machine, applied, override>>
        PROVE  \A doc, watermark : /\ Good(doc) => Good(doc)'
                                   /\ Shows(doc, watermark) => Shows(doc, watermark)'
    BY <1>2 DEF Good, Shows, KeepsEdits, IsFinal, Edited
  <1>3. CASE Sync
    <2>1. UNCHANGED <<machine, applied, override, disk>> /\ memory' = Upserted(Opened) /\ CanOpen
          /\ work'.op = "project" /\ work'.wanted = desired
      BY <1>3 DEF Sync, ledger
    <2>2. Shows(memory', desired) /\ KeepsEdits(memory')
      BY <1>0, <2>1, OpenedIsGood, OpenedDocument, UpsertsAreGood
    <2>3. Good(memory')
      BY <2>2, ShowsLess DEF Good, ProjectionTypeOK
    <2> QED
      BY <1>00, <1>2, <2>1, <2>2, <2>3 DEF DocumentsOK
  <1>4. CASE WriteBegins \/ WriteEnds
    <2>1. /\ UNCHANGED <<machine, applied, override, memory>> /\ disk' \in {Torn, memory}
          /\ disk' = memory => memory # Closed
      BY <1>4, WorkKinds, Documents DEF WriteBegins, WriteEnds, ledger, ProcessOK, InHand, ProjectionTypeOK
    <2>2. /\ work'.op = work.op
          /\ work.op = "project" => work'.wanted = work.wanted
          /\ work.op = "edit" /\ work'.pc # "verb"
                => work.pc # "verb" /\ work'.lane = work.lane /\ work'.previous = work.previous
      BY <1>4, PcMoves DEF WriteBegins, WriteEnds, ProcessOK
    <2> QED
      BY <1>00, <1>2, <2>1, <2>2 DEF DocumentsOK
  <1>5. CASE SyncAcknowledge
    <2>1. /\ UNCHANGED <<machine, override, disk, memory>> /\ disk = memory /\ memory # Closed
          /\ work.op = "project" /\ applied' \in {applied, work.wanted}
          /\ work' = Idle \/ (work'.op = "project" /\ work'.wanted = work.wanted)
      BY <1>5, WorkKinds DEF SyncAcknowledge, Acknowledged, ProcessOK, InHand, document, ProjectWork
    <2>2. Shows(memory, applied')
      BY <1>00, <2>1 DEF Good
    <2>3. KeepsEdits(memory)
      BY <1>00, <2>1 DEF Good
    <2> QED
      BY <1>00, <2>1, <2>2, <2>3 DEF DocumentsOK, Good, Shows, KeepsEdits, IsFinal, Edited, Idle
  <1>6. CASE EditVerb
    <2> DEFINE l == work.lane
    <2>1. /\ UNCHANGED <<machine, applied, override, disk>> /\ CanOpen /\ l \in Lane
          /\ memory' = [Opened EXCEPT ![l] = staged[l].text]
          /\ work'.op = "edit" /\ work'.lane = l /\ work'.previous = Opened[l]
      BY <1>6, WorkKinds DEF EditVerb, ledger, ProcessOK, EditWork
    <2>2. staged[l] # NoMutation
      BY <1>6 DEF EditVerb, CorrectionsOK
    <2>3. Good(Opened) /\ Opened \in Document
      BY <1>0, <2>1, OpenedIsGood, OpenedDocument
    <2>4. Good(memory') /\ [memory' EXCEPT ![l] = Opened[l]] = Opened
      BY <2>1, <2>2, <2>3, EditsAreGood
    <2> QED
      BY <1>00, <1>2, <2>1, <2>3, <2>4 DEF DocumentsOK
  <1>7. CASE EditVerbRefused
    BY <1>0, <1>00, <1>2, <1>7, OpenedIsGood DEF EditVerbRefused, DocumentsOK, Idle
  <1>8. CASE EditWriteFails
    BY <1>00, <1>2, <1>8 DEF EditWriteFails, DocumentsOK, Idle
  <1>9. CASE EditCommit
    <2> DEFINE l == work.lane
    <2>1. /\ UNCHANGED <<machine, applied, disk, memory>> /\ work' = Idle
          /\ disk = memory /\ memory # Closed /\ l \in Lane
          /\ memory[l] = staged[l].text /\ staged[l] # NoMutation
          /\ override' \in {override, [override EXCEPT ![l] = [text |-> staged[l].text,
                                                               edit |-> override[l].edit + 1]]}
      BY <1>9, WorkKinds DEF EditCommit, document, ProcessOK, InHand, EditWork, CorrectionsOK
    <2>2. staged[l].text[1] = "user" /\ staged[l].text[2] \in Nat
      BY <2>1 DEF CorrectionsOK, ProjectionTypeOK, User
    <2>3. Good(memory)
      BY <1>00, <2>1
    <2>4. ASSUME NEW k \in Lane, Edited(k)'
          PROVE  memory[k][1] = "user" /\ memory[k][2] >= override'[k].text[2]
      BY <2>1, <2>2, <2>3, <2>4 DEF Good, KeepsEdits, Edited, ProjectionTypeOK
    <2>5. KeepsEdits(memory)' /\ Shows(memory, applied)'
      BY <2>1, <2>3, <2>4 DEF Good, KeepsEdits, Shows, IsFinal
    <2> QED
      BY <2>1, <2>5 DEF DocumentsOK, Good, Idle
  <1>10. CASE ProcessDies
    BY <1>00, <1>2, <1>10 DEF ProcessDies, DocumentsOK, Idle
  <1>11. ASSUME UNCHANGED <<machine, applied, override, disk, memory>>,
                work' = work \/ work' = Idle \/ (work'.op = "edit" /\ work'.pc = "verb")
         PROVE  DocumentsOK'
    <2>1. (disk' # Torn => Good(disk)') /\ (memory' # Closed => Good(memory)')
      BY <1>00, <1>2, <1>11
    <2>2. CASE work' = work
      BY <1>00, <1>2, <1>11, <2>1, <2>2 DEF DocumentsOK
    <2>3. CASE work' = Idle \/ (work'.op = "edit" /\ work'.pc = "verb")
      BY <2>1, <2>3 DEF DocumentsOK, Idle
    <2> QED
      BY <1>11, <2>2, <2>3
  <1>12. ASSUME NEW l \in Lane, StageEdit(l) \/ RestageEdit(l) \/ ReplayEdit(l)
         PROVE  work'.op = "edit" /\ work'.pc = "verb"
    BY <1>12 DEF StageEdit, RestageEdit, ReplayEdit
  <1>13. ~PurgeDocument
    BY <1>0 DEF PurgeDocument
  <1>14. CASE UNCHANGED <<machine, applied, override, disk, memory>>
    BY <1>3, <1>4, <1>5, <1>6, <1>11, <1>12, <1>13, <1>14, Hands
  <1> QED
    BY <1>1, <1>3, <1>4, <1>5, <1>6, <1>7, <1>8, <1>9, <1>10, <1>13, <1>14, Frame

\* A document that was cleared is touched by nobody.
LEMMA PurgeStep ==
    ASSUME ProjectionInv, ProcessOK', [ProjectionNext]_projectionVars
    PROVE  PurgeOK'
  <1> USE DEF ProjectionInv
  <1> DEFINE Held == work.op = "purge" => purge = "begun" /\ (~passed => memory = Cleared)
             Gone == purge = "cleared" /\ ~passed =>
                        /\ disk = Cleared /\ (memory = Closed \/ memory = disk)
                        /\ work = Idle \/ (work.op = "edit" /\ work.pc = "verb")
  <1>0. Held /\ Gone
    BY DEF PurgeOK
  <1>1. ASSUME UNCHANGED <<purge, passed, disk, memory, work>> PROVE PurgeOK'
    BY <1>0, <1>1 DEF PurgeOK
  <1>2. ASSUME UNCHANGED <<purge, passed>>, purge # "cleared", work'.op # "purge" PROVE PurgeOK'
    BY <1>2 DEF PurgeOK
  <1>3. ASSUME UNCHANGED <<purge, passed, disk, memory>>,
               work' = Idle \/ (work'.op = "edit" /\ work'.pc = "verb")
        PROVE  PurgeOK'
    BY <1>0, <1>3 DEF PurgeOK, Idle
  <1>4. ASSUME NEW l \in Lane, LaneSettles(l) PROVE PurgeOK'
    BY <1>1, <1>4 DEF LaneSettles, document, process
  <1>5. CASE CaptureEnds \/ MarkProjecting \/ SyncUpToDate \/ ReplayEnds \/ RecoverSkips \/ UNCHANGED projectionVars
    BY <1>1, <1>5 DEF CaptureEnds, MarkProjecting, SyncUpToDate, ReplayEnds, RecoverSkips,
                      ledger, document, process, projectionVars
  <1>6. CASE SyncRefused \/ SyncComplete \/ SyncFails
    <2>1. UNCHANGED <<purge, passed, disk, memory>> /\ (work' = Idle \/ work' = work)
      BY <1>6 DEF SyncRefused, SyncComplete, SyncFails, ProjectionFailed, document
    <2> QED
      BY <1>1, <1>3, <2>1
  <1>7. ASSUME NEW l \in Lane, StageEdit(l) \/ RestageEdit(l) \/ ReplayEdit(l) PROVE PurgeOK'
    BY <1>3, <1>7 DEF StageEdit, RestageEdit, ReplayEdit, ledger, document
  <1>8. CASE PurgeBegins
    BY <1>0, <1>8 DEF PurgeBegins, document, process, PurgeOK, Blocked
  <1>9. CASE Sync
    BY <1>2, <1>9 DEF Sync, ledger, Blocked
  <1>10. CASE WriteBegins \/ WriteEnds
    <2>1. UNCHANGED <<purge, passed, memory>> /\ work'.op = work.op /\ work # Idle /\ work.pc # "verb"
      BY <1>10, PcMoves DEF WriteBegins, WriteEnds, ledger, ProcessOK
    <2> QED
      BY <1>0, <2>1 DEF PurgeOK
  <1>11. CASE SyncAcknowledge
    <2>1. /\ UNCHANGED <<purge, passed, disk, memory>>
          /\ work' = Idle \/ (work'.op = "project" /\ (purge # "cleared" \/ passed))
      BY <1>0, <1>11, WorkKinds DEF SyncAcknowledge, document, ProcessOK, ProjectWork, Idle
    <2> QED
      BY <1>0, <1>3, <2>1 DEF PurgeOK
  <1>12. CASE EditVerb
    <2>1. /\ UNCHANGED <<purge, passed, disk>> /\ work'.op = "edit"
          /\ CanOpen /\ Opened[work.lane] # Absent /\ work.lane \in Lane
      BY <1>12, WorkKinds DEF EditVerb, ledger, ProcessOK, EditWork
    <2>2. purge = "cleared" => passed
      BY <1>0, <2>1 DEF Opened, Cleared
    <2> QED
      BY <2>1, <2>2 DEF PurgeOK
  <1>13. CASE EditVerbRefused
    BY <1>0, <1>13 DEF EditVerbRefused, Opened, PurgeOK, Idle
  <1>14. CASE EditWriteFails \/ EditCommit \/ EditCommitFails
    <2>1. /\ UNCHANGED <<purge, passed, disk>> /\ work' = Idle /\ work.op = "edit" /\ work.pc # "verb"
      BY <1>14 DEF EditWriteFails, EditCommit, EditCommitFails, ledger, document
    <2> QED
      BY <1>0, <2>1 DEF PurgeOK, Idle
  <1>15. CASE PurgeDocument
    BY <1>15 DEF PurgeDocument, ledger, PurgeOK, Cleared, ProcessOK
  <1>16. CASE PurgeCleared
    BY <1>0, <1>16, WorkKinds DEF PurgeCleared, document, PurgeOK, ProcessOK, InHand, Idle
  <1>17. CASE PurgeWriteFails
    BY <1>0, <1>17 DEF PurgeWriteFails, ledger, document, PurgeOK, Idle
  <1>18. CASE ProcessDies
    BY <1>0, <1>18 DEF ProcessDies, PurgeOK, Idle
  <1> QED
    BY <1>4, <1>5, <1>6, <1>7, <1>8, <1>9, <1>10, <1>11, <1>12, <1>13, <1>14, <1>15, <1>16, <1>17,
       <1>18 DEF ProjectionNext

-----------------------------------------------------------------------------
LEMMA ProjectionInitOK ==
    ASSUME ProjectionInit
    PROVE  ProjectionInv
  <1> USE ProjectionAssumption DEF ProjectionInit
  <1>1. Absent \in Text /\ NoMutation \in [text : Text, edit : Nat, revision : 0..MaxRevision]
    BY Texts DEF NoMutation
  <1>2. ProjectionTypeOK
    <2>1. LanesTyped /\ CorrectionsTyped
      BY <1>1 DEF LanesTyped, CorrectionsTyped
    <2>2. DocumentsTyped
      BY <1>1 DEF DocumentsTyped, Document
    <2>3. RunTyped
      BY DEF RunTyped
    <2>4. StartTyped
      BY DEF StartTyped
    <2>5. CountsTyped
      BY DEF CountsTyped
    <2> QED
      BY <2>1, <2>2, <2>3, <2>4, <2>5, TypeParts DEF Work
  <1>3. ProcessOK
    BY DEF ProcessOK, InHand, Work, Idle
  <1>4. CorrectionsOK
    BY DEF CorrectionsOK, Edited, Idle
  <1>5. DocumentsOK
    BY DEF DocumentsOK, Good, Shows, KeepsEdits, IsFinal, Edited, Idle
  <1>6. PurgeOK
    BY DEF PurgeOK, Idle
  <1> QED
    BY <1>2, <1>3, <1>4, <1>5, <1>6 DEF ProjectionInv

\* The inductive invariant, for every instance.
THEOREM ProjectionInvariant == ProjectionSpec => []ProjectionInv
  <1>1. ProjectionInit => ProjectionInv
    BY ProjectionInitOK
  <1>2. ProjectionInv /\ [ProjectionNext]_projectionVars => ProjectionInv'
    <2> SUFFICES ASSUME ProjectionInv, [ProjectionNext]_projectionVars PROVE ProjectionInv'
      OBVIOUS
    <2>1. ProjectionTypeOK /\ ProcessOK /\ CorrectionsOK
      BY DEF ProjectionInv
    <2>2. work' \in Work
      BY <2>1, WorkStep DEF ProcessOK
    <2>3. LanesTyped /\ CorrectionsTyped /\ DocumentsTyped /\ RunTyped /\ StartTyped /\ CountsTyped
      BY <2>1, TypeParts DEF ProcessOK
    <2>4. /\ LanesTyped' /\ CorrectionsTyped' /\ DocumentsTyped'
          /\ RunTyped' /\ StartTyped' /\ CountsTyped'
      BY <2>1, <2>3, LanesTypedStep, CorrectionsTypedStep, DocumentsTypedStep, RunTypedStep,
         StartTypedStep, CountsTypedStep
    <2>5. ProjectionTypeOK'
      <3>1. work'.op \in {"none", "project", "edit", "purge"}
        BY <2>2 DEF Work, Idle, ProjectWork, EditWork, PurgeWork
      <3> QED
        BY <2>4, <3>1 DEF ProjectionTypeOK, LanesTyped, CorrectionsTyped, DocumentsTyped, RunTyped,
                          StartTyped, CountsTyped
    <2>6. ProcessOK'
      BY <2>1, <2>2, ProcessStep
    <2>7. CorrectionsOK'
      BY <2>1, CorrectionsStep
    <2>8. DocumentsOK'
      BY <2>5, <2>6, DocumentsStep
    <2>9. PurgeOK'
      BY <2>6, PurgeStep
    <2> QED
      BY <2>5, <2>6, <2>7, <2>8, <2>9 DEF ProjectionInv
  <1> QED
    BY <1>1, <1>2, PTL DEF ProjectionSpec

\* A lane SQLite calls projected is in the file, with no older words of the
\* machine, though the collector moves lanes while a projection is written.
THEOREM WatermarkHolds == ProjectionSpec => []WatermarkIsSound
  <1>1. ProjectionInv => WatermarkIsSound
    BY DEF ProjectionInv, WatermarkIsSound, AckedLaneIsInDocument, DocumentsOK, Good, Shows, Editable,
           ProjectionTypeOK
  <1> QED
    BY <1>1, ProjectionInvariant, PTL

\* No projection, retry, failed correction or restart takes a committed
\* correction out of the file.
THEOREM CorrectionsHold == ProjectionSpec => []UserTextSurvives
  <1>1. ProjectionInv => UserTextSurvives
    BY DEF ProjectionInv, UserTextSurvives, DocumentsOK, Good, KeepsEdits
  <1> QED
    BY <1>1, ProjectionInvariant, PTL

\* What a purge cleared is written again by no projection or correction.
THEOREM PurgeHolds == ProjectionSpec => []PurgedStaysGone
  <1>1. ProjectionInv => PurgedStaysGone
    BY DEF ProjectionInv, PurgedStaysGone, PurgeOK, Cleared
  <1> QED
    BY <1>1, ProjectionInvariant, PTL

=============================================================================
