-------------------------- MODULE NotebookDocuments --------------------------
(***************************************************************************)
(* The transcript documents of several Notebooks: sections of recordings   *)
(* and the user's words in them, edited, projected, moved to another       *)
(* Notebook and deleted (vt-ffi/src/session_move.rs, editor_api.rs,        *)
(* notebook_api.rs, the document side of notebook_capture_api.rs, and      *)
(* vt-store/src/notebook_store.rs, editor_bridge.rs,                       *)
(* transcript_projection.rs).                                               *)
(*                                                                         *)
(* A Notebook has a realtime transcript made of blocks and flat documents, *)
(* of which the async transcript stands for all (a note's section is moved *)
(* and deleted by the same code).  A document is open in memory or only on *)
(* disk.  Every mutation but the block verbs holds one process-wide guard. *)
(* The application makes its calls from one thread; the flusher, the       *)
(* worker that projects async results and the collector are others.        *)
(*                                                                         *)
(* A session is the number of its recording; a word of the user's is a     *)
(* number.  The write of a file is one step: RealtimeProjection tears it.   *)
(***************************************************************************)
EXTENDS Naturals, Sequences, FiniteSets, SequencesExt, FiniteSetsExt

CONSTANTS
    Notebook, Nowhere,
    MaxSession,     \* recordings, numbered in the order they were made
    Transcribed,    \* those an async transcript is asked for
    MaxAct,         \* words the user adds and moves the user asks for, together
    MaxMishap       \* failures of a read or a write, and deaths of the process

Session == 1..MaxSession
Kind == {"realtime", "async"}

(* An item is a stretch of one owner: a session's with the words typed     *)
(* inside it, or the user's (session 0) with its one word.  Left marks what *)
(* a removal should have taken and did not.                                 *)
User == 0
Item(owner, words) == [own |-> owner, words |-> words, left |-> FALSE]
Empty == [items |-> <<>>, receipts |-> {}]
Closed == [Empty EXCEPT !.items = <<Item(User, {})>>]
Free == [op |-> "none", s |-> 0]
Order == <<"realtime", "async">>            \* BuiltinNotebookTab::bootstrap_order

VARIABLES
    status,     \* of each session: none, recording, ended, purging, cleared, purged
    link,       \* the Notebook of its link, its run and its rows
    async,      \* its async transcript: none, asked, placing, written, completed
    aim,        \* the Notebook the worker that places it has read
    disk, memory, \* each Notebook's documents, by kind
    owners,     \* refcount of each open flat document
    shown,      \* the flat documents the user interface has open
    pending,    \* Notebooks whose flat document waits for the flusher
    ui,         \* the call the user interface is in
    work,       \* what the holder of the mutation guard is doing
    words, moves, mishaps

catalog == <<status, link, async>>
documents == <<disk, memory>>
bridge == <<owners, shown, pending>>
budget == <<words, moves, mishaps>>
notebookVars == <<catalog, documents, bridge, aim, ui, work, budget>>

DocumentsTypeOK ==
    /\ status \in [Session -> {"none", "recording", "ended", "purging", "cleared", "purged"}]
    /\ link \in [Session -> Notebook \cup {Nowhere}]
    /\ \A s \in Session : (link[s] = Nowhere) <=> (status[s] \in {"none", "purged"})
    /\ async \in [Session -> {"none", "asked", "placing", "written", "completed"}]
    /\ \A n \in Notebook : /\ owners[n] = 0 <=> memory[n]["async"] = Closed
                           /\ owners[n] \in 0..2
                           /\ disk[n]["realtime"] # Closed /\ disk[n]["async"] # Closed
    /\ shown \subseteq Notebook /\ pending \subseteq Notebook
    /\ words + moves \in 0..MaxAct /\ mishaps \in 0..MaxMishap

-----------------------------------------------------------------------------
(* Sections.                                                               *)

Places(items, s) == { i \in DOMAIN items : items[i].own = s }

(* session_slice_range: a block section runs to the next captured block,   *)
(* the annotations in and after it included.  legacy_session_section_range: *)
(* a flat one is what carries the session's mark.                           *)
Section(items, kind, s) ==
    IF kind = "async" \/ Places(items, s) = {} THEN Places(items, s)
    ELSE LET first == Min(Places(items, s)) IN
         { i \in first..Len(items) : \A j \in first..i : items[j].own \in {s, User} }

Cut(items, places) == [i \in 1..Cardinality(places) |-> items[Min(places) + i - 1]]

Without(items, places) ==
    IF places = {} THEN items
    ELSE SubSeq(items, 1, Min(places) - 1) \o SubSeq(items, Max(places) + 1, Len(items))

(* Where an arriving section goes: first_later_capture_block, the first    *)
(* block of a session recorded later; flat_anchor_position, the earliest   *)
(* recorded of them that has text.                                          *)
Anchor(items, kind, later) ==
    LET found == { t \in later : Places(items, t) # {} }
    IN CASE found = {} -> Len(items) + 1
         [] found # {} /\ kind = "realtime" -> Min(UNION { Places(items, t) : t \in found })
         [] OTHER -> Min(Places(items, Min(found)))

Spliced(items, at, arrived) == SubSeq(items, 1, at - 1) \o arrived \o SubSeq(items, at, Len(items))

(* splice_session_slice: a block that is already there is passed over.      *)
Missing(items, slice) ==
    SelectSeq(slice, LAMBDA b : \A i \in DOMAIN items :
        ~(items[i].own = b.own /\ (b.own # User \/ items[i].words = b.words)))

(* copy_flat_section copies nothing where the section already is,          *)
(* splice_session_slice only the blocks that are not there.                 *)
Arrived(items, kind, slice, s, later) ==
    IF kind = "async" /\ Places(items, s) # {} THEN items
    ELSE Spliced(items, Anchor(items, kind, later), Missing(items, slice))

-----------------------------------------------------------------------------
(* Documents.                                                              *)

(* Mirror::set_state of a document of blocks.  The scan that turns the      *)
(* difference into changes passes over what is left of the old state once   *)
(* the new one is at its end (KeyedList, in Mirror), so nothing removed     *)
(* behind the last survivor leaves the document.  The state is taken to be *)
(* read again before its next change, as a projection and a view do first.   *)
Mirrored(old, new) ==
    LET last == Max({0} \cup { i \in DOMAIN old : \E j \in DOMAIN new : new[j] = old[i] })
    IN new \o [i \in 1..(Len(old) - last) |-> [old[last + i] EXCEPT !.left = (old[last + i].own # User)]]

Rewritten(doc, k, new) ==
    [doc EXCEPT !.items = IF k = "realtime" THEN Mirrored(@, new) ELSE new]

(* open_editor_session_strict, open_transcript_block_document: the open    *)
(* document, or the file's when it is not open.                             *)
Opened(n, k) == IF memory[n][k] = Closed THEN disk[n][k] ELSE memory[n][k]

Held(n, k) == IF k = "async" /\ owners[n] = 0 THEN [owners EXCEPT ![n] = 1] ELSE owners

(* The open document changed and written out.                               *)
Store(n, k, doc) ==
    /\ memory' = [memory EXCEPT ![n][k] = doc] /\ disk' = [disk EXCEPT ![n][k] = doc]
    /\ owners' = Held(n, k)

(* The open document changed and its write refused.                         *)
StoreFails(n, k, doc) ==
    /\ memory' = [memory EXCEPT ![n][k] = doc] /\ disk' = disk
    /\ owners' = Held(n, k)

Fault == mishaps < MaxMishap /\ mishaps' = mishaps + 1 /\ UNCHANGED <<words, moves>>

Sound == UNCHANGED budget

Guarded == work = Free
Idle == ui = Free

-----------------------------------------------------------------------------
(* Recording: attach_session_with_builtin_projections, then the lanes that *)
(* become final are projected at the end of the Notebook's realtime        *)
(* transcript, and the capture ends.                                        *)

Record(s, n) ==
    /\ status[s] = "none" /\ \A t \in 1..(s - 1) : status[t] \notin {"none", "recording"}
    /\ status' = [status EXCEPT ![s] = "recording"] /\ link' = [link EXCEPT ![s] = n]
    /\ UNCHANGED <<async, documents, bridge, aim, ui, work, budget>>

ProjectLanes(s) ==
    /\ status[s] = "recording" /\ Guarded
    /\ LET n == link[s]  doc == Opened(n, "realtime") IN
       /\ Places(doc.items, s) = {}
       /\ Store(n, "realtime", [doc EXCEPT !.items = Append(@, Item(s, {}))])
    /\ UNCHANGED <<catalog, shown, pending, aim, ui, work, budget>>

EndCapture(s) ==
    /\ status[s] = "recording" /\ Places(Opened(link[s], "realtime").items, s) # {}
    /\ status' = [status EXCEPT ![s] = "ended"]
    /\ UNCHANGED <<link, async, documents, bridge, aim, ui, work, budget>>

(* request_post_recording_transcription.                                    *)
AskAsync(s) ==
    /\ s \in Transcribed /\ status[s] = "ended" /\ async[s] = "none" /\ Idle
    /\ async' = [async EXCEPT ![s] = "asked"]
    /\ UNCHANGED <<status, link, documents, bridge, aim, ui, work, budget>>

(* project_persisted_async_transcript reads the session's Notebook before  *)
(* it waits for the guard.                                                  *)
AimAsync(s) ==
    /\ async[s] = "asked" /\ status[s] = "ended" /\ aim[s] = Nowhere
    /\ aim' = [aim EXCEPT ![s] = link[s]] /\ async' = [async EXCEPT ![s] = "placing"]
    /\ UNCHANGED <<status, link, documents, bridge, ui, work, budget>>

(* render_transcript_section: the machine's text under its heading, and    *)
(* nothing of the user's.                                                   *)
Rendered(s) == Item(s, {})

(* sync_session_transcript_into_tab: the section there is replaced where it *)
(* stands, a new one goes to the end; attach_session refuses a session that *)
(* has moved; a failed write puts the document back.                        *)
PlaceAsync(s) ==
    /\ aim[s] # Nowhere /\ Guarded /\ status[s] = "ended"
    /\ LET n == aim[s]
           doc == Opened(n, "async")
           at == IF Places(doc.items, s) = {} THEN Len(doc.items) + 1 ELSE Min(Places(doc.items, s))
           placed == Spliced(Without(doc.items, Places(doc.items, s)), at, <<Rendered(s)>>)
       IN \/ /\ link[s] = n /\ Store(n, "async", [doc EXCEPT !.items = placed]) /\ Sound
             /\ async' = [async EXCEPT ![s] = "written"]
          \/ /\ link[s] = n /\ StoreFails(n, "async", doc) /\ Fault
             /\ async' = [async EXCEPT ![s] = "asked"]
          \/ /\ link[s] # n /\ async' = [async EXCEPT ![s] = "asked"]
             /\ UNCHANGED <<documents, owners>> /\ Sound
    /\ aim' = [aim EXCEPT ![s] = Nowhere]
    /\ UNCHANGED <<status, link, shown, pending, ui, work>>

CompleteAsync(s) ==
    /\ async[s] = "written" /\ status[s] = "ended" /\ async' = [async EXCEPT ![s] = "completed"]
    /\ UNCHANGED <<status, link, documents, bridge, aim, ui, work, budget>>

-----------------------------------------------------------------------------
(* The editor of a flat document.                                           *)

(* open_editor, EditorBridge::open: an open document is kept.                *)
OpenEditor(n) ==
    /\ Idle /\ shown = {}
    /\ memory' = [memory EXCEPT ![n]["async"] = Opened(n, "async")]
    /\ owners' = [owners EXCEPT ![n] = @ + 1] /\ shown' = shown \cup {n}
    /\ UNCHANGED <<catalog, disk, pending, aim, ui, work, budget>>

(* product_editor_is_writable, before the guard is asked for.                *)
Writable(n) ==
    LET asked == { s \in Session : link[s] = n /\ async[s] # "none" }
    IN asked # {} /\ \A s \in asked : async[s] = "completed"

CheckEdit(n) ==
    /\ Idle /\ n \in shown /\ words + moves < MaxAct /\ Writable(n)
    /\ ui' = [op |-> "edit", s |-> n]
    /\ UNCHANGED <<catalog, documents, bridge, aim, work, budget>>

Typed(items, w) ==
    { [items EXCEPT ![i].words = @ \cup {w}] : i \in { j \in DOMAIN items : items[j].own # User } }
    \cup { Append(items, Item(User, {w})), <<Item(User, {w})>> \o items }

(* apply_edit: the document changes in memory and waits for the flusher.    *)
ApplyEdit ==
    /\ ui.op = "edit" /\ Guarded
    /\ LET n == ui.s IN
       /\ \E items \in Typed(memory[n]["async"].items, words + 1) :
             memory' = [memory EXCEPT ![n]["async"].items = items]
       /\ pending' = pending \cup {n}
    /\ ui' = Free /\ words' = words + 1
    /\ UNCHANGED <<catalog, disk, owners, shown, aim, work, moves, mishaps>>

(* flush_snapshot_to_disk of one document: a failure is only logged.         *)
Flushed(n) ==
    \/ /\ disk' = [disk EXCEPT ![n]["async"] = Opened(n, "async")] /\ Sound
    \/ disk' = disk /\ Fault

(* One document of the flusher's tick, of flush_all_editors_sync.            *)
Flush(n) ==
    /\ n \in pending /\ Guarded /\ memory[n]["async"] # Closed
    /\ Flushed(n) /\ pending' = pending \ {n}
    /\ UNCHANGED <<catalog, memory, owners, shown, aim, ui, work>>

(* close_editor writes the document out whatever the outcome, and the last *)
(* owner takes it out of memory.                                            *)
CloseEditor(n) ==
    /\ Idle /\ n \in shown /\ Guarded
    /\ Flushed(n) /\ pending' = pending \ {n}
    /\ owners' = [owners EXCEPT ![n] = @ - 1] /\ shown' = shown \ {n}
    /\ memory' = IF owners[n] = 1 THEN [memory EXCEPT ![n]["async"] = Closed] ELSE memory
    /\ UNCHANGED <<catalog, aim, ui, work>>

(* transcript_insert_annotation, under no guard: among the blocks.           *)
Annotate(n) ==
    /\ Idle /\ words + moves < MaxAct /\ words' = words + 1 /\ memory[n]["realtime"] # Closed
    /\ LET doc == memory[n]["realtime"] IN
       \E i \in 1..(Len(doc.items) + 1) :
          LET changed == [doc EXCEPT !.items = Spliced(@, i, <<Item(User, {words + 1})>>)] IN
          \/ Store(n, "realtime", changed) /\ mishaps' = mishaps
          \/ StoreFails(n, "realtime", changed) /\ mishaps < MaxMishap /\ mishaps' = mishaps + 1
    /\ UNCHANGED <<catalog, shown, pending, aim, ui, work, moves>>

-----------------------------------------------------------------------------
(* move_session_to_notebook: plan, copy every section, commit, clear.       *)

LaterThan(s, n) == { t \in Session : link[t] = n /\ t > s }

(* build_session_move_plan.                                                 *)
Movable(s, n) == status[s] = "ended" /\ link[s] # n

PlanMove(s, n) ==
    /\ Idle /\ Movable(s, n) /\ words + moves < MaxAct /\ moves' = moves + 1
    /\ ui' = [op |-> "move", s |-> s, to |-> n, from |-> link[s], later |-> LaterThan(s, n),
               over |-> \E k \in Kind : Places(Opened(n, k).items, s) # {}]
    /\ UNCHANGED <<catalog, documents, bridge, aim, work, words, mishaps>>

TakeGuard ==
    /\ ui.op = "move" /\ Guarded /\ work.op # "move"
    /\ work' = [op |-> "copy", s |-> ui.s, todo |-> Order]
    /\ UNCHANGED <<catalog, documents, bridge, aim, ui, budget>>

(* The move is over: the guard is given up and the call returns.             *)
Rest(op, s, todo) ==
    IF todo = <<>> THEN work' = Free /\ ui' = Free
    ELSE work' = [op |-> op, s |-> s, todo |-> todo] /\ ui' = ui

(* copy_section_into_target; a failure sends the move to its rollback.       *)
CopySection ==
    /\ work.op = "copy" /\ work.todo # <<>>
    /\ LET s == work.s  k == Head(work.todo)
           from == Opened(ui.from, k)  to == Opened(ui.to, k)
           slice == Cut(from.items, Section(from.items, k, s))
           copied == Rewritten(to, k, Arrived(to.items, k, slice, s, ui.later))
       IN \/ /\ slice = <<>> \/ copied = to
             /\ work' = [work EXCEPT !.todo = Tail(@)]
             /\ UNCHANGED <<documents, owners>> /\ Sound
          \/ /\ slice # <<>> /\ copied # to /\ Store(ui.to, k, copied) /\ Sound
             /\ work' = [work EXCEPT !.todo = Tail(@)]
          \/ /\ slice # <<>> /\ copied # to /\ StoreFails(ui.to, k, copied) /\ Fault
             /\ work' = [op |-> "undo", s |-> s, todo |-> Order]
    /\ UNCHANGED <<catalog, shown, pending, aim, ui>>

(* Mutant: the plan is not derived again under the write lock.               *)
CommitBlindly ==
    /\ work.op = "copy" /\ work.todo = <<>>
    /\ link' = [link EXCEPT ![work.s] = ui.to]
    /\ work' = [op |-> "clear", s |-> work.s, todo |-> Order]
    /\ UNCHANGED <<status, async, documents, bridge, aim, ui, budget>>

(* commit_session_move: the plan is derived again and must be the same.      *)
CommitMove ==
    /\ work.op = "copy" /\ work.todo = <<>>
    /\ IF Movable(work.s, ui.to) /\ link[work.s] = ui.from /\ LaterThan(work.s, ui.to) = ui.later
       THEN /\ link' = [link EXCEPT ![work.s] = ui.to]
            /\ work' = [op |-> "clear", s |-> work.s, todo |-> Order]
       ELSE /\ link' = link
            /\ work' = [op |-> "undo", s |-> work.s, todo |-> Order]
    /\ UNCHANGED <<status, async, documents, bridge, aim, ui, budget>>

(* The statement itself fails.                                              *)
CommitFails ==
    /\ work.op = "copy" /\ work.todo = <<>> /\ Fault
    /\ work' = [op |-> "undo", s |-> work.s, todo |-> Order]
    /\ UNCHANGED <<catalog, documents, bridge, aim, ui>>

(* Mutant: the rollback takes the section out of the Notebook it came from. *)
UndoSource ==
    /\ work.op = "undo"
    /\ LET k == Head(work.todo)  doc == Opened(ui.from, k)
           left == Rewritten(doc, k, Without(doc.items, Section(doc.items, k, work.s)))
       IN Store(ui.from, k, left) /\ Sound
    /\ Rest("undo", work.s, Tail(work.todo))
    /\ UNCHANGED <<catalog, shown, pending, aim>>

(* roll_back_copied_sections: best effort, one document after the other.    *)
UndoSection ==
    /\ work.op = "undo"
    /\ LET k == Head(work.todo)  doc == Opened(ui.to, k)
           left == Rewritten(doc, k, Without(doc.items, Section(doc.items, k, work.s)))
       IN \/ left = doc /\ UNCHANGED <<documents, owners>> /\ Sound
          \/ left # doc /\ Store(ui.to, k, left) /\ Sound
          \/ left # doc /\ StoreFails(ui.to, k, left) /\ Fault
    /\ Rest("undo", work.s, Tail(work.todo))
    /\ UNCHANGED <<catalog, shown, pending, aim>>

(* clear_section_from_source; a failure ends the move with an error, and    *)
(* no later move of this session finds this Notebook again.                 *)
ClearSection ==
    /\ work.op = "clear"
    /\ LET k == Head(work.todo)  doc == Opened(ui.from, k)
           left == Rewritten(doc, k, Without(doc.items, Section(doc.items, k, work.s)))
       IN \/ left = doc /\ UNCHANGED <<documents, owners>> /\ Sound
             /\ Rest("clear", work.s, Tail(work.todo))
          \/ left # doc /\ Store(ui.from, k, left) /\ Sound
             /\ Rest("clear", work.s, Tail(work.todo))
          \/ left # doc /\ StoreFails(ui.from, k, left) /\ Fault
             /\ Rest("clear", work.s, <<>>)
    /\ UNCHANGED <<catalog, shown, pending, aim>>

-----------------------------------------------------------------------------
(* Delete Forever, the phase that clears documents.                         *)

(* The durable job; it may be written while a move is between its plan and *)
(* its commit.  Its worker has been joined.                                 *)
BeginPurge(s) ==
    /\ status[s] = "ended" /\ status' = [status EXCEPT ![s] = "purging"]
    /\ async' = [async EXCEPT ![s] = "none"] /\ aim' = [aim EXCEPT ![s] = Nowhere]
    /\ UNCHANGED <<link, documents, bridge, ui, work, budget>>

ResumePurge(s) ==
    /\ status[s] = "purging" /\ Guarded /\ work' = [op |-> "purge", s |-> s, todo |-> Order]
    /\ UNCHANGED <<catalog, documents, bridge, aim, ui, budget>>

(* Mutant: a purge takes the section, as a move does.                        *)
PurgedSection(doc, k, s) ==
    [Rewritten(doc, k, Without(doc.items, Section(doc.items, k, s))) EXCEPT !.receipts = @ \cup {s}]

(* What a purge leaves of a document: of blocks the session's own, not the *)
(* annotations; of flat text its marked range.  A document that has the    *)
(* receipt is only written out.                                             *)
Purged(doc, k, s) ==
    IF s \in doc.receipts THEN doc
    ELSE [Rewritten(doc, k, SelectSeq(doc.items, LAMBDA b : b.own # s))
             EXCEPT !.receipts = @ \cup {s}]

(* purge_loro_session_ranges refuses a flat document that has text but none *)
(* of this session's, and no receipt.                                       *)
Clearable(doc, k, s) ==
    \/ k = "realtime" \/ s \in doc.receipts
    \/ Places(doc.items, s) # {} \/ doc.items = <<>>

(* Mutant: a document that holds a receipt is not written out.               *)
PurgeUnwritten ==
    /\ work.op = "purge" /\ work.todo # <<>>
    /\ LET s == work.s  k == Head(work.todo)  doc == Opened(link[s], k) IN
       /\ memory' = [memory EXCEPT ![link[s]][k] = Purged(doc, k, s)]
       /\ owners' = Held(link[s], k) /\ UNCHANGED disk /\ Sound
    /\ work' = [work EXCEPT !.todo = Tail(@)]
    /\ UNCHANGED <<catalog, shown, pending, aim, ui>>

PurgeSection ==
    /\ work.op = "purge" /\ work.todo # <<>>
    /\ LET s == work.s  k == Head(work.todo)  n == link[s]  doc == Opened(n, k) IN
       \/ /\ Clearable(doc, k, s) /\ Store(n, k, Purged(doc, k, s)) /\ Sound
          /\ work' = [work EXCEPT !.todo = Tail(@)]
       \/ /\ Clearable(doc, k, s) /\ Fault
          /\ StoreFails(n, k, IF k = "realtime" THEN Purged(doc, k, s) ELSE doc) /\ work' = Free
       \/ /\ ~Clearable(doc, k, s) /\ work' = Free
          /\ memory' = [memory EXCEPT ![n][k] = doc] /\ owners' = Held(n, k)
          /\ UNCHANGED disk /\ Sound
    /\ UNCHANGED <<catalog, shown, pending, aim, ui>>

PurgePhaseEnds ==
    /\ work.op = "purge" /\ work.todo = <<>>
    /\ status' = [status EXCEPT ![work.s] = "cleared"] /\ work' = Free
    /\ UNCHANGED <<link, async, documents, bridge, aim, ui, budget>>

(* The later phases: audio and keys, the receipts, the rows.                 *)
FinishPurge(s) ==
    /\ status[s] = "cleared" /\ Guarded
    /\ LET n == link[s]
           clean == [k \in Kind |-> [Opened(n, k) EXCEPT !.receipts = @ \ {s}]]
       IN /\ memory' = [memory EXCEPT ![n] = clean] /\ disk' = [disk EXCEPT ![n] = clean]
          /\ owners' = Held(n, "async") /\ pending' = pending \ {n}
    /\ status' = [status EXCEPT ![s] = "purged"] /\ link' = [link EXCEPT ![s] = Nowhere]
    /\ UNCHANGED <<async, shown, aim, ui, work, budget>>

Die ==
    /\ mishaps < MaxMishap /\ mishaps' = mishaps + 1
    /\ memory' = [n \in Notebook |-> [k \in Kind |-> Closed]]
    /\ owners' = [n \in Notebook |-> 0] /\ shown' = {} /\ pending' = {}
    /\ ui' = Free /\ work' = Free /\ aim' = [s \in Session |-> Nowhere]
    /\ status' = [s \in Session |-> IF status[s] = "recording" THEN "ended" ELSE status[s]]
    /\ async' = [s \in Session |-> IF async[s] \in {"placing", "written"} THEN "asked" ELSE async[s]]
    /\ UNCHANGED <<link, disk, words, moves>>

-----------------------------------------------------------------------------
DocumentsInit ==
    /\ status = [s \in Session |-> "none"] /\ link = [s \in Session |-> Nowhere]
    /\ async = [s \in Session |-> "none"] /\ aim = [s \in Session |-> Nowhere]
    /\ disk = [n \in Notebook |-> [k \in Kind |-> Empty]]
    /\ memory = [n \in Notebook |-> [k \in Kind |-> Closed]]
    /\ owners = [n \in Notebook |-> 0] /\ shown = {} /\ pending = {}
    /\ ui = Free /\ work = Free
    /\ words = 0 /\ moves = 0 /\ mishaps = 0

MoveNext == \/ TakeGuard \/ CopySection \/ CommitMove \/ CommitFails \/ UndoSection \/ ClearSection
            \/ \E s \in Session, n \in Notebook : PlanMove(s, n)

PurgeNext == \/ PurgeSection \/ PurgePhaseEnds
             \/ \E s \in Session : BeginPurge(s) \/ ResumePurge(s) \/ FinishPurge(s)

DocumentsNext ==
    \/ \E s \in Session, n \in Notebook : Record(s, n)
    \/ \E s \in Session : \/ ProjectLanes(s) \/ EndCapture(s)
                          \/ AskAsync(s) \/ AimAsync(s) \/ PlaceAsync(s) \/ CompleteAsync(s)
    \/ \E n \in Notebook : \/ OpenEditor(n) \/ CheckEdit(n) \/ Flush(n) \/ CloseEditor(n)
                            \/ Annotate(n)
    \/ ApplyEdit
    \/ MoveNext \/ PurgeNext \/ Die

DocumentsSpec == DocumentsInit /\ [][DocumentsNext]_notebookVars

(* The holder of the guard goes on, and a job is resumed.                    *)
DocumentsFairness ==
    /\ WF_notebookVars(PurgeSection \/ PurgePhaseEnds)
    /\ WF_notebookVars(CopySection \/ CommitMove \/ UndoSection \/ ClearSection)
    /\ \A s \in Session : SF_notebookVars(ResumePurge(s)) /\ WF_notebookVars(FinishPurge(s))

FairDocumentsSpec == DocumentsSpec /\ DocumentsFairness

-----------------------------------------------------------------------------
(* Properties.                                                             *)

OnDisk(n, k, s) == Places(disk[n][k].items, s) # {}

UserWords(items) == UNION { items[i].words : i \in DOMAIN items }
Durable(files) == UNION { UserWords(files[n][k].items) : n \in Notebook, k \in Kind }

(* A section that is on disk in the Notebook the catalogue names is on disk *)
(* in the Notebook it names after the next step, whatever fails and        *)
(* whenever the process dies: a move writes the target before it turns the *)
(* pointers and clears the source after (session_move.rs:13-20).            *)
SectionStays ==
    [][<<disk, link>>' # <<disk, link>> =>
         \A s \in Session, k \in Kind :
            status'[s] = "ended" /\ status[s] = "ended" /\ OnDisk(link[s], k, s)
              => OnDisk(link[s], k, s)']_<<disk, link>>

(* A durable word of the user's, inside a section or beside it, is never   *)
(* lost to a move, a flush or the deletion of another session; only the     *)
(* deletion of its own session, or a new projection of it, takes it.  A    *)
(* move onto a copy that an earlier, interrupted move left behind is       *)
(* excepted: see MovesLoseNothing.                                          *)
Deleted(s) == status[s] \in {"purging", "cleared", "purged"}

Current == [n \in Notebook |-> [k \in Kind |-> Opened(n, k)]]

WordsLost ==
    { w \in (Durable(disk) \ Durable(disk)') \cap Durable(Current) : w \notin Durable(memory)' /\
        ~\E n \in Notebook : \E i \in DOMAIN disk[n]["async"].items :
             LET item == disk[n]["async"].items[i] IN
             item.own # User /\ (Deleted(item.own) \/ async[item.own] = "placing") /\ w \in item.words }

WordsStay ==
    [][disk' # disk /\ ~(ui.op = "move" /\ ui.over) => WordsLost = {}]_disk

(* session_move.rs:16-20: "a crash between phases can duplicate a section, *)
(* never lose one, and both the copy and the clear are idempotent so a     *)
(* replay converges".                                                       *)
MovesLoseNothing == [][(\A s \in Session : ~Deleted(s)) => WordsLost = {}]_disk

(* Once Delete Forever has finished, nothing of the session is left in the *)
(* documents of its Notebook, in memory or on disk, but what a removal      *)
(* before it passed over, and no flush, move or late projection brings any  *)
(* back.                                                                    *)
Holding(items, s) == { i \in Places(items, s) : ~items[i].left } # {}
Holds(n, k, s) == Holding(Opened(n, k).items, s) \/ Holding(disk[n][k].items, s)

DeletedStaysGone ==
    [][\A s \in Session : "purged" \in {status[s], status'[s]} =>
        \A n \in Notebook, k \in Kind :
          /\ status[s] # "purged" /\ status'[s] = "purged" /\ link[s] = n => ~Holds(n, k, s)'
          /\ status[s] = "purged" /\ ~Holds(n, k, s) => ~Holds(n, k, s)']_<<status, documents>>

(* transcript_projection.rs:242-252: the entry for Delete Forever "deletes  *)
(* every block that belongs to the session's capture".                      *)
PurgeTakesEveryBlock ==
    \A s \in Session, n \in Notebook :
        s \in disk[n]["realtime"].receipts => Places(disk[n]["realtime"].items, s) = {}

(* A Notebook's realtime transcript reads in the order its meetings were   *)
(* recorded, whichever of them are moved in and out (session_move.rs:10-14) *)
(* and whatever is recorded meanwhile; a copy left behind is excepted again. *)
InOrder(n) ==
    LET items == disk[n]["realtime"].items
        Home(i) == items[i].own # User /\ ~items[i].left /\ link[items[i].own] = n
    IN \A i, j \in DOMAIN items :
            i < j /\ Home(i) /\ Home(j) => items[i].own <= items[j].own

MovesKeepOrder ==
    [][<<disk, link>>' # <<disk, link>> /\ ~(ui.op = "move" /\ ui.over) =>
         \A n \in Notebook : InOrder(n) => InOrder(n)']_<<disk, link>>

(* What a move promises: the section is where the catalogue says, and in    *)
(* its place (session_move.rs:10-20).                                       *)
MovesAreFaithful == SectionStays /\ MovesKeepOrder

(* Delete Forever, once begun, gets through the documents.                  *)
PurgeEnds == \A s \in Session : status[s] = "purging" ~> status[s] \in {"cleared", "purged"}
=============================================================================
