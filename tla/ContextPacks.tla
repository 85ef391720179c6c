---------------------------- MODULE ContextPacks ----------------------------
(***************************************************************************)
(* Context packs (vt-store/src/context_pack_store.rs): the private pack of *)
(* a notebook and the library packs bound to it, each encrypted under a    *)
(* key of its own, compiled under a budget into the context the user       *)
(* previews, confirms and sends with a recording, and frozen for that      *)
(* recording.  The store has one connection behind a mutex and a key store *)
(* behind a lock of its own; a call is the sequence of their critical      *)
(* sections, and calls of several callers interleave between them.         *)
(* Packs, sources and bindings are those one notebook sees.                *)
(***************************************************************************)
EXTENDS Integers, FiniteSets, Sequences, SequencesExt

CONSTANTS Caller,
          MaxPack, MaxSource,   \* bounds: rows ever created
          Text,                 \* what a source may hold: sequences of items
          Budget,               \* SONIOX_CONTEXT_MAX_SCALARS
          MaxCall,              \* bound: calls ever made
          MaxFault,             \* bound: key deletions that fail, and crashes
          Nothing               \* no row, no pack, no value

Pack == 1..MaxPack
Source == 1..MaxSource          \* in order of creation
Snapshot == 0                   \* the key of the recording's snapshot
Sections == <<"translation_terms", "terms", "general", "text">>

VARIABLES
    pack,      \* context_packs: scope, revision, deleted
    source,    \* context_pack_sources: the pack, its text, revision, deleted
    bound,     \* notebook_context_pack_bindings: the packs bound, in their order
    keys,      \* the references the key store has a key for
    made,      \* packs and sources created so far
    lock,      \* the caller that keeps the connection between two steps
    call,      \* per caller: the call it is in
    shown,     \* the last preview the user was shown
    run,       \* the recording: its snapshot, and what was true at its start
    calls, faults

vars == <<pack, source, bound, keys, made, lock, call, shown, run, calls, faults>>

Op == {"open", "create", "bind", "import", "replace", "delete", "import_document", "copy",
       "preview", "start"}
Step == {"mint", "insert", "take_back", "private", "bind", "key", "store", "replace_key", "replace_row",
         "destroy", "bury", "list", "next", "remove_row", "remove_key", "bindings", "pack_key",
         "pack_rows", "freeze", "freeze_row"}

PacksAssumption ==
    /\ MaxPack \in Nat /\ MaxPack >= 2 /\ MaxSource \in Nat /\ MaxSource >= 2
    /\ MaxFault \in Nat /\ MaxCall \in Nat
    /\ Nothing \notin Op \cup Step \cup {"private", "library"}
    /\ Nothing \notin Caller /\ Nothing \notin Pack

NoPack == [scope |-> Nothing, rev |-> 0, dead |-> FALSE]
NoSource == [pack |-> Nothing, text |-> Nothing, rev |-> 0, dead |-> FALSE]
Idle == [op |-> Nothing, pc |-> Nothing, pack |-> Nothing, from |-> Nothing,
         todo |-> <<>>, rows |-> <<>>, src |-> Nothing, rev |-> 0, gone |-> {}]
NoRun == [sent |-> Nothing, confirmed |-> Nothing, gone |-> {}]

ActivePack(p) == pack[p].scope # Nothing /\ ~pack[p].dead
Library(p) == ActivePack(p) /\ pack[p].scope = "library"
PrivatePacks == {p \in Pack : ActivePack(p) /\ pack[p].scope = "private"}
LiveSource(s) == source[s].pack # Nothing /\ ~source[s].dead
SourcesOf(p) == SetToSortSeq({s \in Source : LiveSource(s) /\ source[s].pack = p}, <)

(* A source as a reader of the table sees it.                              *)
Row(s) == [src |-> s, pack |-> source[s].pack, rev |-> source[s].rev, text |-> source[s].text]

-----------------------------------------------------------------------------
(* compile_notebook_context_with_limit, after the rows are read: the       *)
(* sections are filled in their order, within a section packs and sources  *)
(* in theirs.  An item already seen is a duplicate whether or not it was   *)
(* taken; a list item that does not fit is left out; the longest prefix of *)
(* a text that fits is taken.  An item is <<section, value, scalars>>.     *)
Candidates(rows, section) ==
    FlattenSeq([i \in 1..Len(rows) |->
        SelectSeq([j \in 1..Len(rows[i].text) |->
                     [src |-> rows[i].src, at |-> j, item |-> rows[i].text[j]]],
                  LAMBDA c : c.item[1] = section)])

Entry(c, outcome, taken) == [src |-> c.src, at |-> c.at, outcome |-> outcome, taken |-> taken]

(* Mutant: a list item that does not fit stays in the context.             *)
TakenWithoutPop(acc, c) ==
    LET value == <<c.item[1], c.item[2]>>
        size == c.item[3]
        room == Budget - acc.used
    IN  IF value \in acc.seen
        THEN [acc EXCEPT !.ledger = @ \cup {Entry(c, "duplicate", 0)}]
        ELSE IF size <= room \/ c.item[1] # "text"
        THEN [seen |-> acc.seen \cup {value}, used |-> acc.used + size,
              context |-> Append(acc.context, <<value, size>>),
              ledger |-> acc.ledger \cup {Entry(c, "included", size)}]
        ELSE [acc EXCEPT !.seen = @ \cup {value},
                         !.ledger = @ \cup {Entry(c, "budget_exceeded", 0)}]

Taken(acc, c) ==
    LET value == <<c.item[1], c.item[2]>>
        size == c.item[3]
        room == Budget - acc.used
    IN  IF value \in acc.seen
        THEN [acc EXCEPT !.ledger = @ \cup {Entry(c, "duplicate", 0)}]
        ELSE IF size <= room
        THEN [seen |-> acc.seen \cup {value}, used |-> acc.used + size,
              context |-> Append(acc.context, <<value, size>>),
              ledger |-> acc.ledger \cup {Entry(c, "included", size)}]
        ELSE IF c.item[1] = "text" /\ room > 0
        THEN [seen |-> acc.seen \cup {value}, used |-> Budget,
              context |-> Append(acc.context, <<value, room>>),
              ledger |-> acc.ledger \cup {Entry(c, "truncated", room)}]
        ELSE [acc EXCEPT !.seen = @ \cup {value},
                         !.ledger = @ \cup {Entry(c, "budget_exceeded", 0)}]

(* The context and its receipt: which source of which revision gave what.  *)
Compiled(rows) ==
    LET all == FlattenSeq([i \in 1..Len(Sections) |-> Candidates(rows, Sections[i])])
        filled == FoldLeft(Taken, [seen |-> {}, used |-> 0, context |-> <<>>, ledger |-> {}], all)
    IN  [context |-> filled.context, used |-> filled.used, ledger |-> filled.ledger,
         sources |-> ToSet(rows)]

(* Mutant: the confirmation covers the context and not its receipt.        *)
ConfirmationOfContext(compiled) == compiled.context

(* context_confirmation_digest.                                            *)
Confirmation(compiled) == compiled

-----------------------------------------------------------------------------
(* A notebook just opened, or one that has its private pack and a bound     *)
(* library pack, with a source each.                                       *)
Fresh ==
    /\ pack = [p \in Pack |-> NoPack]
    /\ source = [s \in Source |-> NoSource]
    /\ bound = <<>>
    /\ keys = {}
    /\ made = [pack |-> 0, source |-> 0]

Established ==
    /\ pack = [p \in Pack |-> IF p > 2 THEN NoPack
                             ELSE [scope |-> IF p = 1 THEN "private" ELSE "library",
                                   rev |-> 1, dead |-> FALSE]]
    /\ \E t, u \in Text :
          source = [s \in Source |-> IF s > 2 THEN NoSource
                                    ELSE [pack |-> s, text |-> IF s = 1 THEN t ELSE u,
                                          rev |-> 0, dead |-> FALSE]]
    /\ bound = <<2>>
    /\ keys = {1, 2}
    /\ made = [pack |-> 2, source |-> 2]

Init ==
    /\ Fresh \/ Established
    /\ lock = Nothing
    /\ call = [c \in Caller |-> Idle]
    /\ shown = Nothing
    /\ run = NoRun
    /\ calls = 0 /\ faults = 0

Free == lock = Nothing
At(c, pc) == call[c].pc = pc
Go(c, pc) == call' = [call EXCEPT ![c].pc = pc]
Return(c) == call' = [call EXCEPT ![c] = Idle]
Rows == <<pack, source, bound>>

(* What is deleted, to this notebook, when a call begins.                  *)
Gone == {s \in Source : source[s].pack # Nothing
                          /\ (source[s].dead \/ pack[source[s].pack].dead)}

Begin(c, op, pc, changes) ==
    /\ call[c] = Idle /\ calls < MaxCall
    /\ calls' = calls + 1
    /\ call' = [call EXCEPT ![c] = [changes EXCEPT !.op = op, !.pc = pc, !.gone = Gone]]

-----------------------------------------------------------------------------
(* Creating a pack: its key is stored, then its row inserted; the row of a *)
(* second private pack is refused by the partial unique index and the key  *)
(* is taken back.                                                          *)
MintKey(c) ==
    /\ At(c, "mint") /\ made.pack < MaxPack
    /\ made' = [made EXCEPT !.pack = @ + 1]
    /\ keys' = keys \cup {made.pack + 1}
    /\ call' = [call EXCEPT ![c].pc = "insert", ![c].pack = made.pack + 1]
    /\ UNCHANGED <<Rows, lock, shown, run, calls, faults>>

(* What an operation does with the pack it created or found.               *)
AfterPack(c, p) ==
    CASE call[c].op \in {"preview", "start"} ->
             call' = [call EXCEPT ![c].pc = "bindings", ![c].pack = p]
      [] call[c].op = "copy" /\ call[c].from = Nothing ->
             call' = [call EXCEPT ![c].pc = "list", ![c].from = p]
      [] call[c].op = "import_document" \/ (call[c].op = "copy" /\ call[c].from # Nothing) ->
             call' = [call EXCEPT ![c].pc = "next", ![c].pack = p]
      [] OTHER -> Return(c)

(* The private pack is made by the operations that look for it first.      *)
Making(c) ==
    IF \/ call[c].op \in {"preview", "start", "open"}
       \/ call[c].op = "copy" /\ call[c].from = Nothing
    THEN "private" ELSE "library"

InsertPack(c) ==
    /\ At(c, "insert") /\ Free
    /\ Making(c) = "private" => PrivatePacks = {}
    /\ pack' = [pack EXCEPT ![call[c].pack] = [scope |-> Making(c), rev |-> 0, dead |-> FALSE]]
    /\ AfterPack(c, call[c].pack)
    /\ UNCHANGED <<source, bound, keys, made, lock, shown, run, calls, faults>>

(* Mutant: the key of the pack that lost the race stays in the key store.  *)
InsertRefusedKeepingKey(c) ==
    /\ At(c, "insert") /\ Free
    /\ Making(c) = "private" /\ PrivatePacks # {}
    /\ Go(c, "private")
    /\ UNCHANGED <<Rows, keys, made, lock, shown, run, calls, faults>>

InsertRefused(c) ==
    /\ At(c, "insert") /\ Free
    /\ Making(c) = "private" /\ PrivatePacks # {}
    /\ Go(c, "take_back")
    /\ UNCHANGED <<Rows, keys, made, lock, shown, run, calls, faults>>

(* A key that is not wanted any more; a failure to delete it is ignored.   *)
Discard(k) ==
    \/ keys' = keys \ {k} /\ UNCHANGED faults
    \/ faults < MaxFault /\ faults' = faults + 1 /\ UNCHANGED keys

TakeKeyBack(c) ==
    /\ At(c, "take_back")
    /\ Discard(call[c].pack)
    /\ Go(c, "private")
    /\ UNCHANGED <<Rows, made, lock, shown, run, calls>>

(* ensure_private_pack: the pack there is, or a new one.                   *)
FindPrivate(c) ==
    /\ At(c, "private") /\ Free
    /\ IF PrivatePacks # {} THEN \E p \in PrivatePacks : AfterPack(c, p) ELSE Go(c, "mint")
    /\ UNCHANGED <<Rows, keys, made, lock, shown, run, calls, faults>>

(* ensure_private_packs_for_existing_notebooks, and the library's button.  *)
OpenNotebook(c) ==
    /\ Begin(c, "open", "private", Idle)
    /\ UNCHANGED <<Rows, keys, made, lock, shown, run, faults>>
CreateLibraryPack(c) ==
    /\ Begin(c, "create", "mint", Idle)
    /\ UNCHANGED <<Rows, keys, made, lock, shown, run, faults>>

-----------------------------------------------------------------------------
(* bind_library_pack: the pack is checked, then the row inserted, which a  *)
(* trigger refuses unless the pack is an active library pack.              *)
Bind(c) ==
    \E p \in Pack :
      /\ Free /\ Library(p) /\ p \notin ToSet(bound)
      /\ Begin(c, "bind", "bind", [Idle EXCEPT !.pack = p])
      /\ UNCHANGED <<Rows, keys, made, lock, shown, run, faults>>
BindRow(c) ==
    /\ At(c, "bind") /\ Free
    /\ bound' = IF Library(call[c].pack) /\ call[c].pack \notin ToSet(bound)
                THEN Append(bound, call[c].pack) ELSE bound
    /\ Return(c)
    /\ UNCHANGED <<pack, source, keys, made, lock, shown, run, calls, faults>>

Unbind(c) ==
    \E p \in ToSet(bound) :
      /\ Free /\ call[c] = Idle /\ calls < MaxCall
      /\ bound' = SelectSeq(bound, LAMBDA q : q # p)
      /\ calls' = calls + 1
      /\ UNCHANGED <<pack, source, keys, made, lock, call, shown, run, faults>>

-----------------------------------------------------------------------------
(* import_source: the pack is read, its key loaded, and the row inserted   *)
(* with the pack's next revision; the insertion does not look at the pack  *)
(* again.                                                                  *)
ImportSource(c) ==
    \E p \in Pack, t \in Text :
      /\ Free /\ ActivePack(p)
      /\ Begin(c, "import", "key", [Idle EXCEPT !.pack = p, !.todo = <<t>>])
      /\ UNCHANGED <<Rows, keys, made, lock, shown, run, faults>>

Cleanup(c) == call[c].op \in {"copy", "import_document"}
Fails(c) == IF Cleanup(c) THEN Go(c, "remove_row") ELSE Return(c)

LoadKey(c) ==
    /\ At(c, "key")
    /\ IF call[c].pack \in keys THEN Go(c, "store") ELSE Fails(c)
    /\ UNCHANGED <<Rows, keys, made, lock, shown, run, calls, faults>>

StoreSource(c) ==
    /\ At(c, "store") /\ Free /\ made.source < MaxSource
    /\ LET p == call[c].pack
       IN  IF pack[p] = NoPack     \* the row references a pack that is gone
           THEN Fails(c) /\ UNCHANGED <<pack, source, made>>
           ELSE /\ source' = [source EXCEPT ![made.source + 1] =
                                [pack |-> p, text |-> Head(call[c].todo), rev |-> 0, dead |-> FALSE]]
                /\ pack' = [pack EXCEPT ![p].rev = @ + 1]
                /\ made' = [made EXCEPT !.source = @ + 1]
                /\ IF Cleanup(c)
                   THEN call' = [call EXCEPT ![c].todo = Tail(@), ![c].pc = "next"]
                   ELSE Return(c)
    /\ UNCHANGED <<bound, keys, lock, shown, run, calls, faults>>

(* replace_source: the row changes only if its revision is the expected    *)
(* one.                                                                    *)
ReplaceSource(c) ==
    \E s \in Source, t \in Text :
      /\ Free /\ LiveSource(s) /\ ActivePack(source[s].pack)
      /\ Begin(c, "replace", "replace_key",
               [Idle EXCEPT !.pack = source[s].pack, !.src = s, !.rev = source[s].rev, !.todo = <<t>>])
      /\ UNCHANGED <<Rows, keys, made, lock, shown, run, faults>>
ReplaceKey(c) ==
    /\ At(c, "replace_key")
    /\ IF call[c].pack \in keys THEN Go(c, "replace_row") ELSE Return(c)
    /\ UNCHANGED <<Rows, keys, made, lock, shown, run, calls, faults>>
ReplaceRow(c) ==
    LET s == call[c].src
        current == LiveSource(s) /\ source[s].rev = call[c].rev
    IN  /\ At(c, "replace_row") /\ Free
        /\ source' = IF current
                     THEN [source EXCEPT ![s].text = Head(call[c].todo), ![s].rev = @ + 1]
                     ELSE source
        /\ pack' = IF current THEN [pack EXCEPT ![call[c].pack].rev = @ + 1] ELSE pack
        /\ Return(c)
        /\ UNCHANGED <<bound, keys, made, lock, shown, run, calls, faults>>

(* delete_source: a tombstone without its ciphertext.                      *)
DeleteSource(c) ==
    \E s \in Source :
      /\ Free /\ LiveSource(s) /\ call[c] = Idle /\ calls < MaxCall
      /\ calls' = calls + 1
      /\ source' = [source EXCEPT ![s].dead = TRUE, ![s].text = Nothing, ![s].rev = @ + 1]
      /\ pack' = [pack EXCEPT ![source[s].pack].rev = @ + 1]
      /\ UNCHANGED <<bound, keys, made, lock, call, shown, run, faults>>

(* replace_library_pack_document: under the connection's mutex from the    *)
(* revision check to the commit; the old rows go, the new ones come.       *)
ReplaceDocument(c) ==
    \E p \in Pack, t \in Text :
      /\ Free /\ Library(p) /\ p \in keys /\ made.source < MaxSource
      /\ call[c] = Idle /\ calls < MaxCall
      /\ calls' = calls + 1
      /\ source' = [s \in Source |->
                      IF s = made.source + 1
                      THEN [pack |-> p, text |-> t, rev |-> 0, dead |-> FALSE]
                      ELSE IF source[s].pack = p THEN NoSource ELSE source[s]]
      /\ pack' = [pack EXCEPT ![p].rev = @ + 1]
      /\ made' = [made EXCEPT !.source = @ + 1]
      /\ UNCHANGED <<bound, keys, lock, call, shown, run, faults>>

-----------------------------------------------------------------------------
(* delete_library_pack keeps the connection's mutex: the key goes first,   *)
(* then the tombstone; a key that is already gone is no error, and one     *)
(* that cannot be deleted leaves the pack as it was.                       *)
DeletePack(c) ==
    \E p \in Pack :
      /\ Free /\ Library(p)
      /\ Begin(c, "delete", "destroy", [Idle EXCEPT !.pack = p, !.rev = pack[p].rev])
      /\ lock' = c
      /\ UNCHANGED <<Rows, keys, made, shown, run, faults>>

(* Mutant: a key that cannot be deleted is passed over.                    *)
DestroyKeyOrNot(c) ==
    /\ At(c, "destroy")
    /\ \/ keys' = keys \ {call[c].pack} /\ UNCHANGED faults
       \/ faults < MaxFault /\ faults' = faults + 1 /\ UNCHANGED keys
    /\ Go(c, "bury") /\ UNCHANGED lock
    /\ UNCHANGED <<Rows, made, shown, run, calls>>

DestroyKey(c) ==
    /\ At(c, "destroy")
    /\ \/ /\ keys' = keys \ {call[c].pack}
          /\ Go(c, "bury")
          /\ UNCHANGED <<lock, faults>>
       \/ /\ faults < MaxFault /\ faults' = faults + 1
          /\ Return(c) /\ lock' = Nothing
          /\ UNCHANGED keys
    /\ UNCHANGED <<Rows, made, shown, run, calls>>

BuryPack(c) ==
    /\ At(c, "bury")
    /\ pack' = [pack EXCEPT ![call[c].pack].dead = TRUE, ![call[c].pack].rev = @ + 1]
    /\ lock' = Nothing
    /\ Return(c)
    /\ UNCHANGED <<source, bound, keys, made, shown, run, calls, faults>>

-----------------------------------------------------------------------------
(* import_pack_document and copy_pack_to_library: a new library pack,      *)
(* filled source by source; when one fails the row is removed, which takes *)
(* its sources and bindings along, and then the key.                       *)
ImportDocument(c) ==
    \E t, u \in Text :
      /\ Begin(c, "import_document", "mint", [Idle EXCEPT !.todo = <<t, u>>])
      /\ UNCHANGED <<Rows, keys, made, lock, shown, run, faults>>
CopyPrivate(c) ==
    /\ Begin(c, "copy", "private", Idle)
    /\ UNCHANGED <<Rows, keys, made, lock, shown, run, faults>>

(* The copy's list of sources is read before its pack is created.          *)
ListSources(c) ==
    /\ At(c, "list") /\ Free
    /\ call' = [call EXCEPT ![c].pc = "mint",
                  ![c].rows = [i \in 1..Len(SourcesOf(call[c].from)) |-> Row(SourcesOf(call[c].from)[i])]]
    /\ UNCHANGED <<Rows, keys, made, lock, shown, run, calls, faults>>

(* read_source_plaintext: the row as it is now must have the digest it had *)
(* when it was listed.                                                     *)
ReadForCopy(c) ==
    /\ At(c, "next") /\ Free
    /\ call[c].op = "copy" /\ call[c].rows # <<>> /\ call[c].todo = <<>>
    /\ LET r == Head(call[c].rows)
       IN  IF LiveSource(r.src) /\ source[r.src].text = r.text /\ call[c].from \in keys
           THEN call' = [call EXCEPT ![c].todo = <<r.text>>, ![c].rows = Tail(@)]
           ELSE Fails(c)
    /\ UNCHANGED <<Rows, keys, made, lock, shown, run, calls, faults>>

(* import_source of the next text, or the last look at the new pack.       *)
NextSource(c) ==
    /\ At(c, "next") /\ Free
    /\ call[c].todo # <<>> \/ call[c].rows = <<>>
    /\ IF ~ActivePack(call[c].pack) THEN Fails(c)
       ELSE IF call[c].todo # <<>>  THEN Go(c, "key") ELSE Return(c)
    /\ UNCHANGED <<Rows, keys, made, lock, shown, run, calls, faults>>

RemoveRow(c) ==
    LET p == call[c].pack
    IN  /\ At(c, "remove_row") /\ Free
        /\ pack' = [pack EXCEPT ![p] = NoPack]
        /\ source' = [s \in Source |-> IF source[s].pack = p THEN NoSource ELSE source[s]]
        /\ bound' = SelectSeq(bound, LAMBDA q : q # p)
        /\ Go(c, "remove_key")
        /\ UNCHANGED <<keys, made, lock, shown, run, calls, faults>>

RemoveKey(c) ==
    /\ At(c, "remove_key")
    /\ Discard(call[c].pack)
    /\ Return(c)
    /\ UNCHANGED <<Rows, made, lock, shown, run, calls>>

-----------------------------------------------------------------------------
(* compile_notebook_context: the private pack, then the bound packs in     *)
(* their order; a pack that is deleted, or whose key is gone, fails the    *)
(* whole compilation.                                                      *)
Preview(c) ==
    /\ Begin(c, "preview", "private", Idle)
    /\ UNCHANGED <<Rows, keys, made, lock, shown, run, faults>>

(* start_notebook_capture_session with the confirmation of a preview.      *)
StartRecording(c) ==
    /\ run = NoRun /\ shown # Nothing
    /\ \A d \in Caller : call[d].op # "start"   \* capture_ownership_gate
    /\ Begin(c, "start", "private", [Idle EXCEPT !.from = shown])
    /\ UNCHANGED <<Rows, keys, made, lock, shown, run, faults>>

ListBindings(c) ==
    /\ At(c, "bindings") /\ Free
    /\ IF \E p \in ToSet(bound) : pack[p].dead
       THEN Return(c)
       ELSE call' = [call EXCEPT ![c].pc = "pack_key", ![c].todo = <<call[c].pack>> \o bound]
    /\ UNCHANGED <<Rows, keys, made, lock, shown, run, calls, faults>>

PackKey(c) ==
    /\ At(c, "pack_key") /\ call[c].todo # <<>>
    /\ IF Head(call[c].todo) \in keys THEN Go(c, "pack_rows") ELSE Return(c)
    /\ UNCHANGED <<Rows, keys, made, lock, shown, run, calls, faults>>

PackRows(c) ==
    /\ At(c, "pack_rows") /\ Free
    /\ LET listed == SourcesOf(Head(call[c].todo))
       IN  call' = [call EXCEPT ![c].pc = "pack_key", ![c].todo = Tail(@),
                      ![c].rows = @ \o [i \in 1..Len(listed) |-> Row(listed[i])]]
    /\ UNCHANGED <<Rows, keys, made, lock, shown, run, calls, faults>>

ShowPreview(c) ==
    /\ At(c, "pack_key") /\ call[c].todo = <<>> /\ call[c].op = "preview"
    /\ shown' = Compiled(call[c].rows)
    /\ Return(c)
    /\ UNCHANGED <<Rows, keys, made, lock, run, calls, faults>>

(* A recording starts only with the context that was confirmed, and only   *)
(* if there is any.                                                        *)
Confirm(c) ==
    /\ At(c, "pack_key") /\ call[c].todo = <<>> /\ call[c].op = "start"
    /\ LET compiled == Compiled(call[c].rows)
       IN  IF Confirmation(compiled) = Confirmation(call[c].from) /\ compiled.context # <<>>
           THEN Go(c, "freeze")
           ELSE Return(c)
    /\ UNCHANGED <<Rows, keys, made, lock, shown, run, calls, faults>>

(* persist_run_snapshot: the snapshot's key, then the run's columns.       *)
FreezeKey(c) ==
    /\ At(c, "freeze")
    /\ keys' = keys \cup {Snapshot}
    /\ Go(c, "freeze_row")
    /\ UNCHANGED <<Rows, made, lock, shown, run, calls, faults>>
FreezeRow(c) ==
    /\ At(c, "freeze_row") /\ Free
    /\ run' = [sent |-> Compiled(call[c].rows), confirmed |-> call[c].from, gone |-> call[c].gone]
    /\ Return(c)
    /\ UNCHANGED <<Rows, keys, made, lock, shown, calls, faults>>

(* The run's columns are not written: the key goes and the start is rolled *)
(* back.                                                                   *)
FreezeFails(c) ==
    /\ At(c, "freeze_row") /\ Free /\ faults < MaxFault
    /\ faults' = faults + 1
    /\ keys' = keys \ {Snapshot}
    /\ Return(c)
    /\ UNCHANGED <<Rows, made, lock, shown, run, calls>>

-----------------------------------------------------------------------------
(* The process dies: the calls, the mutex and what the user was shown are  *)
(* lost, the rows and the keys are not.                                    *)
Crash ==
    /\ faults < MaxFault /\ faults' = faults + 1
    /\ call' = [c \in Caller |-> Idle]
    /\ lock' = Nothing
    /\ shown' = Nothing
    /\ UNCHANGED <<Rows, keys, made, run, calls>>

Creating(c) == MintKey(c) \/ InsertPack(c) \/ InsertRefused(c) \/ TakeKeyBack(c) \/ FindPrivate(c)
               \/ OpenNotebook(c) \/ CreateLibraryPack(c)
Editing(c) == Bind(c) \/ BindRow(c) \/ Unbind(c) \/ ImportSource(c) \/ LoadKey(c) \/ StoreSource(c)
              \/ ReplaceSource(c) \/ ReplaceKey(c) \/ ReplaceRow(c) \/ DeleteSource(c)
              \/ ReplaceDocument(c)
Deleting(c) == DeletePack(c) \/ DestroyKey(c) \/ BuryPack(c)
Filling(c) == ImportDocument(c) \/ CopyPrivate(c) \/ ListSources(c) \/ ReadForCopy(c)
              \/ NextSource(c) \/ RemoveRow(c) \/ RemoveKey(c)
Sending(c) == Preview(c) \/ StartRecording(c) \/ ListBindings(c) \/ PackKey(c) \/ PackRows(c)
              \/ ShowPreview(c) \/ Confirm(c) \/ FreezeKey(c) \/ FreezeRow(c) \/ FreezeFails(c)

Next == Crash \/ \E c \in Caller : Creating(c) \/ Editing(c) \/ Deleting(c) \/ Filling(c) \/ Sending(c)
Spec == Init /\ [][Next]_vars

-----------------------------------------------------------------------------
PacksTypeOK ==
    /\ DOMAIN pack = Pack /\ DOMAIN source = Source
    /\ ToSet(bound) \subseteq Pack /\ IsInjective(bound)
    /\ keys \subseteq Pack \cup {Snapshot}
    /\ lock \in Caller \cup {Nothing}
    /\ calls \in 0..MaxCall /\ faults \in 0..MaxFault

(* What goes out with a recording is what the user confirmed, receipt and  *)
(* all, however the packs were edited between the preview and the start;   *)
(* and nothing that had been deleted when the start was called is in it.   *)
(* It is about the second compilation and the digest comparison in         *)
(* start_notebook_capture_session.                                         *)
ConfirmedIsSent ==
    run # NoRun =>
        /\ run.sent = run.confirmed
        /\ \A row \in run.sent.sources : row.src \notin run.gone
        /\ Snapshot \in keys

(* A deleted pack cannot be read any more: its key is gone before its      *)
(* tombstone is written, whatever fails and wherever the process dies.     *)
DeletedIsUnreadable ==
    \A p \in Pack : pack[p].dead => p \notin keys

(* With every call returned and nothing having failed, the key store holds *)
(* the keys of the packs there are, and no other.                          *)
NothingIsOrphaned ==
    (\A c \in Caller : call[c] = Idle) /\ faults = 0 =>
        /\ keys \cap Pack = {p \in Pack : ActivePack(p)}
        /\ \A s \in Source : source[s].pack # Nothing => pack[source[s].pack] # NoPack

(* The keys follow the packs: none outlives its pack's deletion, none is   *)
(* left by a lost race for the private pack or by an import that failed.   *)
(* It is about create_pack, delete_library_pack and import_pack_document.  *)
KeysFollowPacks == DeletedIsUnreadable /\ NothingIsOrphaned

(* The budget is never exceeded, every item of every source is accounted   *)
(* for once, and what was left out for the budget would not have fitted    *)
(* the finished context either.  It is about the four sections of          *)
(* compile_notebook_context_with_limit.                                    *)
ReceiptIsExact ==
    shown # Nothing =>
        /\ shown.used <= Budget
        /\ \A row \in shown.sources : \A j \in 1..Len(row.text) :
             LET entries == {e \in shown.ledger : e.src = row.src /\ e.at = j}
             IN  /\ Cardinality(entries) = 1
                 /\ \A e \in entries :
                      e.outcome = "budget_exceeded" => row.text[j][3] > Budget - shown.used

(* What a recording sends: the confirmed compilation, which is exact about *)
(* what it holds and what it left out.                                     *)
ContextIsHonest == ConfirmedIsSent /\ ReceiptIsExact
=============================================================================
