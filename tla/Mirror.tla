-------------------------------- MODULE Mirror --------------------------------
(***************************************************************************)
(* The engine that keeps a Loro document and an application's copy of it   *)
(* alike (vt-mirror/src/mirror.rs, diff.rs, lis.rs), reduced to one list of *)
(* the document: what set_state writes when it is given the copy's next    *)
(* value.  A list of the transcript's blocks is keyed by their ids, a       *)
(* note's children are a movable list; a plain list compares by place.      *)
(*                                                                         *)
(* An item is a map with an id and a text.  Places count from 0, as the     *)
(* changes do.  A mirror is used by one thread.                             *)
(***************************************************************************)
EXTENDS Naturals, Sequences, FiniteSets, SequencesExt, FiniteSetsExt

CONSTANTS
    Id, Text,
    MaxItem,        \* items of a list the application asks for
    MaxStored       \* items of the document's list

ListKind == {"keyed", "movable", "plain"}
ListItem == [id : Id, text : Text]
IdsOf(items) == { items[i].id : i \in DOMAIN items }
Distinct(items) == Cardinality(IdsOf(items)) = Len(items)
Asked == { items \in SeqOf(ListItem, MaxItem) : Distinct(items) }
NoCall == [old |-> <<>>, new |-> <<>>, ok |-> FALSE]

VARIABLES
    kind,       \* the list's schema
    stored,     \* the list in the Loro document
    state,      \* the mirror's copy of it
    call        \* the set_state that is about to return, if it began with the two alike

mirrorVars == <<kind, stored, state, call>>

At(items, place) == items[place + 1]

-----------------------------------------------------------------------------
(* Changes.                                                                *)

Insertion(place, item) == [op |-> "insert", at |-> place, item |-> item]
Deletion(place) == [op |-> "delete", at |-> place]
Move(from, to) == [op |-> "move", at |-> from, to |-> to]

(* An item that differs: changes inside the map that stands at its place in *)
(* the document before any is applied, or another item where none does.      *)
Edit(i, was, place, item) ==
    IF i < Len(stored) THEN <<[op |-> "edit", at |-> i, was |-> was, item |-> item]>>
    ELSE <<Deletion(place), Insertion(place, item)>>

(* diff_list_with_id_selector, the scan of the old state: i and j are the   *)
(* places in the old and the new one, d what the changes so far have added. *)
(* Where the new state has no item left, an old one is passed over.         *)
RECURSIVE Scan(_, _, _, _, _)
Scan(old, new, i, j, d) ==
    LET more == j < Len(new)  IN
    CASE i = Len(old) ->
            [k \in 1..(Len(new) - j) |-> Insertion(i + d + k - 1, At(new, j + k - 1))]
      [] i < Len(old) /\ ~more -> Scan(old, new, i + 1, j, d)
      [] i < Len(old) /\ more /\ At(old, i) = At(new, j) -> Scan(old, new, i + 1, j + 1, d)
      [] i < Len(old) /\ more /\ At(old, i) # At(new, j) /\ At(old, i).id = At(new, j).id ->
            Edit(i, At(old, i), i + d, At(new, j)) \o Scan(old, new, i + 1, j + 1, d)
      [] i < Len(old) /\ more /\ At(old, i).id # At(new, j).id /\ At(new, j).id \notin IdsOf(old) ->
            <<Insertion(i + d, At(new, j))>> \o Scan(old, new, i, j + 1, d + 1)
      [] OTHER -> <<Deletion(i + d)>> \o Scan(old, new, i + 1, j, d - 1)

KeyedChanges(old, new) == Scan(old, new, 0, 0, 0)

(* Mutant: an increasing subsequence, not the longest.                       *)
LongestGreedy(numbers) ==
    { k \in DOMAIN numbers : \A m \in 1..(k - 1) : numbers[m] < numbers[k] }

(* longest_increasing_subsequence: for each length the chain that ends      *)
(* lowest.  Its result is the set of places of the chain it finds.           *)
Longest(numbers) ==
    LET Extend(acc, i) ==
            LET low == Cardinality({ k \in DOMAIN acc.tails : numbers[acc.tails[k]] < numbers[i] })
            IN [tails |-> IF low = Len(acc.tails) THEN Append(acc.tails, i)
                          ELSE [acc.tails EXCEPT ![low + 1] = i],
                before |-> Append(acc.before, IF low = 0 THEN 0 ELSE acc.tails[low])]
        found == FoldLeftDomain(LAMBDA acc, i : Extend(acc, i),
                                [tails |-> <<>>, before |-> <<>>], numbers)
        size == Len(found.tails)
        chain[k \in 0..size] == IF k = size THEN found.tails[size] ELSE found.before[chain[k + 1]]
    IN IF numbers = <<>> THEN {} ELSE { chain[k] : k \in 1..size }

(* diff_movable_list: the deletions from the last, the fewest moves - each  *)
(* from its place in the old state to its place in the new one -, the       *)
(* insertions, the edits.                                                   *)
MovableChanges(old, new) ==
    LET gone == { i \in 0..(Len(old) - 1) : At(old, i).id \notin IdsOf(new) }
        kept == SelectSeq([j \in 1..Len(new) |-> j - 1], LAMBDA j : At(new, j).id \in IdsOf(old))
        Was(j) == Max({ i \in 0..(Len(old) - 1) : At(old, i).id = At(new, j).id })
        still == Longest([k \in DOMAIN kept |-> Was(kept[k])])
        moved == SelectSeq([k \in DOMAIN kept |-> k], LAMBDA k : k \notin still /\ Was(kept[k]) # kept[k])
        fresh == SelectSeq([j \in 1..Len(new) |-> j - 1], LAMBDA j : At(new, j).id \notin IdsOf(old))
        edited == SelectSeq(kept, LAMBDA j : At(old, Was(j)) # At(new, j))
    IN [k \in 1..Cardinality(gone) |-> Deletion(Reverse(SetToSortSeq(gone, <))[k])]
       \o [k \in DOMAIN moved |-> Move(Was(kept[moved[k]]), kept[moved[k]])]
       \o [k \in DOMAIN fresh |-> Insertion(fresh[k], At(new, fresh[k]))]
       \o FlattenSeq([k \in DOMAIN edited |->
               Edit(Was(edited[k]), At(old, Was(edited[k])), edited[k], At(new, edited[k]))])

(* diff_list: place by place; what is left over is deleted from the first    *)
(* place on, or inserted.                                                   *)
PlainChanges(old, new) ==
    LET both == IF Len(old) < Len(new) THEN Len(old) ELSE Len(new)
        differ == SelectSeq([k \in 1..both |-> k - 1], LAMBDA k : At(old, k) # At(new, k))
    IN FlattenSeq([k \in DOMAIN differ |->
          Edit(differ[k], At(old, differ[k]), differ[k], At(new, differ[k]))])
       \o [k \in 1..(Len(old) - both) |-> Deletion(both + k - 1)]
       \o [k \in 1..(Len(new) - both) |-> Insertion(both + k - 1, At(new, both + k - 1))]

Changes(old, new) == CASE kind = "keyed" -> KeyedChanges(old, new)
                       [] kind = "movable" -> MovableChanges(old, new)
                       [] kind = "plain" -> PlainChanges(old, new)

-----------------------------------------------------------------------------
(* apply_changes_to_loro: container by container in the order their first   *)
(* changes come; a place outside the list is an error, which ends the call  *)
(* with what was applied committed.                                         *)

Edited(items, edits) ==
    LET One(done, c) == [done EXCEPT ![c.at + 1] =
            [f \in DOMAIN @ |-> IF c.was[f] # c.item[f] THEN c.item[f] ELSE @[f]]]
    IN FoldLeft(One, items, edits)

(* insert_container_into_list, initialize_container: a map of its own, into *)
(* which every field of the item is put.                                     *)
Put(items, place, item) == InsertAt(items, place + 1, item)

(* Mutant: an item is put in its new place before it leaves its old one.     *)
ChangeMovingFirst(done, c) ==
    LET items == done.items
        put == InsertAt(items, c.to + 1, At(items, c.at))
    IN CASE ~done.ok -> done
         [] done.ok /\ c.op = "insert" /\ c.at <= Len(items) ->
               [done EXCEPT !.items = Put(items, c.at, c.item)]
         [] done.ok /\ c.op = "delete" /\ c.at < Len(items) ->
               [done EXCEPT !.items = RemoveAt(items, c.at + 1)]
         [] done.ok /\ c.op = "move" /\ c.at < Len(items) /\ c.to < Len(items) ->
               [done EXCEPT !.items = RemoveAt(put, IF c.to <= c.at THEN c.at + 2 ELSE c.at + 1)]
         [] OTHER -> [done EXCEPT !.ok = FALSE]

Change(done, c) ==
    LET items == done.items IN
    CASE ~done.ok -> done
      [] done.ok /\ c.op = "insert" /\ c.at <= Len(items) ->
            [done EXCEPT !.items = Put(items, c.at, c.item)]
      [] done.ok /\ c.op = "delete" /\ c.at < Len(items) ->
            [done EXCEPT !.items = RemoveAt(items, c.at + 1)]
      [] done.ok /\ c.op = "move" /\ c.at < Len(items) /\ c.to < Len(items) ->
            [done EXCEPT !.items = InsertAt(RemoveAt(items, c.at + 1), c.to + 1, At(items, c.at))]
      [] OTHER -> [done EXCEPT !.ok = FALSE]

Applied(items, changes) ==
    LET IsEdit(c) == c.op = "edit"
        NotEdit(c) == c.op # "edit"
        first == Min({ k \in DOMAIN changes : NotEdit(changes[k]) } \cup {Len(changes) + 1})
        From(edits) == FoldLeft(Change, [items |-> Edited(items, edits), ok |-> TRUE],
                                SelectSeq(changes, NotEdit))
        whole == From(SelectSeq(changes, IsEdit))
    IN IF whole.ok THEN whole ELSE From(SubSeq(changes, 1, first - 1))

-----------------------------------------------------------------------------
(* set_state, from a state that follows the schema.                         *)
SetState(new) ==
    LET done == Applied(stored, Changes(state, new)) IN
    /\ call = NoCall
    /\ Len(done.items) <= MaxStored
    /\ stored' = done.items
    /\ state' = IF done.ok THEN new ELSE state
    /\ call' = IF state = stored THEN [old |-> state, new |-> new, ok |-> done.ok] ELSE NoCall
    /\ UNCHANGED kind

(* sync_from_loro, and the handlers of events that do not come from the     *)
(* mirror's own commits.                                                    *)
SyncFromLoro == call = NoCall /\ state' = stored /\ UNCHANGED <<kind, stored, call>>

(* Mutant: the event of an import is ignored.                                *)
ImportUnseen ==
    /\ \E i \in DOMAIN stored : stored' = RemoveAt(stored, i)
    /\ call = NoCall /\ UNCHANGED <<kind, state, call>>

(* A peer's operation is imported, or the document is changed beside the    *)
(* mirror; the event brings the copy up to date.                            *)
Import ==
    /\ \/ \E i \in 1..(Len(stored) + 1), item \in ListItem :
             /\ Len(stored) < MaxItem /\ item.id \notin IdsOf(stored)
             /\ stored' = InsertAt(stored, i, item)
       \/ \E i \in DOMAIN stored : stored' = RemoveAt(stored, i)
       \/ \E i \in DOMAIN stored, t \in Text : stored' = [stored EXCEPT ![i].text = t]
    /\ call = NoCall /\ state' = stored' /\ UNCHANGED <<kind, call>>

(* set_state returns: the mirror's only thread can turn to something else.   *)
Returns == call # NoCall /\ call' = NoCall /\ UNCHANGED <<kind, stored, state>>

MirrorInit == kind \in ListKind /\ stored = <<>> /\ state = <<>> /\ call = NoCall

MirrorNext == (\E new \in Asked : SetState(new)) \/ Returns \/ SyncFromLoro \/ Import

MirrorSpec == MirrorInit /\ [][MirrorNext]_mirrorVars

-----------------------------------------------------------------------------
(* Properties.                                                             *)

(* What is left of a keyed list behind the last item that stays.            *)
PassedOver(old, new) ==
    LET last == Max({0} \cup { i \in DOMAIN old : old[i].id \in IdsOf(new) })
    IN SubSeq(old, last + 1, Len(old))

(* The items both have that keep their order, as many as do.                *)
Reordered(old, new) ==
    LET Order(items, other) == SelectSeq([i \in DOMAIN items |-> items[i].id],
                                         LAMBDA x : x \in IdsOf(other))
        was == Order(old, new)  is == Order(new, old)
    IN IF was = is THEN 0
       ELSE IF \E x \in ToSet(is) : SelectSeq(was, LAMBDA y : y # x) = SelectSeq(is, LAMBDA y : y # x)
            THEN 1 ELSE 2

(* What a set_state is asked for is what the document becomes (diff.rs, the *)
(* heart of the engine), as far as it does: of a keyed list whose items keep *)
(* their order, but for what was removed behind the last that stays; of a   *)
(* movable list, when it asks for one move or for none; of a plain list,    *)
(* when it is not shorter by two or more.                                   *)
DocumentFollows ==
    call.ok /\ Distinct(call.old) =>
      CASE kind = "keyed" -> Reordered(call.old, call.new) = 0
                               => stored = call.new \o PassedOver(call.old, call.new)
        [] kind = "movable" -> \/ Reordered(call.old, call.new) = 0
                               \/ Reordered(call.old, call.new) = 1 /\ IdsOf(call.old) = IdsOf(call.new)
                               => stored = call.new
        [] kind = "plain" -> stored = call.new

(* A keyed list never fails, and its copy is always the beginning of what is *)
(* stored: nothing the application reads is missing from the document.       *)
CopyIsPrefix == kind = "keyed" => IsPrefix(state, stored)

(* The two together: what the verbs of the transcript's blocks rest on.      *)
MirrorIsFaithful == DocumentFollows /\ CopyIsPrefix
=============================================================================
