---------------------- MODULE CaptureCallbacksProofs -----------------------
(***************************************************************************)
(* Why no change of a row is forgotten on its way to the screen, for any   *)
(* rows, versions, revisions and failures and any size of the repair's     *)
(* buffer: a theorem about the client's gap repair.                        *)
(*                                                                         *)
(* Events are lost at every station, so the invariant speaks of what an    *)
(* event still says wherever it is: of the changes told up to its          *)
(* revision, a full one has all, and one with only some rows has that of   *)
(* its own revision (Tells).  A snapshot tells as much at its checkpoint.  *)
(***************************************************************************)
EXTENDS MCTaskQueue, WellFoundedInduction, TLAPS

Versions == 0..Callbacks!Removed
Rows == [Utterance -> Versions]
States == {"recording", "paused", "draining", "completed", "interrupted"}
Event == [revision : Nat, full : BOOLEAN, state : States, applied : Nat, rows : Rows]
MaybeEvent == Event \cup {NoEvent}
Changes == SUBSET Utterance
Buffers == SUBSET Event
Announcement == [revision : Nat, version : Versions]

Stores == [rows : Rows, state : States, applied : Nat]
Mailboxes == [next : Nat \ {0}, event : MaybeEvent, closed : BOOLEAN, enqueued : Nat]

Typed ==
    /\ stored \in Stores
    /\ changed \in [rows : Changes, full : BOOLEAN]
    /\ owner \in {"active", "stopping", "dropped"}
    /\ mailbox \in Mailboxes
    /\ client \in [rows : Rows, last : Nat, state : States, applied : Nat]
    /\ repair \in [on : BOOLEAN, target : Nat, asked : Nat, buffer : Buffers, read : MaybeEvent]
    /\ announced \in [Utterance -> Announcement]

(* Of the changes told up to a revision, what these rows have to show:     *)
(* all of them if they are all the rows, and otherwise the last.  A row    *)
(* withdrawn before is in neither.                                         *)
Tells(rows, full, revision) ==
    /\ revision < mailbox.next
    /\ \A row \in Utterance : announced[row].revision <= revision =>
          /\ announced[row].version = Callbacks!Removed => rows[row] = Callbacks!Hidden
          /\ full => Callbacks!Covers(rows[row], announced[row].version, row)
          /\ ~full /\ announced[row].revision = revision =>
                /\ announced[row].version # Callbacks!Removed
                /\ Callbacks!Covers(rows[row], announced[row].version, row)

(* Only the whole session is told as completed.                            *)
TellsTheEnd(e) ==
    e.state = "completed" => e.full /\ e.rows = Callbacks!Visible /\ stored.state = "completed"

Good(e) == e \in Event /\ Tells(e.rows, e.full, e.revision) /\ TellsTheEnd(e)

StoredOK ==
    /\ owner = "active" => stored.state \in {"recording", "paused"}
    /\ stored.state = "completed" => changed = Callbacks!Nothing
    /\ ~changed.full => \A row \in changed.rows : stored.rows[row] # Callbacks!Removed
    /\ \A row \in Utterance : /\ announced[row].version <= stored.rows[row]
                              /\ announced[row].revision < mailbox.next

StationsOK ==
    /\ mailbox.event # NoEvent => Good(mailbox.event)
    /\ handed # NoEvent => Good(handed)
    /\ inbox # NoEvent => Good(inbox)
    /\ direct # NoEvent => Good(direct)

RepairOK ==
    repair.on =>
        /\ client.state \notin Callbacks!Ended
        /\ client.last = repair.target /\ repair.asked <= repair.target
        /\ repair.target < mailbox.next
        /\ \A e \in repair.buffer : Good(e) /\ ~e.full /\ e.revision <= repair.target
        /\ repair.read # NoEvent => Tells(repair.read.rows, TRUE, Callbacks!Checkpoint)

ClientOK ==
    /\ client.state \notin Callbacks!Ended /\ ~repair.on => Tells(client.rows, TRUE, client.last)
    /\ client.state = "completed" => client.rows = Callbacks!Visible /\ stored.state = "completed"

ScreenInv == Typed /\ StoredOK /\ StationsOK /\ RepairOK /\ ClientOK

-----------------------------------------------------------------------------
(* What a step that takes back nothing leaves true of every event.         *)
Forward ==
    /\ mailbox'.next >= mailbox.next
    /\ \A row \in Utterance :
          /\ stored.rows[row] = Callbacks!Removed => stored'.rows[row] = Callbacks!Removed
          /\ announced'[row] = announced[row] \/ announced'[row].revision = mailbox.next
    /\ stored.state = "completed" => stored'.state = "completed" /\ stored'.rows = stored.rows

LEMMA TellsOn ==
  ASSUME Typed, Typed', Forward, NEW rows \in Rows, NEW full \in BOOLEAN, NEW revision \in Nat,
         Tells(rows, full, revision)
  PROVE  Tells(rows, full, revision)'
<1> SUFFICES ASSUME NEW row \in Utterance, announced'[row].revision <= revision
             PROVE  /\ announced'[row].version = Callbacks!Removed => rows[row] = Callbacks!Hidden
                    /\ full => Callbacks!Covers(rows[row], announced[row].version, row)'
                    /\ ~full /\ announced'[row].revision = revision =>
                          /\ announced'[row].version # Callbacks!Removed
                          /\ Callbacks!Covers(rows[row], announced[row].version, row)'
  BY DEF Tells, Forward, Typed, Stores, Mailboxes
<1>1. announced'[row] = announced[row]
  BY DEF Forward, Tells, Typed, Stores, Mailboxes, Announcement
<1> QED
  BY <1>1 DEF Tells, Callbacks!Covers, Forward

LEMMA GoodOn ==
  ASSUME Typed, Typed', Forward, NEW e, Good(e)
  PROVE  Good(e)'
<1>1. e.rows \in Rows /\ e.full \in BOOLEAN /\ e.revision \in Nat
  BY DEF Good, Event
<1>2. Tells(e.rows, e.full, e.revision)'
  BY <1>1, TellsOn DEF Good
<1>3. TellsTheEnd(e)'
  BY DEF Good, TellsTheEnd, Callbacks!Visible, Forward
<1> QED
  BY <1>2, <1>3 DEF Good

LEMMA CheckpointIsNatural ==
  ASSUME Typed, repair.read # NoEvent
  PROVE  Callbacks!Checkpoint \in Nat /\ repair.read \in Event
BY DEF Typed, Stores, Mailboxes, Callbacks!Checkpoint, MaybeEvent, Event

(* What no step of the program's side can spoil of the client.             *)
LEMMA RepairOn ==
  ASSUME Typed, Typed', Forward, RepairOK, UNCHANGED <<client, repair>>
  PROVE  RepairOK'
<1> SUFFICES ASSUME repair.on PROVE RepairOK'
  BY DEF RepairOK
<1>1. \A e \in repair.buffer : Good(e)'
  BY GoodOn DEF RepairOK
<1>2. ASSUME repair.read # NoEvent
      PROVE  Tells(repair.read.rows, TRUE, Callbacks!Checkpoint)'
  <2> DEFINE shown == repair.read.rows
             at == Callbacks!Checkpoint
  <2>1. shown \in Rows /\ at \in Nat
    BY <1>2, CheckpointIsNatural DEF Event
  <2>2. Tells(shown, TRUE, at)
    BY <1>2 DEF RepairOK
  <2>3. shown' = shown /\ at' = at
    BY DEF Callbacks!Checkpoint
  <2> HIDE DEF shown, at
  <2>4. \A r \in Rows, n \in Nat : Tells(r, TRUE, n) => Tells(r, TRUE, n)'
    BY TellsOn
  <2>5. Tells(shown, TRUE, at)'
    BY <2>1, <2>2, <2>3, <2>4
  <2> QED
    BY <2>5 DEF shown, at
<1>3. repair.target < mailbox'.next
  BY DEF RepairOK, Forward, Typed, Stores, Mailboxes
<1> QED
  BY <1>1, <1>2, <1>3 DEF RepairOK

LEMMA ClientOn ==
  ASSUME Typed, Typed', Forward, ClientOK, UNCHANGED <<client, repair>>
  PROVE  ClientOK'
<1>1. client.rows \in Rows /\ client.last \in Nat
  BY DEF Typed, Stores, Mailboxes
<1>2. \A r \in Rows, n \in Nat : Tells(r, TRUE, n) => Tells(r, TRUE, n)'
  BY TellsOn
<1>3. client' = client /\ repair' = repair
  OBVIOUS
<1>4. client.state \notin Callbacks!Ended /\ ~repair.on => Tells(client.rows, TRUE, client.last)'
  <2> DEFINE shown == client.rows
             last == client.last
  <2>1. shown' = shown /\ last' = last /\ shown \in Rows /\ last \in Nat
    BY <1>1
  <2>2. client.state \notin Callbacks!Ended /\ ~repair.on => Tells(shown, TRUE, last)
    BY DEF ClientOK
  <2> HIDE DEF shown, last
  <2>3. client.state \notin Callbacks!Ended /\ ~repair.on => Tells(shown, TRUE, last)'
    BY <1>2, <2>1, <2>2
  <2> QED
    BY <2>3 DEF shown, last
<1>5. client.state = "completed" => client.rows = Callbacks!Visible' /\ stored'.state = "completed"
  BY DEF ClientOK, Callbacks!Visible, Forward
<1> QED
  BY <1>3, <1>4, <1>5 DEF ClientOK

(* Stations change by passing good events on.                              *)
LEMMA StationsOn ==
  ASSUME Typed, Typed', Forward, StationsOK,
         \A e \in {mailbox'.event, handed', inbox', direct'} :
            e \in {NoEvent, mailbox.event, handed, inbox, direct} \/ Good(e)'
  PROVE  StationsOK'
<1>1. \A e \in {NoEvent, mailbox.event, handed, inbox, direct} : e = NoEvent \/ Good(e)'
  BY GoodOn DEF StationsOK
<1>2. \A e \in {mailbox'.event, handed', inbox', direct'} : e = NoEvent \/ Good(e)'
  BY <1>1
<1> QED
  BY <1>2 DEF StationsOK

-----------------------------------------------------------------------------
(* Events as they are made.                                                *)
LEMMA VisibleIsRows ==
  ASSUME Callbacks!CallbackAssumption, Typed
  PROVE  /\ Callbacks!Visible \in Rows
         /\ Callbacks!Removed \in Nat /\ Callbacks!Hidden \in Versions /\ Callbacks!Removed # Callbacks!Hidden
         /\ \A row \in Utterance :
              Callbacks!Visible[row] = IF stored.rows[row] = Callbacks!Removed THEN Callbacks!Hidden ELSE stored.rows[row]
<1>1. Callbacks!Removed \in Nat /\ Callbacks!Hidden \in Versions /\ Callbacks!Removed # Callbacks!Hidden
  BY DEF Callbacks!CallbackAssumption, Callbacks!Removed, Callbacks!Hidden, Versions
<1>2. \A row \in Utterance : stored.rows[row] \in Versions
  BY DEF Typed, Stores, Mailboxes, Rows
<1> QED
  BY <1>1, <1>2 DEF Callbacks!Visible, Rows

LEMMA LoadedIsEvent ==
  ASSUME Callbacks!CallbackAssumption, Typed, NEW told \in Changes, NEW full \in BOOLEAN, NEW revision \in Nat
  PROVE  LET e == Callbacks!Loaded(told, full, revision)
         IN  /\ e \in Event
             /\ e.revision = revision /\ e.full = full /\ e.state = stored.state
             /\ e.applied = stored.applied
             /\ e.rows = [row \in Utterance |-> IF full \/ row \in told THEN Callbacks!Visible[row] ELSE Callbacks!Hidden]
             /\ full => e.rows = Callbacks!Visible
<1> DEFINE rows == [row \in Utterance |-> IF full \/ row \in told THEN Callbacks!Visible[row] ELSE Callbacks!Hidden]
<1>1. rows \in Rows
  BY VisibleIsRows DEF Rows
<1>2. full => rows = Callbacks!Visible
  BY VisibleIsRows DEF Rows
<1>3. stored.state \in States /\ stored.applied \in Nat
  BY DEF Typed, Stores, Mailboxes
<1> QED
  BY <1>1, <1>2, <1>3 DEF Callbacks!Loaded, Event

(* All the rows, read now, tell of every change told by now.               *)
LEMMA AllTells ==
  ASSUME Callbacks!CallbackAssumption, Typed, Typed', StoredOK', stored'.rows = stored.rows,
         NEW rows \in Rows, rows = Callbacks!Visible, NEW revision \in Nat, revision < mailbox'.next
  PROVE  Tells(rows, TRUE, revision)'
<1> SUFFICES ASSUME NEW row \in Utterance
             PROVE  /\ announced'[row].version = Callbacks!Removed => rows[row] = Callbacks!Hidden
                    /\ Callbacks!Covers(rows[row], announced[row].version, row)'
  BY DEF Tells
<1>1. announced'[row].version \in Versions /\ stored.rows[row] \in Versions
  BY DEF Typed, Stores, Mailboxes, Rows, Announcement
<1>2. announced'[row].version <= stored.rows[row]
  BY DEF StoredOK
<1>3. rows[row] = IF stored.rows[row] = Callbacks!Removed THEN Callbacks!Hidden ELSE stored.rows[row]
  BY VisibleIsRows
<1>4. announced'[row].version = Callbacks!Removed => stored.rows[row] = Callbacks!Removed
  BY <1>1, <1>2, VisibleIsRows DEF Versions
<1> QED
  BY <1>1, <1>2, <1>3, <1>4 DEF Callbacks!Covers, Versions

(* Some rows, sent with a new revision, tell of the change they are.       *)
LEMMA SomeTell ==
  ASSUME Callbacks!CallbackAssumption, Typed, Typed', StoredOK, StoredOK', stored'.rows = stored.rows,
         mailbox'.next = mailbox.next + 1,
         NEW told \in Changes, \A row \in told : stored.rows[row] # Callbacks!Removed,
         \A row \in Utterance :
            announced'[row] = IF row \in told THEN [revision |-> mailbox.next, version |-> stored.rows[row]]
                                             ELSE announced[row],
         NEW rows, rows = [row \in Utterance |-> IF row \in told THEN Callbacks!Visible[row] ELSE Callbacks!Hidden],
         NEW now, now = mailbox.next
  PROVE  Tells(rows, FALSE, now)'
<1>1. now \in Nat /\ now < mailbox'.next
  BY DEF Typed, Stores, Mailboxes
<1>2. ASSUME NEW row \in Utterance
      PROVE  /\ announced'[row].version = Callbacks!Removed => rows[row] = Callbacks!Hidden
             /\ announced'[row].revision = now =>
                   /\ announced'[row].version # Callbacks!Removed
                   /\ Callbacks!Covers(rows[row], announced[row].version, row)'
  <2>1. announced'[row].version \in Versions /\ stored.rows[row] \in Versions
    BY DEF Typed, Stores, Mailboxes, Rows, Announcement
  <2>2. announced'[row].version <= stored.rows[row]
    BY DEF StoredOK
  <2>3. Callbacks!Visible[row] = IF stored.rows[row] = Callbacks!Removed THEN Callbacks!Hidden ELSE stored.rows[row]
    BY VisibleIsRows
  <2>4. announced'[row].version = Callbacks!Removed => stored.rows[row] = Callbacks!Removed
    BY <2>1, <2>2, VisibleIsRows DEF Versions
  <2>5. row \notin told => announced'[row].revision # now
    BY <1>1 DEF StoredOK, Typed, Stores, Mailboxes, Announcement
  <2>6. ASSUME row \in told
        PROVE  rows[row] = stored.rows[row] /\ announced'[row].version = stored.rows[row]
    <3>1. announced'[row] = [revision |-> mailbox.next, version |-> stored.rows[row]]
      BY <2>6
    <3>2. rows[row] = Callbacks!Visible[row] /\ stored.rows[row] # Callbacks!Removed
      BY <2>6
    <3> QED BY <2>3, <3>1, <3>2
  <2>7. row \in told => Callbacks!Covers(rows[row], announced[row].version, row)'
    BY <2>1, <2>6 DEF Callbacks!Covers, Versions
  <2> QED
    BY <2>3, <2>4, <2>5, <2>6, <2>7
<1> QED
  BY <1>1, <1>2 DEF Tells

-----------------------------------------------------------------------------
(* The mailbox after a send.                                               *)
With(next, event, enqueued) ==
    [mailbox EXCEPT !.next = next, !.event = event, !.enqueued = enqueued]

LEMMA WithIsMailbox ==
  ASSUME mailbox \in Mailboxes, NEW next \in Nat \ {0}, NEW event \in MaybeEvent, NEW enqueued \in Nat
  PROVE  With(next, event, enqueued) \in Mailboxes
BY DEF With, Mailboxes

LEMMA EnqueuedHas ==
  ASSUME Typed, NEW e \in Event
  PROVE  LET m == Callbacks!Enqueued(e)
         IN  m \in Mailboxes /\ m.next = mailbox.next + 1 /\ m.event = e /\ m.closed = mailbox.closed
<1>1. mailbox \in Mailboxes /\ e.applied \in Nat /\ e \in MaybeEvent
  BY DEF Typed, Event, MaybeEvent
<1> DEFINE told == IF mailbox.enqueued < e.applied THEN e.applied ELSE mailbox.enqueued
<1>2. told \in Nat
  BY <1>1 DEF Mailboxes
<1>3. Callbacks!Enqueued(e) = [mailbox EXCEPT !.next = mailbox.next + 1, !.event = e, !.enqueued = told]
  BY DEF Callbacks!Enqueued
<1> HIDE DEF told
<1>4. Callbacks!Enqueued(e) \in Mailboxes
  <2> DEFINE after == mailbox.next + 1
  <2>1. after \in Nat \ {0}
    BY <1>1 DEF Mailboxes
  <2>2. Callbacks!Enqueued(e) = [mailbox EXCEPT !.next = after, !.event = e, !.enqueued = told]
    BY <1>3
  <2> HIDE DEF after
  <2>3. Callbacks!Enqueued(e) = With(after, e, told)
    BY <2>2 DEF With
  <2> QED
    BY <1>1, <1>2, <2>1, <2>3, WithIsMailbox
<1>5. Callbacks!Enqueued(e).next = mailbox.next + 1
  BY <1>1, <1>3 DEF Mailboxes
<1>6. Callbacks!Enqueued(e).event = e
  BY <1>1, <1>3 DEF Mailboxes
<1>7. Callbacks!Enqueued(e).closed = mailbox.closed
  BY <1>1, <1>3 DEF Mailboxes
<1> QED
  BY <1>4, <1>5, <1>6, <1>7

LEMMA RefusedHas ==
  ASSUME Typed
  PROVE  Callbacks!Refused \in Mailboxes /\ Callbacks!Refused.next = mailbox.next + 1 /\ Callbacks!Refused.event = mailbox.event
BY DEF Typed, Callbacks!Refused, Mailboxes

LEMMA SendHas ==
  ASSUME Callbacks!CallbackAssumption, Typed, NEW told \in Changes, NEW full \in BOOLEAN, Callbacks!Send(told, full)
  PROVE  /\ mailbox' \in Mailboxes /\ mailbox'.next = mailbox.next + 1
         /\ mailbox'.event \in {mailbox.event, Callbacks!Loaded(told, full, mailbox.next)}
<1>1. mailbox.next \in Nat
  BY DEF Typed, Mailboxes
<1>2. Callbacks!Loaded(told, full, mailbox.next) \in Event
  BY <1>1, LoadedIsEvent
<1> DEFINE e == Callbacks!Loaded(told, full, mailbox.next)
<1> HIDE DEF e
<1>3. mailbox' = Callbacks!Enqueued(e) \/ mailbox' = Callbacks!Refused
  BY DEF Callbacks!Send, e
<1>4. e \in Event
  BY <1>2 DEF e
<1>5. /\ mailbox' \in Mailboxes /\ mailbox'.next = mailbox.next + 1
      /\ mailbox'.event \in {mailbox.event, e}
  BY <1>3, <1>4, EnqueuedHas, RefusedHas
<1> QED
  BY <1>5 DEF e

(* A step of the program's side keeps everything if its events are good.   *)
LEMMA MildKeeps ==
  ASSUME ScreenInv, Typed', Forward, StoredOK', UNCHANGED <<client, repair>>,
         \A e \in {mailbox'.event, handed', inbox', direct'} :
            e \in {NoEvent, mailbox.event, handed, inbox, direct} \/ Good(e)'
  PROVE  ScreenInv'
BY StationsOn, RepairOn, ClientOn DEF ScreenInv

(* Rows are written: their versions only grow.                             *)
LEMMA PersistBatchKeeps ==
  ASSUME Callbacks!CallbackAssumption, ScreenInv, Callbacks!PersistBatch
  PROVE  ScreenInv'
<1> USE DEF ScreenInv
<1> PICK rows \in (SUBSET Utterance) \ {{}} :
        /\ changed = Callbacks!Nothing /\ stored.state \in {"recording", "paused", "draining"}
        /\ \A row \in rows : stored.rows[row] < MaxVersion
        /\ stored' = [stored EXCEPT !.rows =
                        [row \in Utterance |-> IF row \in rows THEN @[row] + 1 ELSE @[row]]]
        /\ changed' = [rows |-> rows, full |-> FALSE]
        /\ UNCHANGED <<owner, mailbox, handed, inbox, direct, client, repair, announced, failures>>
  BY DEF Callbacks!PersistBatch
<1> DEFINE newer == [row \in Utterance |-> IF row \in rows THEN stored.rows[row] + 1 ELSE stored.rows[row]]
<1>1. MaxVersion \in Nat /\ Callbacks!Removed = MaxVersion + 1 /\ \A row \in Utterance : stored.rows[row] \in Versions
  BY DEF Callbacks!CallbackAssumption, Callbacks!Removed, Typed, Stores, Rows
<1>2. newer \in Rows
  BY <1>1 DEF Rows, Versions
<1>3. stored' = [stored EXCEPT !.rows = newer]
  OBVIOUS
<1>4. /\ stored'.rows = newer /\ stored'.state = stored.state
      /\ stored' \in Stores
  <2> HIDE DEF newer
  <2> QED BY <1>2, <1>3 DEF Typed, Stores
<1>5. Typed'
  BY <1>4 DEF Typed, Changes
<1>6. \A row \in Utterance : /\ newer[row] >= stored.rows[row]
                             /\ stored.rows[row] = Callbacks!Removed => newer[row] = Callbacks!Removed
                             /\ row \in rows => newer[row] # Callbacks!Removed
  BY <1>1 DEF Versions
<1> HIDE DEF newer
<1>7. Forward
  BY <1>4, <1>6 DEF Forward, Typed, Mailboxes
<1>8. StoredOK'
  <2>1. ASSUME NEW row \in Utterance
        PROVE  announced'[row].version <= stored'.rows[row] /\ announced'[row].revision < mailbox'.next
    <3>1. announced[row].version \in Versions /\ stored.rows[row] \in Versions /\ newer[row] \in Versions
      BY <1>1, <1>2 DEF Typed, Announcement, Rows
    <3> QED BY <1>1, <1>4, <1>6, <3>1 DEF StoredOK, Versions
  <2>2. rows \subseteq Utterance /\ changed'.rows = rows /\ ~changed'.full
    OBVIOUS
  <2>3. stored.state # "completed"
    OBVIOUS
  <2> QED BY <1>4, <1>6, <2>1, <2>2, <2>3 DEF StoredOK
<1> QED
  BY <1>5, <1>7, <1>8, MildKeeps

LEMMA RemovePartialKeeps ==
  ASSUME Callbacks!CallbackAssumption, ScreenInv, Callbacks!RemovePartial
  PROVE  ScreenInv'
<1> USE DEF ScreenInv
<1> PICK row \in Utterance :
        /\ changed = Callbacks!Nothing /\ stored.state \in {"recording", "paused", "draining"}
        /\ stored.rows[row] \in 1..MaxVersion
        /\ stored' = [stored EXCEPT !.rows[row] = Callbacks!Removed]
        /\ changed' = [rows |-> {row}, full |-> TRUE]
        /\ UNCHANGED <<owner, mailbox, handed, inbox, direct, client, repair, announced, failures>>
  BY DEF Callbacks!RemovePartial
<1> DEFINE newer == [stored.rows EXCEPT ![row] = Callbacks!Removed]
<1>1. MaxVersion \in Nat /\ Callbacks!Removed = MaxVersion + 1 /\ Callbacks!Removed \in Versions
      /\ stored.rows \in [Utterance -> Versions]
  BY DEF Callbacks!CallbackAssumption, Callbacks!Removed, Typed, Stores, Rows, Versions
<1>2. newer \in Rows
  BY <1>1 DEF Rows
<1>3. stored' = [stored EXCEPT !.rows = newer]
  OBVIOUS
<1>4. /\ stored'.rows = newer /\ stored'.state = stored.state
      /\ stored' \in Stores
  <2> HIDE DEF newer
  <2> QED BY <1>2, <1>3 DEF Typed, Stores
<1>5. Typed'
  BY <1>4 DEF Typed, Changes
<1>6. \A r \in Utterance : newer[r] = IF r = row THEN Callbacks!Removed ELSE stored.rows[r]
  BY <1>1
<1> HIDE DEF newer
<1>7. Forward
  BY <1>4, <1>6 DEF Forward, Typed, Mailboxes
<1>8. StoredOK'
  <2>1. ASSUME NEW r \in Utterance
        PROVE  announced'[r].version <= stored'.rows[r] /\ announced'[r].revision < mailbox'.next
    <3>1. announced[r].version \in Versions
      BY <1>1, <1>2 DEF Typed, Announcement, Rows
    <3> QED BY <1>1, <1>4, <1>6, <3>1 DEF StoredOK, Versions
  <2>2. changed'.full = TRUE
    OBVIOUS
  <2>3. stored.state # "completed"
    OBVIOUS
  <2> QED BY <1>4, <2>1, <2>2, <2>3 DEF StoredOK
<1> QED
  BY <1>5, <1>7, <1>8, MildKeeps

-----------------------------------------------------------------------------
(* The steps that send.                                                    *)
LEMMA SendKeeps ==
  ASSUME Callbacks!CallbackAssumption, ScreenInv, NEW told \in Changes, NEW full \in BOOLEAN, Callbacks!Send(told, full),
         stored.state # "completed",
         ~full => \A row \in told : stored.rows[row] # Callbacks!Removed,
         \/ Callbacks!Announce(told)
         \/ told = {} /\ UNCHANGED announced,
         changed' \in {changed, Callbacks!Nothing},
         UNCHANGED <<stored, owner, handed, inbox, direct, client, repair>>
  PROVE  ScreenInv'
<1> USE DEF ScreenInv
<1>1. /\ mailbox' \in Mailboxes /\ mailbox'.next = mailbox.next + 1
      /\ mailbox'.event \in {mailbox.event, Callbacks!Loaded(told, full, mailbox.next)}
      /\ mailbox.next \in Nat
  BY SendHas DEF Typed, Mailboxes
<1>2. \A row \in Utterance :
         /\ announced'[row] = IF row \in told THEN [revision |-> mailbox.next, version |-> stored.rows[row]]
                                              ELSE announced[row]
         /\ announced'[row] \in Announcement
  BY <1>1 DEF Typed, Callbacks!Announce, Announcement, Stores, Rows
<1>3. announced' \in [Utterance -> Announcement]
  BY <1>2 DEF Typed, Callbacks!Announce
<1>4. Typed'
  <2>1. changed' \in [rows : Changes, full : BOOLEAN]
    <3>1. Callbacks!Nothing \in [rows : Changes, full : BOOLEAN]
      BY DEF Callbacks!Nothing, Changes
    <3>2. changed \in [rows : Changes, full : BOOLEAN]
      BY DEF Typed
    <3> QED BY <3>1, <3>2
  <2> QED BY <1>1, <1>3, <2>1 DEF Typed
<1>a. ASSUME NEW row \in Utterance
      PROVE  /\ row \in told => /\ announced'[row].revision = mailbox.next
                                /\ announced'[row].version = stored.rows[row]
             /\ row \notin told => announced'[row] = announced[row]
  <2>1. CASE row \in told
    <3>1. announced'[row] = [revision |-> mailbox.next, version |-> stored.rows[row]]
      BY <1>2, <2>1
    <3> QED BY <2>1, <3>1
  <2>2. CASE row \notin told
    BY <1>2, <2>2
  <2> QED BY <2>1, <2>2
<1>5. Forward
  <2>1. stored' = stored
    OBVIOUS
  <2> QED BY <1>1, <1>a, <2>1 DEF Forward
<1>6. StoredOK'
  <2>1. ASSUME NEW row \in Utterance
        PROVE  announced'[row].version <= stored'.rows[row] /\ announced'[row].revision < mailbox'.next
    <3>1. announced[row].revision \in Nat /\ stored.rows[row] \in Nat
      BY DEF Typed, Announcement, Stores, Rows, Versions
    <3>2. announced[row].version <= stored.rows[row] /\ announced[row].revision < mailbox.next
      BY DEF StoredOK
    <3>3. CASE row \in told
      BY <1>1, <1>a, <3>1, <3>3
    <3>4. CASE row \notin told
      BY <1>1, <1>a, <3>1, <3>2, <3>4
    <3> QED BY <3>3, <3>4
  <2>2. ~changed'.full => \A row \in changed'.rows : stored'.rows[row] # Callbacks!Removed
    BY DEF StoredOK, Callbacks!Nothing
  <2> QED BY <2>1, <2>2 DEF StoredOK
<1>7. ASSUME NEW e, e = Callbacks!Loaded(told, full, mailbox.next)
      PROVE  Good(e)'
  <2>1. /\ e \in Event /\ e.revision = mailbox.next /\ e.full = full /\ e.state = stored.state
        /\ e.rows = [row \in Utterance |-> IF full \/ row \in told THEN Callbacks!Visible[row] ELSE Callbacks!Hidden]
        /\ full => e.rows = Callbacks!Visible
    BY <1>1, <1>7, LoadedIsEvent
  <2>2. e.rows \in Rows /\ e.revision \in Nat /\ e.revision < mailbox'.next
    BY <1>1, <2>1 DEF Event
  <2>3. CASE full
    BY <1>4, <1>6, <2>1, <2>2, <2>3, AllTells DEF Good, TellsTheEnd
  <2>4. CASE ~full
    <3>1. e.rows = [row \in Utterance |-> IF row \in told THEN Callbacks!Visible[row] ELSE Callbacks!Hidden]
      BY <2>1, <2>4
    <3>2. Tells(e.rows, FALSE, e.revision)'
      <4>1. \A row \in told : stored.rows[row] # Callbacks!Removed
        BY <2>4
      <4> QED
        BY <1>1, <1>2, <1>4, <1>6, <2>1, <3>1, <4>1, SomeTell
    <3>3. e.full = FALSE
      BY <2>1, <2>4
    <3> QED BY <2>1, <3>2, <3>3 DEF Good, TellsTheEnd
  <2> QED BY <2>3, <2>4
<1>9. \A e \in {mailbox'.event, handed', inbox', direct'} :
         e \in {NoEvent, mailbox.event, handed, inbox, direct} \/ Good(e)'
  BY <1>1, <1>7
<1> QED
  BY <1>4, <1>5, <1>6, <1>9, MildKeeps

LEMMA EmitChangedKeeps ==
  ASSUME Callbacks!CallbackAssumption, ScreenInv, Callbacks!EmitChanged
  PROVE  ScreenInv'
<1> DEFINE told == changed.rows
           full == changed.full
<1>1. told \in Changes /\ full \in BOOLEAN
  BY DEF ScreenInv, Typed
<1>2. stored.state # "completed" /\ (~full => \A row \in told : stored.rows[row] # Callbacks!Removed)
  BY DEF ScreenInv, StoredOK, Callbacks!EmitChanged
<1>3. /\ Callbacks!Send(told, full) /\ Callbacks!Announce(told) /\ changed' = Callbacks!Nothing
      /\ UNCHANGED <<stored, owner, handed, inbox, direct, client, repair>>
  BY DEF Callbacks!EmitChanged
<1> HIDE DEF told, full
<1> QED
  BY <1>1, <1>2, <1>3, SendKeeps

LEMMA EmitProgressKeeps ==
  ASSUME Callbacks!CallbackAssumption, ScreenInv, Callbacks!EmitProgress \/ Callbacks!ProjectorWake
  PROVE  ScreenInv'
<1>1. {} \in Changes /\ FALSE \in BOOLEAN
  BY DEF Changes
<1>2. stored.state # "completed"
  BY DEF ScreenInv, StoredOK, Callbacks!EmitProgress, Callbacks!ProjectorWake
<1>3. /\ Callbacks!Send({}, FALSE) /\ changed' = changed
      /\ UNCHANGED <<stored, owner, handed, inbox, direct, client, repair, announced>>
  BY DEF Callbacks!EmitProgress, Callbacks!ProjectorWake
<1> QED
  BY <1>1, <1>2, <1>3, SendKeeps

-----------------------------------------------------------------------------
(* Events without rows, which say in what state the capture is.            *)
Bare(e) ==
    /\ e \in Event
    /\ e.revision = mailbox.next /\ e.full = FALSE /\ e.rows = Callbacks!Blank /\ e.state # "completed"

LEMMA BareIsGood ==
  ASSUME Callbacks!CallbackAssumption, Typed, Typed', StoredOK, StoredOK', stored'.rows = stored.rows,
         mailbox'.next = mailbox.next + 1, announced' = announced, NEW e, Bare(e)
  PROVE  Good(e)'
<1>1. {} \in Changes /\ e.rows = [row \in Utterance |-> IF row \in {} THEN Callbacks!Visible[row] ELSE Callbacks!Hidden]
  BY DEF Changes, Bare, Callbacks!Blank
<1>2. Tells(e.rows, FALSE, e.revision)'
  <2> DEFINE told == {}
  <2>1. \A row \in Utterance :
           announced'[row] = IF row \in told THEN [revision |-> mailbox.next, version |-> stored.rows[row]]
                                             ELSE announced[row]
    OBVIOUS
  <2>2. told \in Changes /\ (\A row \in told : stored.rows[row] # Callbacks!Removed)
        /\ e.rows = [row \in Utterance |-> IF row \in told THEN Callbacks!Visible[row] ELSE Callbacks!Hidden]
        /\ e.revision = mailbox.next
    BY <1>1 DEF Bare
  <2> HIDE DEF told
  <2> QED BY <2>1, <2>2, SomeTell
<1> QED
  BY <1>2 DEF Bare, Good, TellsTheEnd

LEMMA BareLoaded ==
  ASSUME Callbacks!CallbackAssumption, Typed
  PROVE  /\ Callbacks!Loaded({}, FALSE, mailbox.next) \in Event
         /\ Callbacks!Loaded({}, FALSE, mailbox.next).revision = mailbox.next
         /\ Callbacks!Loaded({}, FALSE, mailbox.next).full = FALSE
         /\ Callbacks!Loaded({}, FALSE, mailbox.next).rows = Callbacks!Blank
         /\ Callbacks!Loaded({}, FALSE, mailbox.next).state = stored.state
<1>1. {} \in Changes /\ FALSE \in BOOLEAN /\ mailbox.next \in Nat
  BY DEF Changes, Typed, Mailboxes
<1>2. [row \in Utterance |-> IF FALSE \/ row \in {} THEN Callbacks!Visible[row] ELSE Callbacks!Hidden] = Callbacks!Blank
  BY DEF Callbacks!Blank
<1> QED
  BY <1>1, <1>2, LoadedIsEvent

InState(event, state) == [event EXCEPT !.state = state]

LEMMA InStateIsBare ==
  ASSUME Callbacks!CallbackAssumption, Typed, NEW state \in States, state # "completed"
  PROVE  Bare(InState(Callbacks!Loaded({}, FALSE, mailbox.next), state))
<1> DEFINE e == Callbacks!Loaded({}, FALSE, mailbox.next)
<1>1. e \in Event /\ e.revision = mailbox.next /\ e.full = FALSE /\ e.rows = Callbacks!Blank
  BY BareLoaded
<1> HIDE DEF e
<1>2. Bare(InState(e, state))
  BY <1>1 DEF Bare, InState, Event
<1> QED
  BY <1>2 DEF e

LEMMA ClosedHas ==
  ASSUME NEW m \in Mailboxes
  PROVE  LET c == [m EXCEPT !.closed = TRUE]
         IN  c \in Mailboxes /\ c.next = m.next /\ c.event = m.event
BY DEF Mailboxes

(* An unstamped result shows all the rows and claims no revision.          *)
Unstamped(e) ==
    /\ e \in Event
    /\ e.revision = 0 /\ e.full = TRUE /\ e.rows = Callbacks!Visible /\ e.state # "completed"

(* A change of the capture's state that is told, or fails to be told, by a *)
(* bare event.                                                             *)
LEMMA StateKeeps ==
  ASSUME Callbacks!CallbackAssumption, ScreenInv, NEW e, Bare(e),
         stored' \in Stores, stored'.rows = stored.rows,
         stored.state # "completed", stored'.state # "completed",
         owner' \in {"active", "stopping", "dropped"},
         owner' = "active" => stored'.state \in {"recording", "paused"},
         mailbox' \in {Callbacks!Enqueued(e), Callbacks!Refused, [Callbacks!Enqueued(e) EXCEPT !.closed = TRUE]},
         direct' \in {direct, e} \/ Unstamped(direct'),
         UNCHANGED <<changed, handed, inbox, client, repair, announced>>
  PROVE  ScreenInv'
<1> USE DEF ScreenInv
<1>1. e \in Event /\ mailbox.next \in Nat
  BY DEF Bare, Typed, Mailboxes
<1>2. /\ mailbox' \in Mailboxes /\ mailbox'.next = mailbox.next + 1
      /\ mailbox'.event \in {mailbox.event, e}
  <2>1. Callbacks!Enqueued(e) \in Mailboxes /\ Callbacks!Enqueued(e).next = mailbox.next + 1 /\ Callbacks!Enqueued(e).event = e
    BY <1>1, EnqueuedHas
  <2>2. Callbacks!Refused \in Mailboxes /\ Callbacks!Refused.next = mailbox.next + 1 /\ Callbacks!Refused.event = mailbox.event
    BY RefusedHas
  <2> DEFINE sent == Callbacks!Enqueued(e)
             closed == [Callbacks!Enqueued(e) EXCEPT !.closed = TRUE]
  <2>3. closed \in Mailboxes /\ closed.next = sent.next /\ closed.event = sent.event
    BY <2>1, ClosedHas
  <2>4. mailbox' \in {sent, Callbacks!Refused, closed} /\ sent \in Mailboxes /\ sent.next = mailbox.next + 1 /\ sent.event = e
    BY <2>1
  <2> HIDE DEF sent, closed
  <2> QED BY <2>2, <2>3, <2>4
<1>3. Typed'
  BY <1>2 DEF Typed
<1>4. Forward
  BY <1>1, <1>2 DEF Forward
<1>5. StoredOK'
  <2>1. ASSUME NEW row \in Utterance
        PROVE  announced'[row].version <= stored'.rows[row] /\ announced'[row].revision < mailbox'.next
    <3>1. announced[row].revision \in Nat
      BY DEF Typed, Announcement
    <3> QED BY <1>1, <1>2, <3>1 DEF StoredOK
  <2> QED BY <2>1 DEF StoredOK
<1>6. Good(e)'
  BY <1>2, <1>3, <1>5, BareIsGood
<1>7. ASSUME NEW d, d = direct', Unstamped(d)
      PROVE  Good(d)'
  <2>1. d \in Event /\ d.revision = 0 /\ d.full = TRUE /\ d.rows = Callbacks!Visible /\ d.state # "completed"
    BY <1>7 DEF Unstamped
  <2>2. d.rows \in Rows /\ d.revision \in Nat /\ d.revision < mailbox'.next
    BY <1>1, <1>2, <2>1 DEF Event
  <2>3. Tells(d.rows, TRUE, d.revision)'
    BY <1>3, <1>5, <2>1, <2>2, AllTells
  <2> QED
    BY <2>1, <2>3 DEF Good, TellsTheEnd
<1>8. \A d \in {mailbox'.event, handed', inbox', direct'} :
         d \in {NoEvent, mailbox.event, handed, inbox, direct} \/ Good(d)'
  <2>1. \A d : d = direct' => d \in {direct, e} \/ Good(d)'
    BY <1>7
  <2> QED BY <1>2, <1>6, <2>1
<1> QED
  BY <1>3, <1>4, <1>5, <1>8, MildKeeps

LEMMA SwitchPauseKeeps ==
  ASSUME Callbacks!CallbackAssumption, ScreenInv, Callbacks!SwitchPause
  PROVE  ScreenInv'
<1> DEFINE state == IF stored.state = "paused" THEN "recording" ELSE "paused"
           e == InState(Callbacks!Loaded({}, FALSE, mailbox.next), state)
<1>1. state \in {"recording", "paused"}
  OBVIOUS
<1>2. stored \in Stores
  BY DEF ScreenInv, Typed
<1>3. stored' = [stored EXCEPT !.state = state]
  BY DEF Callbacks!SwitchPause
<1>4. /\ direct' = e /\ mailbox' \in {Callbacks!Enqueued(e), Callbacks!Refused}
      /\ UNCHANGED <<changed, owner, handed, inbox, client, repair, announced>>
  <2>1. [stored EXCEPT !.state = state].state = state
    BY <1>2 DEF Stores
  <2> QED BY <2>1 DEF Callbacks!SwitchPause, InState
<1>5. Bare(e)
  <2>1. state \in States /\ state # "completed"
    BY <1>1 DEF States
  <2> HIDE DEF state
  <2> QED BY <2>1, InStateIsBare DEF ScreenInv
<1>6. stored' \in Stores /\ stored'.rows = stored.rows /\ stored'.state = state
  <2>1. state \in States
    BY <1>1 DEF States
  <2> HIDE DEF state
  <2> QED BY <1>2, <1>3, <2>1 DEF Stores
<1>7. stored.state # "completed" /\ owner' \in {"active", "stopping", "dropped"}
  BY <1>4 DEF Callbacks!SwitchPause, ScreenInv, StoredOK, Typed
<1> HIDE DEF e, state
<1>8. /\ stored'.state # "completed"
      /\ owner' = "active" => stored'.state \in {"recording", "paused"}
      /\ mailbox' \in {Callbacks!Enqueued(e), Callbacks!Refused, [Callbacks!Enqueued(e) EXCEPT !.closed = TRUE]}
      /\ direct' \in {direct, e} \/ Unstamped(direct')
  BY <1>1, <1>4, <1>6
<1> QED
  BY <1>4, <1>5, <1>6, <1>7, <1>8, StateKeeps

LEMMA BeginStopKeeps ==
  ASSUME Callbacks!CallbackAssumption, ScreenInv, Callbacks!BeginStop
  PROVE  ScreenInv'
<1> DEFINE e == InState(Callbacks!Loaded({}, FALSE, mailbox.next), "draining")
<1>1. stored \in Stores /\ "draining" \in States
  BY DEF ScreenInv, Typed, States
<1>2. /\ stored' = [stored EXCEPT !.state = "draining"] /\ owner' = "stopping"
      /\ mailbox' \in {Callbacks!Enqueued(e), Callbacks!Refused}
      /\ UNCHANGED <<changed, handed, inbox, direct, client, repair, announced>>
  BY DEF Callbacks!BeginStop, InState
<1>3. Bare(e)
  BY <1>1, InStateIsBare DEF ScreenInv
<1>4. stored' \in Stores /\ stored'.rows = stored.rows /\ stored'.state = "draining"
  BY <1>1, <1>2 DEF Stores
<1>5. stored.state # "completed"
  BY DEF Callbacks!BeginStop, ScreenInv, StoredOK
<1> HIDE DEF e
<1>6. /\ stored'.state # "completed" /\ owner' \in {"active", "stopping", "dropped"}
      /\ owner' = "active" => stored'.state \in {"recording", "paused"}
      /\ mailbox' \in {Callbacks!Enqueued(e), Callbacks!Refused, [Callbacks!Enqueued(e) EXCEPT !.closed = TRUE]}
      /\ direct' \in {direct, e} \/ Unstamped(direct')
  BY <1>2, <1>4
<1> QED
  BY <1>2, <1>3, <1>4, <1>5, <1>6, StateKeeps

LEMMA FailStopKeeps ==
  ASSUME Callbacks!CallbackAssumption, ScreenInv, Callbacks!FailStop
  PROVE  ScreenInv'
<1> DEFINE e == InState(Callbacks!Loaded({}, FALSE, mailbox.next), "interrupted")
           whole == Callbacks!Loaded(Utterance, TRUE, 0)
<1>1. stored \in Stores /\ "interrupted" \in States
  BY DEF ScreenInv, Typed, States
<1>2. /\ stored' = [stored EXCEPT !.state = "interrupted"] /\ owner' = "dropped"
      /\ mailbox' \in {Callbacks!Refused, [Callbacks!Enqueued(e) EXCEPT !.closed = TRUE]}
      /\ direct' = InState(whole, "interrupted")
      /\ UNCHANGED <<changed, handed, inbox, client, repair, announced>>
  BY DEF Callbacks!FailStop, InState
<1>3. Bare(e)
  BY <1>1, InStateIsBare DEF ScreenInv
<1>4. stored' \in Stores /\ stored'.rows = stored.rows /\ stored'.state = "interrupted"
  BY <1>1, <1>2 DEF Stores
<1>5. stored.state # "completed"
  BY DEF Callbacks!FailStop
<1>6. Unstamped(direct')
  <2>1. Utterance \in Changes /\ TRUE \in BOOLEAN /\ 0 \in Nat
    BY DEF Changes
  <2>2. whole \in Event /\ whole.revision = 0 /\ whole.full = TRUE /\ whole.rows = Callbacks!Visible
    BY <2>1, LoadedIsEvent DEF ScreenInv
  <2> HIDE DEF whole
  <2>3. Unstamped(InState(whole, "interrupted"))
    BY <1>1, <2>2 DEF Unstamped, InState, Event
  <2> DEFINE d == InState(whole, "interrupted")
  <2>4. \A x : x = d => (x \in Event /\ x.revision = 0 /\ x.full = TRUE /\ x.rows = Callbacks!Visible /\ x.state # "completed")
    BY <2>3 DEF Unstamped
  <2>5. direct' = d
    BY <1>2
  <2> HIDE DEF d
  <2> QED BY <2>4, <2>5 DEF Unstamped
<1> HIDE DEF e, whole
<1>7. /\ stored'.state # "completed" /\ owner' \in {"active", "stopping", "dropped"}
      /\ owner' = "active" => stored'.state \in {"recording", "paused"}
      /\ mailbox' \in {Callbacks!Enqueued(e), Callbacks!Refused, [Callbacks!Enqueued(e) EXCEPT !.closed = TRUE]}
  BY <1>2, <1>4
<1> QED
  BY <1>2, <1>3, <1>4, <1>5, <1>6, <1>7, StateKeeps

-----------------------------------------------------------------------------
(* An acknowledgement rewrites the watermark of what is pending.           *)
LEMMA AcknowledgeKeeps ==
  ASSUME Callbacks!CallbackAssumption, ScreenInv, Callbacks!Acknowledge
  PROVE  ScreenInv'
<1> DEFINE applied == stored.applied + 1
           e == [Callbacks!Loaded({}, FALSE, mailbox.next) EXCEPT !.applied = applied]
           pending == [mailbox.event EXCEPT !.applied = applied]
<1> USE DEF ScreenInv
<1>1. stored \in Stores /\ applied \in Nat /\ mailbox \in Mailboxes /\ mailbox.next \in Nat
  BY DEF Typed, Stores, Mailboxes
<1>2. /\ stored' = [stored EXCEPT !.applied = applied]
      /\ UNCHANGED <<changed, owner, handed, inbox, direct, client, repair, announced>>
      /\ owner = "active"
  BY DEF Callbacks!Acknowledge
<1>3. stored' \in Stores /\ stored'.rows = stored.rows /\ stored'.state = stored.state
  <2> HIDE DEF applied
  <2> QED BY <1>1, <1>2 DEF Stores
<1>4. stored.state # "completed"
  BY <1>2 DEF StoredOK
<1>5. CASE UNCHANGED mailbox
  <2>1. Typed'
    BY <1>2, <1>3, <1>5 DEF Typed
  <2>2. Forward
    BY <1>1, <1>2, <1>3, <1>5 DEF Forward
  <2>3. StoredOK'
    BY <1>2, <1>3, <1>5 DEF StoredOK
  <2> QED BY <1>2, <1>5, <2>1, <2>2, <2>3, MildKeeps
<1>6. CASE mailbox.event # NoEvent /\ mailbox' = [mailbox EXCEPT !.event = pending, !.enqueued = applied]
  <2>1. mailbox.event \in Event /\ Good(mailbox.event)
    BY <1>1, <1>6 DEF Mailboxes, MaybeEvent, StationsOK
  <2>2. /\ pending \in Event /\ pending.revision = mailbox.event.revision /\ pending.full = mailbox.event.full
        /\ pending.rows = mailbox.event.rows /\ pending.state = mailbox.event.state
    <3> HIDE DEF applied
    <3> QED BY <1>1, <2>1 DEF Event
  <2>3. Good(pending)
    <3> HIDE DEF pending
    <3> QED BY <2>1, <2>2 DEF Good, TellsTheEnd
  <2> HIDE DEF applied, pending
  <2>4. mailbox' \in Mailboxes /\ mailbox'.next = mailbox.next /\ mailbox'.event = pending
    <3>1. pending \in MaybeEvent
      BY <2>2 DEF MaybeEvent
    <3> QED BY <1>1, <1>6, <3>1 DEF Mailboxes
  <2>5. Typed'
    BY <1>2, <1>3, <2>4 DEF Typed
  <2>6. Forward
    BY <1>1, <1>2, <1>3, <2>4 DEF Forward
  <2>7. StoredOK'
    BY <1>2, <1>3, <2>4 DEF StoredOK
  <2>8. \A x : x = pending => Good(x)'
    BY <2>3, <2>5, <2>6, GoodOn
  <2> QED BY <1>2, <2>4, <2>5, <2>6, <2>7, <2>8, MildKeeps
<1>7. CASE mailbox' = Callbacks!Enqueued(e)
  <2>1. Bare(e)
    <3> DEFINE l == Callbacks!Loaded({}, FALSE, mailbox.next)
    <3>1. l \in Event /\ l.revision = mailbox.next /\ l.full = FALSE /\ l.rows = Callbacks!Blank /\ l.state = stored.state
      BY BareLoaded
    <3> HIDE DEF l, applied
    <3>2. Bare([l EXCEPT !.applied = applied])
      BY <1>1, <1>4, <3>1 DEF Bare, Event
    <3> QED BY <3>2 DEF l
  <2> HIDE DEF e
  <2>2. owner' \in {"active", "stopping", "dropped"}
    BY <1>2
  <2>3. stored'.state \in {"recording", "paused"}
    BY <1>2, <1>3 DEF StoredOK
  <2> QED
    BY <1>2, <1>3, <1>4, <1>7, <2>1, <2>2, <2>3, StateKeeps
<1> QED
  <2>1. \/ UNCHANGED mailbox
        \/ mailbox.event # NoEvent /\ mailbox' = [mailbox EXCEPT !.event.applied = applied, !.enqueued = applied]
        \/ mailbox' = Callbacks!Enqueued(e)
    BY DEF Callbacks!Acknowledge
  <2>2. [mailbox EXCEPT !.event.applied = applied, !.enqueued = applied]
           = [mailbox EXCEPT !.event = pending, !.enqueued = applied]
    <3> HIDE DEF applied
    <3> QED BY <1>1 DEF Mailboxes
  <2> QED BY <1>5, <1>6, <1>7, <2>1, <2>2

-----------------------------------------------------------------------------
(* The end of a run, and what it returns.                                  *)
LEMMA CompleteRunKeeps ==
  ASSUME Callbacks!CallbackAssumption, ScreenInv, Callbacks!CompleteRun
  PROVE  ScreenInv'
<1> USE DEF ScreenInv
<1> PICK rows \in SUBSET {row \in Utterance : stored.rows[row] \in 1..(MaxVersion - 1)} :
        stored' = [stored EXCEPT !.state = "completed",
                                 !.rows = [row \in Utterance |->
                                      IF row \in rows THEN @[row] + 1 ELSE @[row]]]
  BY DEF Callbacks!CompleteRun
<1> DEFINE newer == [row \in Utterance |-> IF row \in rows THEN stored.rows[row] + 1 ELSE stored.rows[row]]
<1>1. MaxVersion \in Nat /\ Callbacks!Removed = MaxVersion + 1 /\ \A row \in Utterance : stored.rows[row] \in Versions
  BY DEF Callbacks!CallbackAssumption, Callbacks!Removed, Typed, Stores, Rows
<1>2. newer \in Rows
  BY <1>1 DEF Rows, Versions
<1>3. stored' = [stored EXCEPT !.state = "completed", !.rows = newer]
  OBVIOUS
<1>4. stored'.rows = newer /\ stored'.state = "completed" /\ stored' \in Stores
  <2>1. "completed" \in States
    BY DEF States
  <2> HIDE DEF newer
  <2> QED BY <1>2, <1>3, <2>1 DEF Typed, Stores
<1>5. /\ stored.state = "draining" /\ changed = Callbacks!Nothing
      /\ UNCHANGED <<changed, owner, mailbox, handed, inbox, direct, client, repair, announced, failures>>
  BY DEF Callbacks!CompleteRun
<1>6. Typed'
  BY <1>4, <1>5 DEF Typed
<1>7. \A row \in Utterance : /\ newer[row] >= stored.rows[row]
                             /\ stored.rows[row] = Callbacks!Removed => newer[row] = Callbacks!Removed
  BY <1>1 DEF Versions
<1> HIDE DEF newer
<1>8. Forward
  BY <1>4, <1>5, <1>7 DEF Forward, Typed, Mailboxes
<1>9. StoredOK'
  <2>1. ASSUME NEW row \in Utterance
        PROVE  announced'[row].version <= stored'.rows[row] /\ announced'[row].revision < mailbox'.next
    <3>1. announced[row].version \in Versions /\ stored.rows[row] \in Versions /\ newer[row] \in Versions
      BY <1>1, <1>2 DEF Typed, Announcement, Rows
    <3> QED BY <1>1, <1>4, <1>5, <1>7, <3>1 DEF StoredOK, Versions
  <2>2. owner # "active"
    BY <1>5 DEF StoredOK
  <2>3. changed.rows = {}
    BY <1>5 DEF Callbacks!Nothing
  <2> QED BY <1>4, <1>5, <2>1, <2>2, <2>3 DEF StoredOK
<1> QED
  BY <1>5, <1>6, <1>8, <1>9, MildKeeps

LEMMA ReturnStopKeeps ==
  ASSUME Callbacks!CallbackAssumption, ScreenInv, Callbacks!ReturnStop
  PROVE  ScreenInv'
<1> USE DEF ScreenInv
<1> DEFINE e == Callbacks!Loaded(Utterance, TRUE, mailbox.next)
<1>1. mailbox.next \in Nat /\ mailbox \in Mailboxes /\ Utterance \in Changes
  BY DEF Typed, Mailboxes, Changes
<1>2. e \in Event /\ e.revision = mailbox.next /\ e.full = TRUE /\ e.rows = Callbacks!Visible /\ e.state = "completed"
  BY <1>1, LoadedIsEvent DEF Callbacks!ReturnStop
<1>3. /\ mailbox' \in {[Callbacks!Enqueued(e) EXCEPT !.closed = TRUE], Callbacks!Refused, [Callbacks!Refused EXCEPT !.closed = TRUE]}
      /\ direct' = e /\ owner' = "dropped"
      /\ Callbacks!Announce(Utterance)
      /\ UNCHANGED <<stored, changed, handed, inbox, client, repair>>
  BY DEF Callbacks!ReturnStop
<1> HIDE DEF e
<1>4. mailbox' \in Mailboxes /\ mailbox'.next = mailbox.next + 1 /\ mailbox'.event \in {mailbox.event, e}
  <2> DEFINE sent == Callbacks!Enqueued(e)
             closed == [Callbacks!Enqueued(e) EXCEPT !.closed = TRUE]
             refused == [Callbacks!Refused EXCEPT !.closed = TRUE]
  <2>1. sent \in Mailboxes /\ sent.next = mailbox.next + 1 /\ sent.event = e
    BY <1>2, EnqueuedHas
  <2>2. Callbacks!Refused \in Mailboxes /\ Callbacks!Refused.next = mailbox.next + 1 /\ Callbacks!Refused.event = mailbox.event
    BY RefusedHas
  <2>3. closed \in Mailboxes /\ closed.next = sent.next /\ closed.event = sent.event
    BY <2>1, ClosedHas
  <2>4. refused \in Mailboxes /\ refused.next = Callbacks!Refused.next /\ refused.event = Callbacks!Refused.event
    BY <2>2, ClosedHas
  <2>5. mailbox' \in {closed, Callbacks!Refused, refused}
    BY <1>3
  <2> HIDE DEF sent, closed, refused
  <2> QED BY <2>1, <2>2, <2>3, <2>4, <2>5
<1>5. \A row \in Utterance :
         /\ announced'[row] = [revision |-> mailbox.next, version |-> stored.rows[row]]
         /\ announced'[row].revision = mailbox.next /\ announced'[row].version = stored.rows[row]
         /\ announced'[row] \in Announcement
  BY <1>1, <1>3 DEF Callbacks!Announce, Announcement, Typed, Stores, Rows
<1>6. announced' \in [Utterance -> Announcement]
  BY <1>3, <1>5 DEF Callbacks!Announce
<1>7. Typed'
  BY <1>2, <1>3, <1>4, <1>6 DEF Typed
<1>8. Forward
  <2>1. stored' = stored
    BY <1>3
  <2>2. mailbox'.next >= mailbox.next
    BY <1>1, <1>4
  <2>3. \A row \in Utterance : announced'[row].revision = mailbox.next
    BY <1>5
  <2> QED BY <2>1, <2>2, <2>3 DEF Forward
<1>9. StoredOK'
  <2>1. ASSUME NEW row \in Utterance
        PROVE  announced'[row].version <= stored'.rows[row] /\ announced'[row].revision < mailbox'.next
    <3>1. stored.rows[row] \in Nat
      BY DEF Typed, Stores, Rows, Versions
    <3>2. announced'[row].version = stored.rows[row] /\ announced'[row].revision = mailbox.next
      BY <1>5
    <3>3. stored' = stored /\ mailbox.next \in Nat /\ mailbox'.next = mailbox.next + 1
      BY <1>1, <1>3, <1>4
    <3> QED BY <3>1, <3>2, <3>3
  <2> QED BY <1>3, <2>1 DEF StoredOK
<1>10. \A x : x = e => Good(x)'
  <2> SUFFICES ASSUME NEW x, x = e PROVE Good(x)'
    OBVIOUS
  <2>1. x \in Event /\ x.revision = mailbox.next /\ x.full = TRUE /\ x.rows = Callbacks!Visible /\ x.state = "completed"
    BY <1>2
  <2>2. x.rows \in Rows /\ x.revision \in Nat /\ x.revision < mailbox'.next
    BY <1>1, <1>4, <2>1 DEF Event
  <2>3. Tells(x.rows, TRUE, x.revision)'
    BY <1>3, <1>7, <1>9, <2>1, <2>2, AllTells
  <2>4. stored'.state = "completed" /\ x.rows = Callbacks!Visible'
    BY <1>3, <2>1 DEF Callbacks!ReturnStop, Callbacks!Visible
  <2> QED
    BY <2>1, <2>3, <2>4 DEF Good, TellsTheEnd
<1> QED
  BY <1>3, <1>4, <1>7, <1>8, <1>9, <1>10, MildKeeps

-----------------------------------------------------------------------------
(* Events change hands, or are lost.                                       *)
LEMMA HandKeeps ==
  ASSUME ScreenInv, Callbacks!Panic \/ Callbacks!Deliver \/ Callbacks!Submit
  PROVE  ScreenInv'
<1> USE DEF ScreenInv
<1>1. /\ mailbox' \in Mailboxes /\ mailbox'.next = mailbox.next
      /\ mailbox'.event \in {NoEvent, mailbox.event}
      /\ mailbox.next \in Nat
  BY DEF Callbacks!Panic, Callbacks!Deliver, Callbacks!Submit, Typed, Mailboxes, MaybeEvent
<1>2. /\ handed' \in {NoEvent, mailbox.event} /\ inbox' \in {inbox, handed}
      /\ UNCHANGED <<stored, changed, owner, direct, client, repair, announced>>
  BY DEF Callbacks!Panic, Callbacks!Deliver, Callbacks!Submit
<1>3. Typed'
  BY <1>1, <1>2 DEF Typed
<1>4. Forward
  BY <1>1, <1>2 DEF Forward
<1>5. StoredOK'
  BY <1>1, <1>2 DEF StoredOK
<1> QED
  BY <1>1, <1>2, <1>3, <1>4, <1>5, MildKeeps

(* A snapshot is all the rows, at the last revision or unstamped.          *)
LEMMA SnapshotIs ==
  ASSUME Callbacks!CallbackAssumption, ScreenInv
  PROVE  /\ Callbacks!Snapshot \in Event /\ Callbacks!Snapshot.full = TRUE /\ Callbacks!Snapshot.rows = Callbacks!Visible
         /\ Callbacks!Snapshot.revision = (IF owner = "active" THEN mailbox.next - 1 ELSE 0)
         /\ Callbacks!Snapshot.state = stored.state
         /\ mailbox.next - 1 \in Nat
<1> DEFINE dated == IF owner = "active" THEN mailbox.next - 1 ELSE 0
<1>1. mailbox.next - 1 \in Nat /\ dated \in Nat /\ Utterance \in Changes /\ TRUE \in BOOLEAN
  BY DEF ScreenInv, Typed, Mailboxes, Changes
<1>2. Callbacks!Snapshot = Callbacks!Loaded(Utterance, TRUE, dated)
  BY DEF Callbacks!Snapshot
<1> HIDE DEF dated
<1>3. /\ Callbacks!Snapshot \in Event /\ Callbacks!Snapshot.full = TRUE /\ Callbacks!Snapshot.rows = Callbacks!Visible
      /\ Callbacks!Snapshot.revision = dated /\ Callbacks!Snapshot.state = stored.state
  BY <1>1, <1>2, LoadedIsEvent DEF ScreenInv
<1> QED
  BY <1>1, <1>3 DEF dated

-----------------------------------------------------------------------------
(* Least and greatest members, and the end of a run without a gap.         *)
LEMMA Least ==
  ASSUME NEW S \in SUBSET Nat, S # {}
  PROVE  \E m \in S : \A s \in S : m <= s
<1> DEFINE R == OpToRel(<, Nat)
<1>1. IsWellFoundedOn(R, Nat)
  BY NatLessThanWellFounded
<1>2. \A x, y \in Nat : <<x, y>> \in R <=> x < y
  BY DEF OpToRel
<1> HIDE DEF R
<1>3. \E m \in S : \A s \in S : ~(<<s, m>> \in R)
  BY <1>1, WFMin
<1>4. PICK m \in S : \A s \in S : ~(<<s, m>> \in R)
  BY <1>3
<1>5. ASSUME NEW s \in S PROVE m <= s
  <2>1. s \in Nat /\ m \in Nat /\ ~(<<s, m>> \in R)
    BY <1>4
  <2>2. ~(s < m)
    BY <1>2, <2>1
  <2> QED BY <2>1, <2>2
<1> QED
  BY <1>5

LEMMA Greatest ==
  ASSUME NEW S \in SUBSET Nat, S # {}, NEW b \in Nat, \A s \in S : s <= b
  PROVE  \E m \in S : \A s \in S : s <= m
<1> DEFINE T == {b - s : s \in S}
<1>1. T \in SUBSET Nat /\ T # {}
  <2>1. \A s \in S : b - s \in Nat
    OBVIOUS
  <2>2. PICK s \in S : TRUE
    OBVIOUS
  <2>3. b - s \in T
    OBVIOUS
  <2> QED BY <2>1, <2>3
<1> HIDE DEF T
<1>2. PICK t \in T : \A u \in T : t <= u
  BY <1>1, Least
<1>3. PICK m \in S : t = b - m
  BY DEF T
<1>4. ASSUME NEW s \in S PROVE s <= m
  <2>1. b - s \in T
    BY DEF T
  <2>2. s \in Nat /\ m \in Nat
    OBVIOUS
  <2> QED BY <1>2, <1>3, <2>1, <2>2
<1> QED
  BY <1>4

LEMMA RunEnds ==
  ASSUME NEW ends \in SUBSET Nat, NEW c \in ends, NEW b \in Nat, \A m \in ends : m <= b
  PROVE  \E r \in ends : /\ \A m \in (c + 1)..r : m \in ends
                         /\ r + 1 \notin ends
<1> DEFINE S == {n \in Nat : c <= n /\ n + 1 \notin ends}
<1>1. S \in SUBSET Nat /\ S # {}
  <2>1. b \in S
    OBVIOUS
  <2> QED BY <2>1
<1>2. PICK r \in S : \A s \in S : r <= s
  <2> HIDE DEF S
  <2> QED BY <1>1, Least
<1>3. \A k \in c..(r - 1) : k + 1 \in ends
  BY <1>2
<1>4. \A m \in (c + 1)..r : m \in ends
  <2> SUFFICES ASSUME NEW m \in (c + 1)..r PROVE m \in ends
    OBVIOUS
  <2>1. m - 1 \in c..(r - 1) /\ (m - 1) + 1 = m
    BY <1>2
  <2> QED BY <1>3, <2>1
<1>5. r \in ends
  <2>1. CASE r = c
    BY <2>1
  <2>2. CASE r # c
    <3>1. r \in (c + 1)..r
      BY <1>2, <2>2
    <3> QED BY <1>4, <3>1
  <2> QED BY <2>1, <2>2
<1> QED
  BY <1>2, <1>4, <1>5

-----------------------------------------------------------------------------
(* Steps of the client.  What the screen and the repair have to satisfy    *)
(* after a step that changes nothing else.                                 *)
LEMMA ClientBecomes ==
  ASSUME UNCHANGED <<stored, mailbox, announced>>,
         NEW rows, NEW last, client'.rows = rows, client'.last = last,
         client'.state \notin Callbacks!Ended /\ ~repair'.on => Tells(rows, TRUE, last),
         client'.state = "completed" => rows = Callbacks!Visible /\ stored.state = "completed"
  PROVE  ClientOK'
<1>1. Tells(rows, TRUE, last) => Tells(client.rows, TRUE, client.last)'
  BY DEF Tells, Callbacks!Covers
<1> QED
  BY <1>1 DEF ClientOK, Callbacks!Visible

LEMMA RepairBecomes ==
  ASSUME UNCHANGED <<stored, mailbox, announced>>,
         repair'.on =>
            /\ client'.state \notin Callbacks!Ended
            /\ client'.last = repair'.target /\ repair'.asked <= repair'.target
            /\ repair'.target < mailbox.next
            /\ \A e \in repair'.buffer : Good(e) /\ ~e.full /\ e.revision <= repair'.target,
         NEW shown, NEW at, shown = repair'.read.rows, at = Callbacks!Checkpoint',
         repair'.on /\ repair'.read # NoEvent => Tells(shown, TRUE, at)
  PROVE  RepairOK'
<1>1. Tells(shown, TRUE, at) => Tells(repair.read.rows, TRUE, Callbacks!Checkpoint)'
  BY DEF Tells, Callbacks!Covers, Callbacks!Checkpoint
<1>2. \A e : Good(e) => Good(e)'
  BY DEF Good, Tells, Callbacks!Covers, TellsTheEnd, Callbacks!Visible
<1> QED
  BY <1>1, <1>2 DEF RepairOK

LEMMA OtherwiseSame ==
  ASSUME ScreenInv, Typed', UNCHANGED <<stored, changed, owner, mailbox, announced>>,
         RepairOK', ClientOK',
         \A e \in {handed', inbox', direct'} :
            e \in {NoEvent, mailbox.event, handed, inbox, direct} \/ Good(e)'
  PROVE  ScreenInv'
<1>1. Forward
  BY DEF Forward, ScreenInv, Typed, Mailboxes
<1>2. StoredOK'
  BY DEF ScreenInv, StoredOK
<1>3. StationsOK'
  BY <1>1, StationsOn DEF ScreenInv
<1> QED
  BY <1>2, <1>3 DEF ScreenInv

LEMMA ReadAfterFailedPauseKeeps ==
  ASSUME Callbacks!CallbackAssumption, ScreenInv, Callbacks!ReadAfterFailedPause
  PROVE  ScreenInv'
<1>1. /\ direct' = Callbacks!Snapshot
      /\ UNCHANGED <<stored, changed, owner, mailbox, handed, inbox, client, repair, announced>>
      /\ owner = "active"
  BY DEF Callbacks!ReadAfterFailedPause
<1>2. Typed' /\ StoredOK' /\ Forward
  <2>1. Callbacks!Snapshot \in Event
    BY SnapshotIs
  <2> QED BY <1>1, <2>1 DEF ScreenInv, Typed, StoredOK, Forward, Mailboxes
<1>3. \A x : x = Callbacks!Snapshot => Good(x)'
  <2> SUFFICES ASSUME NEW x, x = Callbacks!Snapshot PROVE Good(x)'
    OBVIOUS
  <2>1. /\ x \in Event /\ x.full = TRUE /\ x.rows = Callbacks!Visible /\ x.revision = mailbox.next - 1
        /\ x.state = stored.state /\ x.state # "completed" /\ mailbox.next - 1 \in Nat
    BY <1>1, SnapshotIs DEF ScreenInv, StoredOK
  <2>2. x.rows \in Rows /\ x.revision \in Nat /\ x.revision < mailbox'.next
    <3>1. mailbox'.next = mailbox.next /\ mailbox.next \in Nat
      BY <1>1 DEF ScreenInv, Typed, Mailboxes
    <3> QED BY <2>1, <3>1 DEF Event
  <2>3. Tells(x.rows, TRUE, x.revision)'
    BY <1>1, <1>2, <2>1, <2>2, AllTells DEF ScreenInv
  <2> QED
    BY <2>1, <2>3 DEF Good, TellsTheEnd
<1> QED
  BY <1>1, <1>2, <1>3, MildKeeps

LEMMA ReadSnapshotKeeps ==
  ASSUME Callbacks!CallbackAssumption, ScreenInv, Callbacks!ReadSnapshot
  PROVE  ScreenInv'
<1> DEFINE read == Callbacks!Snapshot
           at == IF read.revision = 0 THEN repair.asked ELSE read.revision
<1>1. /\ repair.on /\ repair' = [repair EXCEPT !.read = read]
      /\ UNCHANGED <<stored, changed, owner, mailbox, handed, inbox, direct, client, announced>>
  BY DEF Callbacks!ReadSnapshot
<1>2. read \in Event /\ read.full = TRUE /\ read.rows = Callbacks!Visible
      /\ read.revision \in {mailbox.next - 1, 0} /\ mailbox.next - 1 \in Nat
  BY SnapshotIs
<1> HIDE DEF read
<1>3. repair'.on = repair.on /\ repair'.target = repair.target /\ repair'.asked = repair.asked
      /\ repair'.buffer = repair.buffer /\ repair'.read = read
  BY <1>1 DEF ScreenInv, Typed
<1>4. Typed'
  <2>1. read \in MaybeEvent
    BY <1>2 DEF MaybeEvent
  <2> QED BY <1>1, <2>1 DEF ScreenInv, Typed
<1>5. StoredOK'
  BY <1>1 DEF ScreenInv, StoredOK
<1>6. at \in Nat /\ at < mailbox'.next
  BY <1>1, <1>2 DEF ScreenInv, Typed, RepairOK, Mailboxes
<1>7. Callbacks!Checkpoint' = at
  BY <1>3 DEF Callbacks!Checkpoint
<1>8. Tells(Callbacks!Visible, TRUE, at)
  <2>1. Callbacks!Visible \in Rows /\ stored' = stored
    BY <1>1, VisibleIsRows DEF ScreenInv
  <2> HIDE DEF at
  <2>2. \A x \in Rows, n \in Nat : x = Callbacks!Visible /\ n < mailbox'.next => Tells(x, TRUE, n)'
    BY <1>4, <1>5, <2>1, AllTells DEF ScreenInv
  <2>3. \A x \in Rows, n \in Nat : Tells(x, TRUE, n)' => Tells(x, TRUE, n)
    BY <1>1 DEF Tells, Callbacks!Covers
  <2> QED BY <1>6, <2>1, <2>2, <2>3
<1>9. RepairOK'
  <2> HIDE DEF at
  <2> QED
    BY <1>1, <1>2, <1>3, <1>7, <1>8, RepairBecomes DEF ScreenInv, RepairOK
<1>10. ClientOK'
  BY <1>1, <1>3, ClientBecomes DEF ScreenInv, ClientOK
<1> QED
  BY <1>1, <1>4, <1>9, <1>10, OtherwiseSame

-----------------------------------------------------------------------------
(* The rows of an event in its turn, on a screen that has all before it.   *)
LEMMA UpsertedRows ==
  ASSUME Callbacks!CallbackAssumption, NEW shown \in Rows, NEW rows \in Rows
  PROVE  /\ Callbacks!Upserted(shown, rows) \in Rows
         /\ \A row \in Utterance :
              /\ shown[row] \in Nat /\ rows[row] \in Nat /\ Callbacks!Upserted(shown, rows)[row] \in {shown[row], rows[row]}
              /\ Callbacks!Upserted(shown, rows)[row] >= shown[row] /\ Callbacks!Upserted(shown, rows)[row] >= rows[row]
<1>1. Callbacks!Removed \in Nat
  BY DEF Callbacks!CallbackAssumption, Callbacks!Removed
<1>2. \A row \in Utterance : shown[row] \in Versions /\ rows[row] \in Versions
  BY DEF Rows
<1> QED
  BY <1>1, <1>2 DEF Callbacks!Upserted, Rows, Versions

LEMMA UpsertedTells ==
  ASSUME Callbacks!CallbackAssumption, Typed, NEW shown \in Rows, NEW last \in Nat, Tells(shown, TRUE, last),
         NEW e, Good(e), ~e.full, e.revision = last + 1
  PROVE  Tells(Callbacks!Upserted(shown, e.rows), TRUE, e.revision)
<1> DEFINE up == Callbacks!Upserted(shown, e.rows)
<1>1. e \in Event /\ e.rows \in Rows /\ e.revision \in Nat /\ Tells(e.rows, e.full, e.revision)
  BY DEF Good, Event
<1>2. \A row \in Utterance :
        /\ shown[row] \in Nat /\ e.rows[row] \in Nat /\ up[row] \in {shown[row], e.rows[row]}
        /\ up[row] >= shown[row] /\ up[row] >= e.rows[row]
  BY <1>1, UpsertedRows
<1> HIDE DEF up
<1>3. ASSUME NEW row \in Utterance, announced[row].revision <= e.revision
      PROVE  /\ announced[row].version = Callbacks!Removed => up[row] = Callbacks!Hidden
             /\ Callbacks!Covers(up[row], announced[row].version, row)
  <2>1. /\ announced[row].revision \in Nat /\ announced[row].version \in Nat
        /\ up[row] \in Nat
        /\ shown[row] \in Nat /\ e.rows[row] \in Nat
    BY <1>2 DEF Typed, Announcement, Versions
  <2>2. CASE announced[row].revision <= last
    <3>1. Callbacks!Covers(shown[row], announced[row].version, row)
      BY <2>2 DEF Tells
    <3>2. announced[row].version = Callbacks!Removed => shown[row] = Callbacks!Hidden /\ e.rows[row] = Callbacks!Hidden
      BY <1>1, <1>3, <2>2 DEF Tells
    <3> QED BY <1>2, <2>1, <3>1, <3>2 DEF Callbacks!Covers
  <2>3. CASE announced[row].revision = e.revision
    <3>1. announced[row].version # Callbacks!Removed /\ Callbacks!Covers(e.rows[row], announced[row].version, row)
      BY <1>1, <2>3 DEF Tells
    <3> QED BY <1>2, <2>1, <3>1 DEF Callbacks!Covers
  <2> QED BY <1>1, <1>3, <2>1, <2>2, <2>3
<1>4. e.revision < mailbox.next
  BY <1>1 DEF Tells
<1> QED
  BY <1>3, <1>4 DEF Tells, up

(* apply: whatever good event comes, at whatever time.                     *)
LEMMA ApplyKeeps ==
  ASSUME Callbacks!CallbackAssumption, ScreenInv, NEW e, Good(e), Callbacks!Apply(e),
         UNCHANGED <<stored, mailbox, announced>>
  PROVE  /\ client' \in [rows : Rows, last : Nat, state : States, applied : Nat]
         /\ repair' \in [on : BOOLEAN, target : Nat, asked : Nat, buffer : Buffers, read : MaybeEvent]
         /\ RepairOK' /\ ClientOK'
<1> DEFINE Clients == [rows : Rows, last : Nat, state : States, applied : Nat]
           Repairs == [on : BOOLEAN, target : Nat, asked : Nat, buffer : Buffers, read : MaybeEvent]
<1>1. /\ client \in Clients /\ repair \in Repairs
      /\ client.rows \in Rows /\ client.last \in Nat /\ client.applied \in Nat
      /\ Typed /\ RepairOK /\ ClientOK
  BY DEF ScreenInv, Typed
<1>2. /\ e \in Event /\ e.rows \in Rows /\ e.revision \in Nat /\ e.state \in States
      /\ e.applied \in Nat /\ e.full \in BOOLEAN
      /\ Tells(e.rows, e.full, e.revision) /\ TellsTheEnd(e) /\ e.revision < mailbox.next
  BY DEF Good, Event, Tells
<1>3. Callbacks!NoRepair \in Repairs /\ Callbacks!NoRepair.on = FALSE
  BY DEF Callbacks!NoRepair, Buffers, MaybeEvent
<1>4. CASE UNCHANGED <<client, repair>>
  <2>1. RepairOK'
    <3> DEFINE shown == repair.read.rows
               at == Callbacks!Checkpoint
    <3>1. shown' = shown /\ at' = at
      BY <1>4 DEF Callbacks!Checkpoint
    <3> QED BY <1>1, <1>4, <3>1, RepairBecomes DEF RepairOK
  <2>2. ClientOK'
    BY <1>1, <1>4, ClientBecomes DEF ClientOK
  <2> QED BY <1>1, <1>4, <2>1, <2>2
<1>5. CASE ~(client.state \in Callbacks!Ended \/ Callbacks!Stale(e))
  <2> DEFINE after == Callbacks!Reconciled(e)
             applied == IF client.applied < e.applied THEN e.applied ELSE client.applied
  <2>1. /\ client' = [rows |-> after.rows, last |-> e.revision, state |-> e.state, applied |-> applied]
        /\ repair' = IF e.state \in Callbacks!Ended THEN Callbacks!NoRepair ELSE after.repair
    BY <1>5 DEF Callbacks!Apply
  <2>2. applied \in Nat
    BY <1>1, <1>2
  <2>3. ASSUME after.rows \in Rows PROVE client' \in Clients
    <3> HIDE DEF applied, after
    <3> QED BY <1>2, <2>1, <2>2, <2>3
  <2>4. client'.rows = after.rows /\ client'.last = e.revision /\ client'.state = e.state
    BY <2>1
  <2> HIDE DEF applied
  <2>5. ASSUME ~repair'.on PROVE RepairOK'
    BY <2>5, RepairBecomes DEF RepairOK
  <2>6. CASE e.full
    <3>1. after.rows = e.rows /\ after.repair = Callbacks!NoRepair
      BY <2>6 DEF Callbacks!Reconciled
    <3> HIDE DEF after
    <3>2. repair' = Callbacks!NoRepair
      BY <2>1, <3>1
    <3>3. ClientOK'
      BY <1>2, <2>4, <2>6, <3>1, ClientBecomes DEF TellsTheEnd
    <3> QED BY <1>2, <1>3, <2>3, <2>5, <3>1, <3>2, <3>3
  <2>7. CASE ~e.full /\ e.state \in Callbacks!Ended
    <3>1. after.rows \in Rows
      BY <1>1, <1>2, <2>7, UpsertedRows DEF Callbacks!Reconciled
    <3> HIDE DEF after
    <3>2. repair' = Callbacks!NoRepair /\ e.state # "completed"
      BY <1>2, <2>1, <2>7 DEF TellsTheEnd
    <3>3. ClientOK'
      BY <2>4, <2>7, <3>2, ClientBecomes
    <3> QED BY <1>3, <2>3, <2>5, <3>1, <3>2, <3>3
  <2>8. CASE ~e.full /\ e.state \notin Callbacks!Ended /\ Callbacks!Repeated(e)
    <3>1. after.rows = client.rows /\ after.repair = repair /\ e.revision = client.last
      BY <2>8 DEF Callbacks!Reconciled, Callbacks!Repeated
    <3> HIDE DEF after
    <3>2. repair' = repair
      BY <2>1, <2>8, <3>1
    <3>3. ClientOK'
      BY <1>1, <1>5, <2>4, <2>8, <3>1, <3>2, ClientBecomes DEF ClientOK, Callbacks!Ended
    <3>4. RepairOK'
      <4> DEFINE shown == repair.read.rows
                 at == Callbacks!Checkpoint
      <4>1. shown' = shown /\ at' = at
        BY <3>2 DEF Callbacks!Checkpoint
      <4> QED BY <1>1, <2>4, <2>8, <3>1, <3>2, <4>1, RepairBecomes DEF RepairOK
    <3> QED BY <1>1, <2>3, <3>1, <3>2, <3>3, <3>4
  <2>9. CASE ~e.full /\ e.state \notin Callbacks!Ended /\ ~Callbacks!Repeated(e)
    <3>1. e.revision > client.last
      BY <1>1, <1>2, <1>5, <2>9 DEF Callbacks!Stale, Callbacks!Repeated
    <3>2. after.rows = Callbacks!Upserted(client.rows, e.rows)
          /\ after.repair = IF repair.on THEN Callbacks!Observed(e)
                            ELSE IF e.revision # client.last + 1 THEN Callbacks!Begun(e) ELSE repair
      BY <2>9 DEF Callbacks!Reconciled
    <3> HIDE DEF after
    <3>3. after.rows \in Rows
      BY <1>1, <1>2, <3>2, UpsertedRows
    <3>4. client' \in Clients /\ repair' = after.repair
      BY <2>1, <2>3, <2>9, <3>3
    <3>5. CASE repair.on
      <4> DEFINE kept == repair.buffer \cup {e}
      <4>1. repair' = Callbacks!Observed(e)
        BY <3>2, <3>4, <3>5
      <4>2. /\ client.state \notin Callbacks!Ended /\ client.last = repair.target /\ repair.asked <= repair.target
            /\ \A f \in repair.buffer : Good(f) /\ ~f.full /\ f.revision <= repair.target
            /\ repair.target \in Nat /\ repair.asked \in Nat
        BY <1>1, <3>5 DEF RepairOK
      <4>3. PICK buffer \in SUBSET kept :
              repair' = [repair EXCEPT !.target = e.revision, !.buffer = buffer]
        <5>1. (IF repair.target < e.revision THEN e.revision ELSE repair.target) = e.revision
          BY <1>2, <3>1, <4>2
        <5> QED BY <4>1, <5>1 DEF Callbacks!Observed
      <4>4. buffer \in Buffers
        BY <1>1, <1>2 DEF Buffers
      <4>5. /\ repair' \in Repairs /\ repair'.on /\ repair'.target = e.revision /\ repair'.asked = repair.asked
            /\ repair'.buffer = buffer /\ repair'.read = repair.read
        <5> HIDE DEF kept
        <5> QED BY <1>1, <1>2, <3>5, <4>3, <4>4
      <4>6. \A f \in buffer : Good(f) /\ ~f.full /\ f.revision <= e.revision
        <5> SUFFICES ASSUME NEW f \in buffer PROVE Good(f) /\ ~f.full /\ f.revision <= e.revision
          OBVIOUS
        <5>1. CASE f = e
          BY <1>2, <2>9, <5>1
        <5>2. CASE f \in repair.buffer
          <6>1. f.revision \in Nat
            BY <4>2, <5>2 DEF Good, Event
          <6> QED BY <1>2, <3>1, <4>2, <5>2, <6>1
        <5> QED BY <5>1, <5>2
      <4> HIDE DEF kept
      <4>7. RepairOK'
        <5> DEFINE shown == repair.read.rows
                   at == Callbacks!Checkpoint
        <5>1. shown = repair'.read.rows /\ at = Callbacks!Checkpoint'
          BY <4>5 DEF Callbacks!Checkpoint
        <5>2. repair'.asked <= repair'.target
          BY <1>2, <3>1, <4>2, <4>5
        <5>3. repair.read # NoEvent => Tells(shown, TRUE, at)
          BY <1>1, <3>5 DEF RepairOK
        <5> HIDE DEF shown, at
        <5> QED BY <1>2, <2>4, <2>9, <4>5, <4>6, <5>1, <5>2, <5>3, RepairBecomes
      <4>8. ClientOK'
        BY <2>4, <2>9, <4>5, ClientBecomes DEF Callbacks!Ended
      <4> QED BY <3>4, <4>5, <4>7, <4>8
    <3>6. CASE ~repair.on /\ e.revision # client.last + 1
      <4>1. repair' = Callbacks!Begun(e)
        BY <3>2, <3>4, <3>6
      <4>2. /\ repair' \in Repairs /\ repair'.on /\ repair'.target = e.revision
            /\ repair'.asked = e.revision /\ repair'.buffer = {e} /\ repair'.read = NoEvent
        <5>1. {e} \in Buffers /\ NoEvent \in MaybeEvent
          BY <1>2 DEF Buffers, MaybeEvent
        <5> QED BY <1>2, <4>1, <5>1 DEF Callbacks!Begun
      <4>3. RepairOK'
        BY <1>2, <2>4, <2>9, <4>2, RepairBecomes
      <4>4. ClientOK'
        BY <2>4, <2>9, <4>2, ClientBecomes DEF Callbacks!Ended
      <4> QED BY <3>4, <4>2, <4>3, <4>4
    <3>7. CASE ~repair.on /\ e.revision = client.last + 1
      <4>1. repair' = repair
        BY <3>2, <3>4, <3>7
      <4>2. Tells(client.rows, TRUE, client.last)
        BY <1>1, <1>5, <3>7 DEF ClientOK
      <4>3. Tells(after.rows, TRUE, e.revision)
        BY <1>1, <2>9, <3>2, <3>7, <4>2, UpsertedTells
      <4>4. ClientOK'
        BY <2>4, <2>9, <4>3, ClientBecomes DEF Callbacks!Ended
      <4> QED BY <1>1, <2>5, <3>4, <3>7, <4>1, <4>4
    <3> QED BY <3>5, <3>6, <3>7
  <2> QED BY <2>6, <2>7, <2>8, <2>9
<1> QED
  BY <1>4, <1>5 DEF Callbacks!Apply

LEMMA ArrivalKeeps ==
  ASSUME Callbacks!CallbackAssumption, ScreenInv, Callbacks!DrainOne \/ Callbacks!ResultArrives
  PROVE  ScreenInv'
<1>1. PICK e : Good(e) /\ Callbacks!Apply(e)
  BY DEF Callbacks!DrainOne, Callbacks!ResultArrives, ScreenInv, StationsOK
<1>2. /\ UNCHANGED <<stored, changed, owner, mailbox, handed, announced>>
      /\ inbox' \in {NoEvent, inbox} /\ direct' \in {NoEvent, direct}
  BY DEF Callbacks!DrainOne, Callbacks!ResultArrives
<1>3. /\ client' \in [rows : Rows, last : Nat, state : States, applied : Nat]
      /\ repair' \in [on : BOOLEAN, target : Nat, asked : Nat, buffer : Buffers, read : MaybeEvent]
      /\ RepairOK' /\ ClientOK'
  BY <1>1, <1>2, ApplyKeeps
<1>4. Typed'
  BY <1>2, <1>3 DEF ScreenInv, Typed
<1> QED
  BY <1>2, <1>3, <1>4, OtherwiseSame

-----------------------------------------------------------------------------
(* runUtteranceGapRepair: the snapshot with the deltas after it.           *)
LEMMA ReplayShows ==
  ASSUME Callbacks!CallbackAssumption, Typed, RepairOK, repair.on, repair.read # NoEvent, NEW row \in Utterance
  PROVE  /\ Callbacks!RowAfterReplay(row) \in {repair.read.rows[row]} \cup {e.rows[row] : e \in Callbacks!Replayed}
         /\ Callbacks!RowAfterReplay(row) \in Versions
         /\ Callbacks!RowAfterReplay(row) >= repair.read.rows[row]
         /\ \A e \in Callbacks!Replayed : Callbacks!RowAfterReplay(row) >= e.rows[row]
<1> DEFINE shown == {repair.read.rows[row]} \cup {e.rows[row] : e \in Callbacks!Replayed}
<1>1. Callbacks!Removed \in Nat
  BY DEF Callbacks!CallbackAssumption, Callbacks!Removed
<1>2. repair.read.rows[row] \in Versions
  BY CheckpointIsNatural DEF Event, Rows
<1>3. \A e \in Callbacks!Replayed : e.rows[row] \in Versions
  BY DEF Callbacks!Replayed, RepairOK, Good, Event, Rows
<1>4. shown \in SUBSET Versions /\ shown # {}
  BY <1>2, <1>3
<1>5. shown \in SUBSET Nat /\ \A v \in shown : v <= Callbacks!Removed
  BY <1>1, <1>4 DEF Versions
<1>6. Callbacks!RowAfterReplay(row) = CHOOSE v \in shown : \A w \in shown : w <= v
  BY DEF Callbacks!RowAfterReplay
<1>7. repair.read.rows[row] \in shown /\ \A e \in Callbacks!Replayed : e.rows[row] \in shown
  OBVIOUS
<1> HIDE DEF shown
<1>8. \E v \in shown : \A w \in shown : w <= v
  BY <1>1, <1>4, <1>5, Greatest
<1>9. Callbacks!RowAfterReplay(row) \in shown /\ \A w \in shown : w <= Callbacks!RowAfterReplay(row)
  BY <1>6, <1>8
<1>10. \A w \in shown : Callbacks!RowAfterReplay(row) >= w
  BY <1>5, <1>9
<1> QED
  BY <1>4, <1>7, <1>9, <1>10 DEF shown

(* The end of the run of revisions without a gap is that of one.           *)
LEMMA ThroughIs ==
  ASSUME Typed, RepairOK, repair.on, repair.read # NoEvent
  PROVE  LET ends == {Callbacks!Checkpoint} \cup {e.revision : e \in Callbacks!Replayed}
         IN  /\ Callbacks!ContinuousThrough \in ends
             /\ \A m \in (Callbacks!Checkpoint + 1)..Callbacks!ContinuousThrough : m \in ends
<1> DEFINE ends == {Callbacks!Checkpoint} \cup {e.revision : e \in Callbacks!Replayed}
<1>1. Callbacks!Checkpoint \in Nat
  BY CheckpointIsNatural
<1>2. /\ repair.target \in Nat
      /\ \A e \in Callbacks!Replayed : e.revision \in Nat /\ e.revision <= repair.target
  BY DEF RepairOK, Callbacks!Replayed, Good, Event, Typed
<1>3. ends \in SUBSET Nat /\ Callbacks!Checkpoint \in ends
  BY <1>1, <1>2
<1>4. \E b \in Nat : \A m \in ends : m <= b
  <2>1. CASE Callbacks!Checkpoint <= repair.target
    BY <1>1, <1>2, <2>1
  <2>2. CASE ~(Callbacks!Checkpoint <= repair.target)
    <3>1. \A m \in ends : m <= Callbacks!Checkpoint
      BY <1>1, <1>2, <2>2
    <3> QED BY <1>1, <3>1
  <2> QED BY <2>1, <2>2
<1>5. Callbacks!ContinuousThrough = CHOOSE r \in ends : /\ \A m \in (Callbacks!Checkpoint + 1)..r : m \in ends
                                              /\ r + 1 \notin ends
  BY DEF Callbacks!ContinuousThrough
<1> HIDE DEF ends
<1>6. \E r \in ends : /\ \A m \in (Callbacks!Checkpoint + 1)..r : m \in ends
                      /\ r + 1 \notin ends
  BY <1>3, <1>4, RunEnds
<1>7. Callbacks!ContinuousThrough \in ends /\ \A m \in (Callbacks!Checkpoint + 1)..Callbacks!ContinuousThrough : m \in ends
  BY <1>5, <1>6
<1> QED
  BY <1>7 DEF ends

(* What the deltas fill in behind the checkpoint, up to the end of the run *)
(* of revisions without a gap.                                             *)
LEMMA ReplayTells ==
  ASSUME Callbacks!CallbackAssumption, Typed, RepairOK, repair.on, repair.read # NoEvent,
         Callbacks!ContinuousThrough >= repair.target,
         NEW rows, rows = [row \in Utterance |-> Callbacks!RowAfterReplay(row)],
         NEW last \in Nat, last < mailbox.next, last <= Callbacks!Checkpoint \/ last <= repair.target
  PROVE  Tells(rows, TRUE, last)
<1> DEFINE ends == {Callbacks!Checkpoint} \cup {e.revision : e \in Callbacks!Replayed}
<1>1. Callbacks!Checkpoint \in Nat /\ repair.read \in Event /\ Callbacks!Removed \in Nat
  BY CheckpointIsNatural DEF Callbacks!CallbackAssumption, Callbacks!Removed
<1>2. /\ repair.target \in Nat /\ Tells(repair.read.rows, TRUE, Callbacks!Checkpoint)
      /\ \A e \in Callbacks!Replayed : /\ e \in Event /\ ~e.full /\ Tells(e.rows, e.full, e.revision)
                             /\ e.revision \in Nat /\ e.revision > Callbacks!Checkpoint /\ e.revision <= repair.target
  BY DEF RepairOK, Callbacks!Replayed, Good, Event, Typed
<1>3. /\ Callbacks!ContinuousThrough \in ends
      /\ \A m \in (Callbacks!Checkpoint + 1)..Callbacks!ContinuousThrough : m \in ends
  BY ThroughIs
<1>4. Callbacks!ContinuousThrough \in Nat
  BY <1>1, <1>2, <1>3
<1>5. ASSUME NEW row \in Utterance, announced[row].revision <= last
      PROVE  /\ announced[row].version = Callbacks!Removed => rows[row] = Callbacks!Hidden
             /\ Callbacks!Covers(rows[row], announced[row].version, row)
  <2> DEFINE revision == announced[row].revision
             version == announced[row].version
             shown == Callbacks!RowAfterReplay(row)
  <2>1. revision \in Nat /\ version \in Nat /\ rows[row] = shown
    BY <1>5 DEF Typed, Announcement, Versions
  <2>2. /\ shown \in {repair.read.rows[row]} \cup {e.rows[row] : e \in Callbacks!Replayed}
        /\ shown \in Nat /\ shown >= repair.read.rows[row]
        /\ \A e \in Callbacks!Replayed : shown >= e.rows[row]
    BY ReplayShows DEF Versions
  <2>3. repair.read.rows[row] \in Nat /\ \A e \in Callbacks!Replayed : e.rows[row] \in Nat
    BY <1>1, <1>2 DEF Event, Rows, Versions
  <2> HIDE DEF shown
  <2>4. CASE revision <= Callbacks!Checkpoint
    <3>1. Callbacks!Covers(repair.read.rows[row], version, row)
      BY <1>2, <2>4 DEF Tells
    <3>2. ASSUME version = Callbacks!Removed PROVE shown = Callbacks!Hidden
      <4>1. repair.read.rows[row] = Callbacks!Hidden
        BY <3>1, <3>2 DEF Callbacks!Covers
      <4>2. ASSUME NEW e \in Callbacks!Replayed PROVE e.rows[row] = Callbacks!Hidden
        <5>1. revision <= e.revision
          BY <1>1, <1>2, <2>1, <2>4
        <5> QED BY <1>2, <3>2, <5>1 DEF Tells
      <4> QED BY <2>2, <4>1, <4>2
    <3>3. Callbacks!Covers(shown, version, row)
      BY <2>1, <2>2, <2>3, <3>1, <3>2 DEF Callbacks!Covers
    <3> QED BY <2>1, <3>2, <3>3
  <2>5. CASE revision > Callbacks!Checkpoint
    <3>1. revision <= repair.target
      BY <1>1, <1>2, <1>5, <2>1, <2>5
    <3>2. revision \in (Callbacks!Checkpoint + 1)..Callbacks!ContinuousThrough
      BY <1>1, <1>2, <1>4, <2>1, <2>5, <3>1
    <3>3. revision \in ends
      BY <1>3, <3>2
    <3>4. PICK e \in Callbacks!Replayed : e.revision = revision
      BY <1>1, <2>1, <2>5, <3>3
    <3>5. version # Callbacks!Removed /\ Callbacks!Covers(e.rows[row], version, row)
      BY <1>2, <2>1, <3>4 DEF Tells
    <3>6. Callbacks!Covers(shown, version, row)
      BY <2>1, <2>2, <2>3, <3>5 DEF Callbacks!Covers
    <3> QED BY <2>1, <3>5, <3>6
  <2> QED BY <1>1, <2>1, <2>4, <2>5
<1> QED
  BY <1>5 DEF Tells

LEMMA InstallSnapshotKeeps ==
  ASSUME Callbacks!CallbackAssumption, ScreenInv, Callbacks!InstallSnapshot
  PROVE  ScreenInv'
<1> DEFINE newest == {client.last, Callbacks!Checkpoint} \cup {e.revision : e \in Callbacks!Replayed}
           last == CHOOSE r \in newest : \A m \in newest : m <= r
           rows == [row \in Utterance |-> Callbacks!RowAfterReplay(row)]
           at == Callbacks!Checkpoint
           kept == Callbacks!Replayed
<1>1. /\ repair.on /\ repair.read # NoEvent
      /\ UNCHANGED <<stored, changed, owner, mailbox, handed, inbox, direct, announced>>
      /\ client' = [client EXCEPT !.rows = rows, !.last = last]
      /\ repair' = IF Callbacks!ContinuousThrough >= repair.target THEN Callbacks!NoRepair
                   ELSE [repair EXCEPT !.read = NoEvent, !.asked = repair.target, !.buffer = kept]
  BY DEF Callbacks!InstallSnapshot
<1>2. /\ Typed /\ RepairOK /\ at \in Nat /\ mailbox.next \in Nat /\ repair.target \in Nat
      /\ client.state \notin Callbacks!Ended /\ client.last = repair.target /\ repair.target < mailbox.next
      /\ at < mailbox.next
      /\ kept \subseteq repair.buffer
      /\ \A e \in kept : e \in Event /\ e.revision \in Nat /\ e.revision <= repair.target
  BY <1>1, CheckpointIsNatural DEF ScreenInv, RepairOK, Typed, Mailboxes, Tells, Callbacks!Replayed, Good, Event
<1>3. rows \in Rows
  BY <1>1, <1>2, ReplayShows DEF Rows
<1>4. last \in newest /\ \A m \in newest : m <= last
  <2>1. newest \in SUBSET Nat /\ newest # {} /\ \A m \in newest : m <= mailbox.next
    BY <1>2
  <2> HIDE DEF newest
  <2>2. \E r \in newest : \A m \in newest : m <= r
    BY <1>2, <2>1, Greatest
  <2> QED BY <2>2
<1>5. last \in Nat /\ last < mailbox.next /\ (last <= at \/ last <= repair.target)
  BY <1>2, <1>4
<1> HIDE DEF last, rows, kept
<1>6. client' \in [rows : Rows, last : Nat, state : States, applied : Nat]
      /\ client'.rows = rows /\ client'.last = last /\ client'.state = client.state
  <2>1. client \in [rows : Rows, last : Nat, state : States, applied : Nat]
    BY <1>2 DEF Typed
  <2>2. client' = [client EXCEPT !.rows = rows, !.last = last]
    BY <1>1
  <2>3. rows \in Rows /\ last \in Nat
    BY <1>3, <1>5
  <2> QED BY <2>1, <2>2, <2>3
<1>7. client'.state # "completed"
  BY <1>2, <1>6 DEF Callbacks!Ended
<1>8. CASE Callbacks!ContinuousThrough >= repair.target
  <2>1. repair' = Callbacks!NoRepair /\ repair'.on = FALSE
    BY <1>1, <1>8 DEF Callbacks!NoRepair
  <2>2. Typed'
    <3>1. Callbacks!NoRepair \in [on : BOOLEAN, target : Nat, asked : Nat, buffer : Buffers, read : MaybeEvent]
      BY DEF Callbacks!NoRepair, Buffers, MaybeEvent
    <3> QED BY <1>1, <1>2, <1>6, <2>1, <3>1 DEF Typed
  <2>3. Tells(rows, TRUE, last)
    <3>1. rows = [row \in Utterance |-> Callbacks!RowAfterReplay(row)]
      BY DEF rows
    <3> QED BY <1>1, <1>2, <1>5, <1>8, <3>1, ReplayTells
  <2>4. ClientOK'
    BY <1>1, <1>6, <1>7, <2>3, ClientBecomes
  <2>5. RepairOK'
    BY <2>1 DEF RepairOK
  <2> QED
    BY <1>1, <2>2, <2>4, <2>5, OtherwiseSame
<1>9. CASE ~(Callbacks!ContinuousThrough >= repair.target)
  <2>1. kept \in Buffers
    BY <1>2 DEF Buffers
  <2>2. repair' = [repair EXCEPT !.read = NoEvent, !.asked = repair.target, !.buffer = kept]
    BY <1>1, <1>9
  <2>3. /\ repair' \in [on : BOOLEAN, target : Nat, asked : Nat, buffer : Buffers, read : MaybeEvent]
        /\ repair'.on /\ repair'.target = repair.target /\ repair'.asked = repair.target
        /\ repair'.buffer = kept /\ repair'.read = NoEvent
    BY <1>1, <1>2, <2>1, <2>2 DEF Typed, MaybeEvent
  <2>4. Typed'
    BY <1>1, <1>2, <1>6, <2>3 DEF Typed
  <2>5. last = repair.target
    <3>1. Callbacks!ContinuousThrough \in {at} \cup {e.revision : e \in kept}
      BY <1>1, <1>2, ThroughIs DEF kept
    <3>2. \A e \in kept : e.revision > at
      BY DEF kept, Callbacks!Replayed
    <3>3. at < repair.target
      BY <1>2, <1>9, <3>1, <3>2
    <3>4. last \in {client.last, at} \cup {e.revision : e \in kept} /\ client.last <= last
      BY <1>4 DEF kept
    <3> QED BY <1>2, <1>5, <3>3, <3>4
  <2>6. ClientOK'
    BY <1>1, <1>6, <1>7, <2>3, ClientBecomes
  <2>7. RepairOK'
    <3>1. \A e \in kept : Good(e) /\ ~e.full /\ e.revision <= repair.target
      BY <1>1, <1>2 DEF RepairOK
    <3>2. repair.target <= repair.target
      BY <1>2
    <3> QED BY <1>1, <1>2, <1>6, <2>3, <2>5, <3>1, <3>2, RepairBecomes
  <2> QED
    BY <1>1, <2>4, <2>6, <2>7, OtherwiseSame
<1> QED
  BY <1>8, <1>9

-----------------------------------------------------------------------------
LEMMA ScreenInit ==
  ASSUME Callbacks!CallbackAssumption, Callbacks!CallbackInit
  PROVE  ScreenInv
<1> DEFINE e == Callbacks!Loaded({}, TRUE, 1)
<1>1. Callbacks!Removed \in Nat /\ Callbacks!Removed # Callbacks!Hidden /\ Callbacks!Hidden \in Versions /\ Callbacks!Hidden \in Nat
  BY DEF Callbacks!CallbackAssumption, Callbacks!Removed, Callbacks!Hidden, Versions
<1>2. Callbacks!Blank \in Rows /\ \A row \in Utterance : Callbacks!Blank[row] = Callbacks!Hidden
  BY <1>1 DEF Callbacks!Blank, Rows
<1>3. /\ stored = [rows |-> Callbacks!Blank, state |-> "recording", applied |-> 0]
      /\ changed = Callbacks!Nothing /\ owner = "active"
      /\ mailbox = [next |-> 2, event |-> e, closed |-> FALSE, enqueued |-> 0]
      /\ handed = NoEvent /\ inbox = NoEvent /\ direct = NoEvent
      /\ client = [rows |-> Callbacks!Blank, last |-> 1, state |-> "recording", applied |-> 0]
      /\ repair = Callbacks!NoRepair
      /\ announced = [row \in Utterance |-> [revision |-> 0, version |-> Callbacks!Hidden]]
  BY DEF Callbacks!CallbackInit
<1>4. Callbacks!Visible = Callbacks!Blank
  BY <1>1, <1>2, <1>3 DEF Callbacks!Visible, Callbacks!Blank
<1>5. /\ e.revision = 1 /\ e.full = TRUE /\ e.state = "recording" /\ e.applied = 0
      /\ e.rows = Callbacks!Blank /\ e \in Event
  <2>1. [row \in Utterance |-> Callbacks!Visible[row]] = Callbacks!Blank
    BY <1>4 DEF Callbacks!Blank
  <2>2. e = [revision |-> 1, full |-> TRUE, state |-> "recording", applied |-> 0, rows |-> Callbacks!Blank]
    BY <1>3, <2>1 DEF Callbacks!Loaded
  <2>3. "recording" \in States
    BY DEF States
  <2> HIDE DEF e
  <2> QED BY <1>2, <2>2, <2>3 DEF Event
<1> HIDE DEF e
<1>6. Typed
  <2>1. stored \in Stores
    BY <1>2, <1>3 DEF Stores, States
  <2>2. changed \in [rows : Changes, full : BOOLEAN]
    BY <1>3 DEF Callbacks!Nothing, Changes
  <2>3. mailbox \in Mailboxes
    BY <1>3, <1>5 DEF Mailboxes, MaybeEvent
  <2>4. client \in [rows : Rows, last : Nat, state : States, applied : Nat]
    BY <1>2, <1>3 DEF States
  <2>5. repair \in [on : BOOLEAN, target : Nat, asked : Nat, buffer : Buffers, read : MaybeEvent]
    BY <1>3 DEF Callbacks!NoRepair, Buffers, MaybeEvent
  <2>6. announced \in [Utterance -> Announcement]
    BY <1>1, <1>3 DEF Announcement
  <2> QED BY <1>3, <2>1, <2>2, <2>3, <2>4, <2>5, <2>6 DEF Typed
<1>7. \A row \in Utterance : announced[row].revision = 0 /\ announced[row].version = Callbacks!Hidden
  BY <1>3
<1>8. StoredOK
  BY <1>1, <1>2, <1>3, <1>7 DEF StoredOK, Callbacks!Nothing
<1>9. Tells(Callbacks!Blank, TRUE, 1)
  BY <1>1, <1>2, <1>3, <1>7 DEF Tells, Callbacks!Covers
<1>10. StationsOK
  BY <1>3, <1>5, <1>9 DEF StationsOK, Good, TellsTheEnd
<1>11. RepairOK /\ ClientOK
  BY <1>3, <1>9 DEF RepairOK, ClientOK, Callbacks!NoRepair
<1> QED
  BY <1>6, <1>8, <1>10, <1>11 DEF ScreenInv

LEMMA ScreenUnchanged ==
  ASSUME ScreenInv, UNCHANGED Callbacks!callbackVars
  PROVE  ScreenInv'
<1>1. Typed' /\ Forward /\ StoredOK'
  BY DEF Callbacks!callbackVars, ScreenInv, Typed, Forward, StoredOK, Mailboxes
<1> QED
  BY <1>1, MildKeeps DEF Callbacks!callbackVars

(* Wherever events are lost, what is left says enough: the invariant of    *)
(* the mailbox, the two dispatchers and the client's repair.               *)
THEOREM ScreenInvariant == Callbacks!CallbackSpec => []ScreenInv
<1> USE CallbacksAssumption
<1>1. Callbacks!CallbackInit => ScreenInv
  BY ScreenInit
<1>2. ScreenInv /\ [Callbacks!CallbackNext]_(Callbacks!callbackVars) => ScreenInv'
  <2> SUFFICES ASSUME ScreenInv, [Callbacks!CallbackNext]_(Callbacks!callbackVars) PROVE ScreenInv'
    OBVIOUS
  <2> USE DEF Callbacks!CallbackNext
  <2>1. CASE Callbacks!PersistBatch
    BY <2>1, PersistBatchKeeps
  <2>2. CASE Callbacks!RemovePartial
    BY <2>2, RemovePartialKeeps
  <2>3. CASE Callbacks!EmitChanged
    BY <2>3, EmitChangedKeeps
  <2>4. CASE Callbacks!EmitProgress \/ Callbacks!ProjectorWake
    BY <2>4, EmitProgressKeeps
  <2>5. CASE Callbacks!SwitchPause
    BY <2>5, SwitchPauseKeeps
  <2>6. CASE Callbacks!Acknowledge
    BY <2>6, AcknowledgeKeeps
  <2>7. CASE Callbacks!BeginStop
    BY <2>7, BeginStopKeeps
  <2>8. CASE Callbacks!CompleteRun
    BY <2>8, CompleteRunKeeps
  <2>9. CASE Callbacks!ReturnStop
    BY <2>9, ReturnStopKeeps
  <2>10. CASE Callbacks!FailStop
    BY <2>10, FailStopKeeps
  <2>11. CASE Callbacks!Panic \/ Callbacks!Deliver \/ Callbacks!Submit
    BY <2>11, HandKeeps
  <2>12. CASE Callbacks!DrainOne \/ Callbacks!ResultArrives
    BY <2>12, ArrivalKeeps
  <2>13. CASE Callbacks!ReadAfterFailedPause
    BY <2>13, ReadAfterFailedPauseKeeps
  <2>14. CASE Callbacks!ReadSnapshot
    BY <2>14, ReadSnapshotKeeps
  <2>15. CASE Callbacks!InstallSnapshot
    BY <2>15, InstallSnapshotKeeps
  <2>16. CASE UNCHANGED Callbacks!callbackVars
    BY <2>16, ScreenUnchanged
  <2> QED
    BY <2>1, <2>2, <2>3, <2>4, <2>5, <2>6, <2>7, <2>8, <2>9, <2>10, <2>11, <2>12, <2>13,
       <2>14, <2>15, <2>16
<1> QED
  BY <1>1, <1>2, PTL DEF Callbacks!CallbackSpec

(* With no repair under way the screen has every change told up to the     *)
(* revision it believes to have, and a completed capture shows all of its  *)
(* rows, whatever was coalesced, late, lost or replaced on the way.        *)
THEOREM ScreenHolds == Callbacks!CallbackSpec => []ScreenIsWhole
<1>1. ScreenInv => ScreenIsWhole
  BY DEF ScreenInv, ClientOK, Tells, ScreenIsWhole, Callbacks!ScreenIsWhole,
         Callbacks!NoChangeIsForgotten, Callbacks!EndIsWhole
<1> QED
  BY <1>1, ScreenInvariant, PTL
=============================================================================
