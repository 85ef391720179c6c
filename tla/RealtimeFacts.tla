--------------------------- MODULE RealtimeFacts ---------------------------
(***************************************************************************)
(* The realtime facts of one capture session, as SQLite keeps them         *)
(* (crates/vt-store/src/notebook_capture_store.rs) and as the collector    *)
(* writes them (crates/vt-ffi/src/notebook_capture_api.rs).                 *)
(*                                                                         *)
(* The canonical stream owns the rows: it revises a row's source while it  *)
(* is partial and settles it once.  Auxiliary streams own facts: pieces of *)
(* a translation in one target language, kept in an inbox, bound to a row  *)
(* by evidence and composed into that row's lane.  The two kinds of stream *)
(* are different connections: nothing orders one against the other.         *)
(*                                                                         *)
(* Text is abstracted: a source is the stretch of the shared timeline it   *)
(* covers (a set of ticks), a translation is the sequence of facts it is   *)
(* composed of.  Every fact is of stream-group epoch 0; the binding of     *)
(* facts of a later epoch, which only the runtime's cache may decide, is   *)
(* not modelled.                                                            *)
(***************************************************************************)
EXTENDS Naturals, FiniteSets, Sequences, FiniteSetsExt, SequencesExt

CONSTANTS
    LastRow,    \* rows are 1..LastRow, in the order the canonical stream opens them
    LastFact,   \* facts are 1..LastFact, in the order of their provider sequence
    Lang,       \* the selected languages
    Und,        \* no claim about the language
    Target,     \* the target language of each fact's stream
    Place,      \* the stretches of the shared timeline a stream may name
    Spoken,     \* what the canonical stream may claim the source language to be
    Heard       \* what an auxiliary stream may claim it to be

ASSUME FactsAssumption ==
    /\ LastRow \in Nat \ {0} /\ LastFact \in Nat \ {0}
    /\ Und \notin Lang /\ Target \in [1..LastFact -> Lang]
    /\ {} \notin Place /\ Spoken \cup Heard \subseteq Lang \cup {Und}

Row == 1..LastRow
Fact == 1..LastFact
Unbound == 0
Claim == Lang \cup {Und}

NoRow == [lang |-> Und, place |-> {}, settled |-> FALSE, open |-> FALSE]
NoLane == [role |-> "none", state |-> "none", text |-> << >>, final |-> FALSE]
NoFact == [lang |-> Und, place |-> {}, state |-> "none", final |-> FALSE, row |-> Unbound]

VARIABLES
    row,        \* realtime_utterances: the aggregate source fact of each row
    lane,       \* realtime_utterance_variants: the lane of each row in each language
    fact,       \* realtime_translation_inbox
    edited,     \* realtime_utterance_overrides: the lanes a user has corrected
    retired,    \* rows whose source segment the canonical assembler has given up
    phase,      \* "live", "ended" (the collector returned), "terminal" (the run),
                \* "recovered" (a later start has replayed the facts)
    refused     \* the store's answer that ended the collector, or "none"

vars == <<row, lane, fact, edited, retired, phase, refused>>

FactsTypeOK ==
    /\ row \in [Row -> [lang : Claim, place : Place \cup {{}},
                        settled : BOOLEAN, open : BOOLEAN]]
    /\ lane \in [Row -> [Claim -> [role : {"none", "source", "translation"},
                                   state : {"none", "waiting", "ready", "unavailable"},
                                   text : Seq(Fact), final : BOOLEAN]]]
    /\ fact \in [Fact -> [lang : Claim, place : Place \cup {{}},
                          state : {"none", "present", "withdrawn"},
                          final : BOOLEAN, row : Row \cup {Unbound}]]
    /\ edited \subseteq Row \X Claim
    /\ retired \subseteq Row
    /\ phase \in {"live", "ended", "terminal", "recovered"}
    /\ refused \in {"none", "conflict", "corrupt", "invalid"}
    /\ \A r \in Row : ~row[r].open => row[r] = NoRow /\ \A l \in Claim : lane[r][l] = NoLane
    /\ \A r \in Row, l \in Claim :
          /\ lane[r][l].role = "none" <=> lane[r][l].state = "none"
          /\ lane[r][l].role = "source" => l = row[r].lang
          /\ lane[r][l].state # "ready" => lane[r][l].text = << >> /\ ~lane[r][l].final

-----------------------------------------------------------------------------
(***************************************************************************)
(* A transaction is a function of the database d, a record of the three    *)
(* tables and of the error that aborts it.  Every operator below leaves an *)
(* aborted transaction as it is.                                            *)
(***************************************************************************)
Database == [row |-> row, lane |-> lane, fact |-> fact, error |-> "none"]

Fails(d, what) == [d EXCEPT !.error = what]

(* One transaction after d: it is kept whole or not at all.                 *)
Tx(d, after) == IF after.error = "none" THEN after ELSE Fails(d, after.error)

LaneIs(d, r, l, role) == d.lane[r][l].role = role

HasSourceLane(d, r) == \E l \in Claim : LaneIs(d, r, l, "source")

SourceLaneFinal(d, r) == \E l \in Claim : LaneIs(d, r, l, "source") /\ d.lane[r][l].final

HasSourceFact(d, r) == d.row[r].settled \/ d.row[r].place # {} \/ HasSourceLane(d, r)

ReadyTranslation(d, r, l) == LaneIs(d, r, l, "translation") /\ d.lane[r][l].state = "ready"

(* Which rows the evidence of a fact allows, and how strongly: the same    *)
(* words, words inside the row's, a common stretch of the timeline; then   *)
(* the same language.  A row with no source matches nothing.                *)
Evidence(f, r, d) ==
    LET there == d.fact[f].place
        here == d.row[r].place
        agree == IF d.fact[f].lang = d.row[r].lang THEN 1 ELSE 0
    IN  CASE there = {} \/ here = {}  -> 0
          [] there = here             -> 6 + agree
          [] there \subseteq here     -> 4 + agree
          [] there \cap here # {}     -> 2 + agree
          [] OTHER                    -> 0

Matches(f, r, d) == Evidence(f, r, d) > 0

(* The one row with the strongest evidence among some rows, if there is     *)
(* just one.                                                                *)
UniqueCandidate(f, d, rows) ==
    { r \in rows : /\ d.row[r].open /\ Matches(f, r, d)
                   /\ \A q \in rows \ {r} :
                         d.row[q].open => Evidence(f, q, d) < Evidence(f, r, d) }

BoundTo(d, r, l) ==
    { f \in Fact : d.fact[f].row = r /\ Target[f] = l /\ d.fact[f].state = "present" }

(* The facts bound to a lane, in the order their stream produced them.      *)
Composed(d, r, l) == SetToSortSeq(BoundTo(d, r, l), <)

ComposedFinal(d, r, l) == \A f \in BoundTo(d, r, l) : d.fact[f].final

-----------------------------------------------------------------------------
(* Mutant: a lane that is final takes whatever is written.                   *)
WriteLaneNotAbsorbing(d, r, l, state, text, final, how) ==
    IF d.error # "none" \/ (HasSourceLane(d, r) /\ d.row[r].lang = l) THEN d
    ELSE [d EXCEPT !.lane[r][l] = [role |-> "translation", state |-> state,
                                   text |-> text, final |-> final]]

(* Writing a translation lane.  A final lane absorbs what is not final,    *)
(* grows only at its end, and only by composition; taking its facts away is *)
(* refused.                                                                  *)
WriteLane(d, r, l, state, text, final, how) ==
    LET old == d.lane[r][l]
        new == [role |-> "translation", state |-> state, text |-> text, final |-> final]
        settled == ReadyTranslation(d, r, l) /\ old.final
        grows == /\ how = "compose"
                 /\ IsStrictPrefix(old.text, text)
    IN  CASE d.error # "none"                            -> d
          [] HasSourceLane(d, r) /\ d.row[r].lang = l    -> Fails(d, "invalid")
          [] old = new                                   -> d
          [] settled /\ how = "detach"                   -> Fails(d, "conflict")
          [] settled /\ ~final                           -> d
          [] settled /\ final /\ ~grows                  -> Fails(d, "conflict")
          [] OTHER -> [d EXCEPT !.lane[r][l] = new]

(* Mutant: the row goes, its lanes are forgotten.                             *)
CollectShellRowOnly(d, r) ==
    IF d.error # "none" \/ HasSourceFact(d, r) THEN d
    ELSE [d EXCEPT !.row[r] = NoRow]

(* A row nothing depends on any more is deleted, and its facts released.    *)
CollectShell(d, r) ==
    IF \/ d.error # "none"
       \/ HasSourceFact(d, r)
       \/ \E l \in Claim : ReadyTranslation(d, r, l)
       \/ \E l \in Claim : <<r, l>> \in edited
    THEN d
    ELSE [d EXCEPT !.row[r] = NoRow,
                   !.lane[r] = [l \in Claim |-> NoLane],
                   !.fact = [f \in Fact |-> IF @[f].row = r
                                            THEN [@[f] EXCEPT !.row = Unbound]
                                            ELSE @[f]]]

(* Reading a row with the user's corrections laid over it fails when a      *)
(* correction names a lane that is not there.                               *)
Overlaid(d, r) ==
    IF d.error = "none" /\ \E l \in Claim : <<r, l>> \in edited /\ d.lane[r][l] = NoLane
    THEN Fails(d, "corrupt")
    ELSE d

(* A row whose language nobody claimed takes the language of a fact bound   *)
(* to it.                                                                    *)
AdoptLanguage(d, f, r) ==
    LET claimed == d.fact[f].lang
        dissolved == IF LaneIs(d, r, claimed, "translation")
                     THEN [d.lane[r] EXCEPT ![claimed] = NoLane]
                     ELSE d.lane[r]
        renamed == IF LaneIs(d, r, Und, "source")
                   THEN [dissolved EXCEPT ![claimed] = d.lane[r][Und], ![Und] = NoLane]
                   ELSE dissolved
    IN  IF \/ d.error # "none"
           \/ d.fact[f].state = "withdrawn"
           \/ claimed = Und \/ d.row[r].lang # Und
           \/ ReadyTranslation(d, r, claimed)
        THEN d
        ELSE Overlaid([d EXCEPT !.row[r].lang = claimed, !.lane[r] = renamed], r)

(* The run is recording, paused or draining.                                *)
CaptureIsActive == phase \in {"live", "ended"}

(* What a bound fact does to its row.  While the capture is active a final  *)
(* fact does not settle the lane of a row whose own source may still move.  *)
SourceMayMove(d, f, r) ==
    /\ HasSourceLane(d, r) /\ ~SourceLaneFinal(d, r)
    /\ d.fact[f].state = "present" /\ d.fact[f].final
    /\ CaptureIsActive

ApplyAdopted(a, f, r) ==
    LET l == Target[f]
        isSource == HasSourceLane(a, r) /\ a.row[r].lang = l
        moves == SourceMayMove(a, f, r)
        claims == /\ isSource /\ ~SourceLaneFinal(a, r) /\ ~moves
                  /\ a.fact[f].state = "present" /\ a.fact[f].final
                  /\ ComposedFinal(a, r, l)
        text == Composed(a, r, l)
    IN  CASE a.error # "none"     -> a
          [] isSource /\ ~claims  -> a
          [] a.fact[f].state = "withdrawn" ->
               CASE LaneIs(a, r, l, "translation") /\ a.lane[r][l].final ->
                      Fails(a, "conflict")
                 [] LaneIs(a, r, l, "translation") /\ a.lane[r][l].state = "waiting" ->
                      CollectShell(a, r)
                 [] OTHER ->
                      CollectShell(WriteLane(a, r, l, "waiting", << >>, FALSE, "ordinary"), r)
          [] claims ->
               [a EXCEPT !.lane[r][l] = [role |-> "translation", state |-> "ready",
                                         text |-> text, final |-> TRUE]]
          [] OTHER ->
               WriteLane(a, r, l, "ready", text, ComposedFinal(a, r, l) /\ ~moves, "compose")

ApplyFact(d, f, r) == ApplyAdopted(AdoptLanguage(d, f, r), f, r)

(* Mutant: the binding goes, the lane keeps the words.                       *)
DetachBindingOnly(d, f) ==
    IF d.error # "none" THEN d ELSE [d EXCEPT !.fact[f].row = Unbound]

(* Taking a fact off its row rebuilds the one lane it contributed to.       *)
Detach(d, f) ==
    LET r == d.fact[f].row
        l == Target[f]
        loose == [d EXCEPT !.fact[f].row = Unbound]
        others == BoundTo(loose, r, l)
    IN  CASE d.error # "none"                                 -> d
          [] HasSourceLane(loose, r) /\ loose.row[r].lang = l -> loose
          [] others # {}  -> ApplyFact(loose, Min(others), r)
          [] OTHER -> CollectShell(WriteLane(loose, r, l, "waiting", << >>, FALSE, "detach"), r)

(* Binding runs inside a savepoint: a refusal undoes the binding alone.     *)
Bind(d, f, r) ==
    LET evidenceOnly == /\ HasSourceLane(d, r) /\ d.row[r].lang = Target[f]
                        /\ (SourceLaneFinal(d, r) \/ ~d.fact[f].final)
        bound == [d EXCEPT !.fact[f].row = r]
    IN  CASE d.error # "none"                     -> d
          [] d.fact[f].state # "present"          -> d
          [] d.fact[f].row \notin {Unbound, r}    -> Fails(d, "conflict")
          [] ~d.row[r].open                       -> Fails(d, "invalid")
          [] ~Matches(f, r, d)                    -> Fails(d, "conflict")
          [] evidenceOnly                         -> bound
          [] OTHER                                -> ApplyFact(bound, f, r)

(* A contested binding leaves the fact unbound and the rest as it was.      *)
Kept(d, b) == IF d.error = "none" /\ b.error = "conflict" THEN d ELSE Tx(d, b)

TryBind(d, f, r) == Kept(d, Bind(d, f, r))

IsWaitingForRow(d, f) == d.fact[f].state = "present" /\ d.fact[f].row = Unbound

(* Every fact still unbound, in order, against the rows as they were when   *)
(* the pass began.                                                           *)
Reconcile(d) ==
    LET Step(acc, f) ==
            IF IsWaitingForRow(d, f) /\ UniqueCandidate(f, d, Row) # {}
            THEN TryBind(acc, f, CHOOSE r \in UniqueCandidate(f, d, Row) : TRUE)
            ELSE acc
    IN  IF d.error # "none" THEN d ELSE FoldLeft(Step, d, [f \in Fact |-> f])

(* Every fact bound to a row, those still present before the tombstones;    *)
(* it stops when the row is gone.                                            *)
ApplyBound(d, r) ==
    LET Step(acc, f) ==
            IF acc.error = "none" /\ acc.row[r].open /\ acc.fact[f].row = r
            THEN ApplyFact(acc, f, r) ELSE acc
        In(state) == SetToSortSeq({ f \in Fact : d.fact[f].row = r
                                                 /\ d.fact[f].state = state }, <)
    IN  IF d.error # "none" THEN d
        ELSE FoldLeft(Step, d, In("present") \o In("withdrawn"))

(* Mutant: a revised row keeps every binding.                                *)
RevalidateNothing(d, r) == d

(* A revision of the row may leave a bound fact behind.                      *)
Revalidate(d, r) ==
    LET Step(acc, f) == IF acc.error = "none" THEN Detach(acc, f) ELSE acc
    IN  IF d.error # "none" THEN d
        ELSE FoldLeft(Step, d, SetToSortSeq({ f \in Fact : d.fact[f].row = r
                                                           /\ ~Matches(f, r, d) }, <))

-----------------------------------------------------------------------------
(* A lane that is already final in the source's language keeps its owner:   *)
(* the source is then kept as the row's fact only.                           *)
KnownLanguage(d, r, claimed) == IF claimed = Und THEN d.row[r].lang ELSE claimed

Coalesces(d, r, known) == ReadyTranslation(d, r, known) /\ d.lane[r][known].final

SourceWritten(d, r, known, place, settled) ==
    LET source == [role |-> "source", state |-> "ready", text |-> << >>, final |-> settled]
        cleared == [l \in Claim |-> IF LaneIs(d, r, l, "source") THEN NoLane ELSE d.lane[r][l]]
    IN  [d EXCEPT
            !.row[r] = [lang |-> known, place |-> place, settled |-> settled, open |-> TRUE],
            !.lane[r] = IF Coalesces(d, r, known) THEN cleared
                        ELSE [cleared EXCEPT ![known] = source]]

(* upsert_utterance: one revision of a row's source by the canonical        *)
(* stream, and what it does to the facts bound to the row.                   *)
StoreSource(d, r, claimed, place, settled) ==
    LET written == SourceWritten(d, r, KnownLanguage(d, r, claimed), place, settled)
    IN  Overlaid(ApplyBound(Revalidate(written, r), r), r)

(* Every other selected language of a new row waits for its translation.    *)
OpenWaiting(d, r) ==
    IF d.error # "none" THEN d
    ELSE [d EXCEPT !.lane[r] =
            [l \in Claim |->
                IF /\ l \in Lang /\ @[l] = NoLane
                   /\ ~(HasSourceLane(d, r) /\ l = d.row[r].lang)
                THEN [role |-> "translation", state |-> "waiting",
                      text |-> << >>, final |-> FALSE]
                ELSE @[l]]]

(* The collector's own pass over unbound facts, through its bounded cache   *)
(* of rows.  A row outside the cache is found by the store's own ranking.   *)
CachedCandidate(f, d, cached) == UniqueCandidate(f, d, cached)

(* The code visits the facts in the order of a hash map; one fixed order    *)
(* does here, since the facts themselves arrive in every order.             *)
Flush(d, cached) ==
    LET Provisional(acc, f, r) ==
            /\ HasSourceLane(acc, r) /\ ~SourceLaneFinal(acc, r)
            /\ acc.row[r].lang = Target[f] /\ ~acc.fact[f].final
        Step(acc, f) ==
            LET near == CachedCandidate(f, acc, cached)
                far == UniqueCandidate(f, acc, Row)
                best == IF near # {} THEN near ELSE far
            IN  IF /\ acc.error = "none" /\ IsWaitingForRow(acc, f) /\ best # {}
                   /\ \A r \in near : ~Provisional(acc, f, r)
                THEN TryBind(acc, f, CHOOSE r \in best : TRUE)
                ELSE acc
    IN  IF d.error # "none" THEN d ELSE FoldLeft(Step, d, [f \in Fact |-> f])

BindIfAlone(d, f) ==
    LET alone == UniqueCandidate(f, d, Row)
    IN  IF d.error = "none" /\ IsWaitingForRow(d, f) /\ alone # {}
        THEN TryBind(d, f, CHOOSE q \in alone : TRUE)
        ELSE d

(* A stored revision reaches the row its fact is bound to, or leaves it.    *)
Reaches(d, f) ==
    LET r == d.fact[f].row
    IN  CASE r = Unbound -> d
          [] r # Unbound /\ ~Matches(f, r, d) -> Detach(d, f)
          [] OTHER -> ApplyFact(d, f, r)

(* upsert_translation_inbox_item: a fact that is present and final never    *)
(* changes again; any other revision is stored, and reaches the row the     *)
(* fact is bound to or the one it now singles out.                           *)
StoreFact(d, f, new) ==
    LET old == d.fact[f]
        kept == [new EXCEPT !.row = old.row]
    IN  CASE kept = old -> d
          [] old.state = "present" /\ old.final -> Fails(d, "conflict")
          [] OTHER -> BindIfAlone(Reaches([d EXCEPT !.fact[f] = kept], f), f)

(* What is left of a row without a source stays only if a translation       *)
(* depends on it.                                                            *)
ShellOf(d, r) ==
    CASE d.error # "none" \/ ~d.row[r].open        -> d
      [] \E l \in Claim : ReadyTranslation(d, r, l) -> Overlaid(d, r)
      [] OTHER -> [d EXCEPT !.row[r] = NoRow,
                            !.lane[r] = [l \in Claim |-> NoLane],
                            !.fact = [f \in Fact |-> IF @[f].row = r
                                                     THEN [@[f] EXCEPT !.row = Unbound]
                                                     ELSE @[f]]]

ReconcileIfOpen(d, r) == IF d.row[r].open THEN Reconcile(d) ELSE d

(* remove_partial_utterance: the source lane goes.                           *)
WithdrawSource(d, r) ==
    LET bare == [d EXCEPT !.row[r].place = {},
                          !.lane[r] = [l \in Claim |-> IF LaneIs(d, r, l, "source")
                                                       THEN NoLane ELSE @[l]]]
    IN  ShellOf(ReconcileIfOpen(ApplyBound(bare, r), r), r)

-----------------------------------------------------------------------------
Stores(d) == /\ row' = d.row /\ lane' = d.lane /\ fact' = d.fact

(* A refusal the collector does not expect is a failure of local           *)
(* persistence: what it committed before stays, and the collector ends.     *)
CommitOrEnd(d) ==
    /\ Stores(d)
    /\ refused' = d.error /\ phase' = IF d.error = "none" THEN "live" ELSE "ended"

(* What the collector does after either stream has changed the database.    *)
ThenReconcile(d) == Tx(d, Reconcile(d))

Rebind(d, cached) == ThenReconcile(Flush(d, cached))

(* The canonical stream revises row r, or opens it.                         *)
SourceArrives(r, claimed, place, settled, cached) ==
    /\ phase = "live" /\ r \notin retired /\ ~row[r].settled
    /\ LET stored == Tx(Database, StoreSource(Database, r, claimed, place, settled))
       IN  CommitOrEnd(Rebind(OpenWaiting(stored, r), cached))
    /\ UNCHANGED <<edited, retired>>

(* The process dies between two transactions of that step.                  *)
SourceArrivesAndCrash(r, claimed, place, settled) ==
    /\ phase = "live" /\ r \notin retired /\ ~row[r].settled
    /\ LET stored == StoreSource(Database, r, claimed, place, settled)
       IN  /\ stored.error = "none" /\ Stores(stored)
           /\ phase' = "terminal"
           /\ UNCHANGED <<edited, retired, refused>>

HasFinalOwner(d, r) == \E l \in Claim : ReadyTranslation(d, r, l) /\ d.lane[r][l].final

(* The canonical stream's whole speculative segment disappears.  A row that *)
(* a final translation keeps is given up: the segment never returns to it.  *)
(* That such a row gets its other languages' waiting lanes again is left    *)
(* out: a waiting lane is empty.                                            *)
Withdrawn(gone, r, cached) ==
    /\ CommitOrEnd(IF gone.error = "none" THEN Rebind(gone, cached) ELSE Tx(Database, gone))
    /\ retired' = IF gone.error = "none" /\ HasFinalOwner(gone, r)
                  THEN retired \cup {r} ELSE retired

SourceWithdrawn(r, cached) ==
    /\ phase = "live" /\ r \notin retired /\ row[r].open /\ ~row[r].settled
    /\ Withdrawn(WithdrawSource(Database, r), r, cached)
    /\ UNCHANGED edited

(* An auxiliary stream says a piece of its translation, revises it or takes *)
(* it back.  A refused revision is dropped and the capture goes on.         *)
Told(f, new, cached) ==
    /\ phase = "live" /\ new # [fact[f] EXCEPT !.row = Unbound]
    /\ LET d == StoreFact(Database, f, new)
       IN  CommitOrEnd(Flush(IF d.error = "conflict" THEN Database ELSE Tx(Database, d), cached))
    /\ UNCHANGED <<edited, retired>>

FactArrives(f, claimed, place, final, cached) ==
    Told(f, [lang |-> claimed, place |-> place, state |-> "present",
             final |-> final, row |-> Unbound], cached)

FactWithdrawn(f, place, cached) ==
    /\ fact[f].state = "present" /\ place \in {fact[f].place, {}}
    /\ Told(f, [lang |-> fact[f].lang, place |-> place, state |-> "withdrawn",
                final |-> FALSE, row |-> Unbound], cached)

(* A user corrects a final lane (RealtimeProjection has the protocol).      *)
Edit(r, l) ==
    /\ lane[r][l].state = "ready" /\ lane[r][l].final
    /\ edited' = edited \cup {<<r, l>>}
    /\ UNCHANGED <<row, lane, fact, retired, phase, refused>>

(* A translation that is still awaited will not come.                       *)
NotComing(v) == IF v.state = "waiting" THEN [v EXCEPT !.state = "unavailable"] ELSE v

(* The group ends.                                                          *)
CollectorEnds ==
    /\ phase = "live"
    /\ phase' = "ended"
    /\ lane' = [r \in Row |-> [l \in Claim |-> NotComing(lane[r][l])]]
    /\ UNCHANGED <<row, fact, edited, retired, refused>>

RunEnds ==
    /\ phase = "ended"
    /\ phase' = "terminal"
    /\ UNCHANGED <<row, lane, fact, edited, retired, refused>>

(* The process dies; the next start finds the run and interrupts it.        *)
Crash ==
    /\ phase \in {"live", "ended"}
    /\ phase' = "terminal"
    /\ UNCHANGED <<row, lane, fact, edited, retired, refused>>

(* Mutant: a start only binds what is still unbound.                         *)
RecoveredWithoutReplay == Reconcile(Database)

(* Every start replays the bound facts of a terminal run and binds the      *)
(* rest; an error leaves the database as it was.                            *)
Recovered ==
    LET Step(acc, r) == IF acc.error = "none" /\ \E f \in Fact : fact[f].row = r
                        THEN ApplyBound(acc, r) ELSE acc
    IN  Reconcile(FoldLeft(Step, Database, [r \in Row |-> r]))

Recover ==
    /\ phase \in {"terminal", "recovered"} /\ Recovered.error = "none"
    /\ phase' = "recovered"
    /\ row' = Recovered.row /\ lane' = Recovered.lane /\ fact' = Recovered.fact
    /\ UNCHANGED <<edited, retired, refused>>

FactsInit ==
    /\ row = [r \in Row |-> NoRow]
    /\ lane = [r \in Row |-> [l \in Claim |-> NoLane]]
    /\ fact = [f \in Fact |-> NoFact]
    /\ edited = {} /\ retired = {} /\ phase = "live" /\ refused = "none"

FactsNext ==
    \/ \E r \in Row, c \in Spoken, p \in Place, s \in BOOLEAN, k \in SUBSET Row :
          SourceArrives(r, c, p, s, k)
    \/ \E r \in Row, c \in Spoken, p \in Place, s \in BOOLEAN : SourceArrivesAndCrash(r, c, p, s)
    \/ \E r \in Row, k \in SUBSET Row : SourceWithdrawn(r, k)
    \/ \E f \in Fact, c \in Heard, p \in Place, s \in BOOLEAN, k \in SUBSET Row :
          FactArrives(f, c, p, s, k)
    \/ \E f \in Fact, p \in Place \cup {{}}, k \in SUBSET Row : FactWithdrawn(f, p, k)
    \/ \E r \in Row, l \in Claim : Edit(r, l)
    \/ CollectorEnds
    \/ RunEnds
    \/ Crash
    \/ Recover

FactsSpec == FactsInit /\ [][FactsNext]_vars

-----------------------------------------------------------------------------
(* What a reader has seen settle never changes under them: a final lane     *)
(* keeps its words and only gains more after them, whichever stream is      *)
(* revised, withdrawn, bound elsewhere or replayed at a restart; a settled  *)
(* source stays, and only its missing language may be filled in.             *)
SettledTextStays ==
    [][\A r \in Row :
         /\ \A l \in Lang : lane[r][l].role = "translation" /\ lane[r][l].final =>
               /\ lane'[r][l].role = "translation" /\ lane'[r][l].final
               /\ IsPrefix(lane[r][l].text, lane'[r][l].text)
         /\ SourceLaneFinal(Database, r) =>
               /\ \E l \in Claim : lane'[r][l].role = "source" /\ lane'[r][l].final
               /\ row'[r].place = row[r].place
               /\ row[r].lang \in {Und, row'[r].lang}]_vars

(* A translation says only what its stream still says of this row: every    *)
(* fact a lane is composed of is bound to the row and has not been taken    *)
(* back, in the stream's order, and a final lane has only final facts.       *)
(* (Two streams, three tables: a detach, a tombstone or a collected row      *)
(* that forgot the lane would leave words nobody said.)                      *)
LaneIsItsFacts ==
    \A r \in Row, l \in Lang : lane[r][l].role = "translation" =>
        /\ \A i \in DOMAIN lane[r][l].text :
              LET f == lane[r][l].text[i]
              IN  /\ fact[f].row = r /\ fact[f].state = "present"
                  /\ lane[r][l].final => fact[f].final
        /\ \A i, j \in DOMAIN lane[r][l].text :
              i < j => lane[r][l].text[i] < lane[r][l].text[j]

(* A binding is never left on a row the evidence no longer supports: after  *)
(* any revision of either side, a present fact bound to a row that has a     *)
(* source shares a stretch of the timeline with it.                          *)
BindingIsSupported ==
    \A f \in Fact : fact[f].row # Unbound =>
        /\ row[fact[f].row].open
        /\ fact[f].state = "present" /\ row[fact[f].row].place # {} =>
              Matches(f, fact[f].row, Database)

(* The replay at the next start leaves no words behind: in a lane whose      *)
(* bound facts are all final, the lane holds every one of them.              *)
RecoveredIsWhole ==
    phase = "recovered" =>
        \A r \in Row, l \in Lang :
            /\ BoundTo(Database, r, l) # {} /\ ComposedFinal(Database, r, l)
            /\ lane[r][l].role = "translation"
            => lane[r][l].final /\ lane[r][l].text = Composed(Database, r, l)

(* Every lane is what its facts say, every binding has its evidence, and a  *)
(* recovered run is whole.                                                   *)
LanesAreSound == FactsTypeOK /\ LaneIsItsFacts /\ BindingIsSupported /\ RecoveredIsWhole

(* An ordinary replacement of a speculative tail is not a failure of the     *)
(* whole group: no revision of either stream is one the store refuses.       *)
TailReplacementIsAccepted == refused # "conflict"

=============================================================================
