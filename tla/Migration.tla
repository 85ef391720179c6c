------------------------------ MODULE Migration ------------------------------
(***************************************************************************)
(* Opening the main database (vt-store/src/migration.rs): an empty file    *)
(* gets the current schema, older schemas are upgraded one version at a    *)
(* time, each version in one transaction that also writes user_version,    *)
(* and anything else is refused.  A process may die between any two of     *)
(* those transactions; the next launch dispatches on the version it finds. *)
(* One utterance stands for the rows an upgrade rewrites: its machine      *)
(* text, its language lanes and the user's correction of it that had not   *)
(* been applied when the application last stopped.                         *)
(***************************************************************************)
EXTENDS Integers, FiniteSets

CONSTANTS Lang,        \* primary language subtags
          Region,      \* what may follow the primary subtag
          Bare,        \* the region of a tag that has only the primary subtag
          Absent,      \* NULL, or an object that is not there
          MaxCrash     \* bound: processes that die while opening the database

Tag == Lang \X (Region \cup {Bare})

(* What each version added to the set of objects, by the version's name.   *)
Speakers == 24
SelectedLanguages == 25
Multilingual == 26
RealtimeLoro == 27
TranslationInbox == 28
TranscriptGaps == 29
RemoteArtifacts == 30
Oldest == 23
Current == 31
Supported == Oldest..Current            \* the versions a build has left behind
Dispatched == Supported \ {RemoteArtifacts}  \* run_migrations has an arm for them

VARIABLES
    db,       \* the database file
    app,      \* the process: down, upgrading, open or refused
    at,       \* the version the chain of upgrades has reached
    crashes   \* processes that died so far

vars == <<db, app, at, crashes>>

Primary(tag) == <<tag[1], Bare>>

(* A lane of the utterance: its text, its revision, the projection it      *)
(* waits for.                                                              *)
Lane(role, text, rev, projection) ==
    [role |-> role, text |-> text, rev |-> rev, projection |-> projection]
NoLane == Lane(Absent, Absent, 0, 0)
NoLanes == [t \in Tag |-> NoLane]
Lanes(d) == {t \in Tag : d.lanes[t] # NoLane}

(* The object names a version has, and the text of the two objects whose   *)
(* name did not change with their meaning.                                 *)
ObjectsOf(v) == {n \in Speakers..RemoteArtifacts : n <= v}

Fresh == [version |-> 0, objects |-> {}, runs |-> Absent, index |-> Absent,
          row |-> Absent, lanes |-> NoLanes, mutation |-> Absent,
          caption |-> FALSE, desired |-> 0, output |-> Absent, provenance |-> FALSE]

(* The rows a database of version v may hold: an utterance with its        *)
(* languages, and a correction of one of its complete lanes.               *)
Rows(v) ==
    LET tags == IF v >= RealtimeLoro THEN {t \in Tag : t[2] = Bare} ELSE Tag
    IN  {r \in [source : tags, trans : tags \cup {Absent}, done : BOOLEAN,
                rev : {1, 2}, lane : {"source", "translated", Absent}] :
           /\ r.trans # r.source
           /\ r.lane = "translated" => r.trans # Absent
           /\ r.lane # Absent => r.done}

RowLanes(r, projection) ==
    [t \in Tag |->
       CASE t = r.source -> Lane("source", "original", r.rev, projection)
         [] t = r.trans  -> Lane("translation", "translation", r.rev, projection)
         [] OTHER        -> NoLane]

MutationOf(r, v) ==
    IF r.lane = Absent THEN Absent
    ELSE [lane     |-> r.lane,
          language |-> IF v < Multilingual THEN Absent
                       ELSE IF r.lane = "source" THEN r.source ELSE r.trans,
          edit     |-> IF v < RealtimeLoro THEN r.rev ELSE 0,
          variant  |-> IF v < RealtimeLoro THEN Absent ELSE r.rev]

(* The database as version v of the program left it.                       *)
Left(v, r, caption, output) ==
    LET watermark == IF v >= RealtimeLoro /\ r.done THEN 1 ELSE 0
    IN  [version  |-> v,
         objects  |-> ObjectsOf(v),
         runs     |-> IF v >= RemoteArtifacts THEN "stt-async-v5" ELSE "older",
         index    |-> CASE v < TranslationInbox -> Absent
                        [] v = Current -> "plain"
                        [] OTHER -> "unique",
         row      |-> [source |-> r.source, trans |-> r.trans, done |-> r.done,
                       rev |-> r.rev, projection |-> watermark],
         lanes    |-> IF v >= Multilingual THEN RowLanes(r, watermark) ELSE NoLanes,
         mutation |-> MutationOf(r, v),
         caption  |-> caption /\ v \in {SelectedLanguages, Multilingual},
         desired  |-> watermark,
         output   |-> output,
         provenance |-> v < RemoteArtifacts \/ output]

Init ==
    /\ db \in {Fresh}
              \cup UNION {{Left(v, r, caption, output) :
                             r \in Rows(v), caption \in BOOLEAN, output \in BOOLEAN} :
                          v \in Supported}
    /\ app = "down" /\ at = 0
    /\ crashes = 0

-----------------------------------------------------------------------------
(* validate_vNN_baseline: the object names are exactly the version's, and  *)
(* from 30 on the two objects that kept their name are read as well.       *)
ValidBaseline(d, v) ==
    /\ d.objects = ObjectsOf(v)
    /\ v >= RemoteArtifacts => d.runs = "stt-async-v5"
    /\ v = Current => d.index # "unique"

(* migrate_v23_to_v24: the speaker tables.                                 *)
AddSpeakers(d) ==
    [d EXCEPT !.objects = @ \cup {Speakers}, !.version = Speakers]

(* migrate_v24_to_v25: the profile table with its selected languages.      *)
AddSelectedLanguages(d) ==
    [d EXCEPT !.objects = @ \cup {SelectedLanguages}, !.version = SelectedLanguages]

(* migrate_v25_to_v26: one lane per language of the utterance, and the     *)
(* correction gets the language of the column it was addressed to.         *)
AddLanes(d) ==
    LET r == d.row
    IN  [d EXCEPT !.objects = @ \cup {Multilingual}, !.version = Multilingual,
           !.lanes = [t \in Tag |->
                        CASE t = r.source -> Lane("source", "original", r.rev, 0)
                          [] t = r.trans  -> Lane("translation", "translation", r.rev, 0)
                          [] OTHER        -> NoLane],
           !.mutation = IF @ = Absent THEN Absent
                        ELSE [@ EXCEPT !.language =
                                IF d.mutation.lane = "source" THEN r.source ELSE r.trans]]

(* migrate_v26_to_v27 refuses a row with two lanes of one primary          *)
(* language.                                                               *)
Collides(d) ==
    \/ \E s, t \in Lanes(d) : s # t /\ Primary(s) = Primary(t)
    \/ d.row.trans # Absent /\ Primary(d.row.source) = Primary(d.row.trans)

(* Mutant: the correction keeps the revision version 26 gave it.           *)
AddProjectionKeepingEdit(d) ==
    LET watermark == IF d.row.done THEN 1 ELSE 0
        renamed == [t \in Tag |->
                      IF t[2] = Bare /\ \E s \in Lanes(d) : Primary(s) = t
                      THEN [d.lanes[CHOOSE s \in Lanes(d) : Primary(s) = t]
                              EXCEPT !.projection = watermark]
                      ELSE NoLane]
        correction == [d.mutation EXCEPT
                         !.language = Primary(d.mutation.language),
                         !.variant = renamed[Primary(d.mutation.language)].rev]
    IN  [d EXCEPT !.objects = @ \cup {RealtimeLoro}, !.version = RealtimeLoro,
           !.row = [d.row EXCEPT !.source = Primary(d.row.source), !.projection = watermark,
                      !.trans = IF d.row.trans = Absent THEN Absent ELSE Primary(d.row.trans)],
           !.lanes = renamed,
           !.desired = watermark,
           !.mutation = IF @ = Absent THEN Absent ELSE correction]

(* migrate_v26_to_v27: languages become primary subtags everywhere, what   *)
(* is complete is marked to be projected, and the correction is            *)
(* re-addressed: its edit revision starts at zero and the machine revision *)
(* it expects is the lane's.                                               *)
AddProjection(d) ==
    LET watermark == IF d.row.done THEN 1 ELSE 0
        renamed == [t \in Tag |->
                      IF t[2] = Bare /\ \E s \in Lanes(d) : Primary(s) = t
                      THEN [d.lanes[CHOOSE s \in Lanes(d) : Primary(s) = t]
                              EXCEPT !.projection = watermark]
                      ELSE NoLane]
        correction == [d.mutation EXCEPT
                         !.language = Primary(d.mutation.language),
                         !.edit = 0,
                         !.variant = renamed[Primary(d.mutation.language)].rev]
    IN  [d EXCEPT !.objects = @ \cup {RealtimeLoro}, !.version = RealtimeLoro,
           !.row = [d.row EXCEPT !.source = Primary(d.row.source), !.projection = watermark,
                      !.trans = IF d.row.trans = Absent THEN Absent ELSE Primary(d.row.trans)],
           !.lanes = renamed,
           !.desired = watermark,
           !.mutation = IF @ = Absent THEN Absent ELSE correction]

(* migrate_v27_to_v28: the translation inbox, one segment per lane.        *)
AddInbox(d) ==
    [d EXCEPT !.objects = @ \cup {TranslationInbox}, !.version = TranslationInbox,
              !.index = "unique"]

(* migrate_v28_to_v29: the table of gaps.                                  *)
AddGaps(d) ==
    [d EXCEPT !.objects = @ \cup {TranscriptGaps}, !.version = TranscriptGaps]

(* migrate_v29_to_v30: the run table is rebuilt, a run with no provider    *)
(* output loses its post-stop provenance, and the remote claims get a      *)
(* table.  The transaction writes CURRENT_VERSION, which was this version  *)
(* when the step was written.                                              *)
AddRemoteArtifacts(d) ==
    [d EXCEPT !.objects = @ \cup {RemoteArtifacts}, !.version = Current,
              !.runs = "stt-async-v5",
              !.provenance = d.output]

(* migrate_v30_to_v31: a lane may hold several segments.                   *)
RelaxInbox(d) ==
    [d EXCEPT !.index = "plain", !.version = Current]

Upgraded(d, v) ==
    CASE v = Oldest            -> AddSpeakers(d)
      [] v = Speakers          -> AddSelectedLanguages(d)
      [] v = SelectedLanguages -> AddLanes(d)
      [] v = Multilingual      -> AddProjection(d)
      [] v = RealtimeLoro      -> AddInbox(d)
      [] v = TranslationInbox  -> AddGaps(d)
      [] v = TranscriptGaps    -> AddRemoteArtifacts(d)
      [] v = RemoteArtifacts   -> RelaxInbox(d)

-----------------------------------------------------------------------------
(* install_current_baseline: everything in one transaction.                *)
Baseline(d) == [d EXCEPT !.objects = ObjectsOf(Current),
                         !.runs = "stt-async-v5", !.index = "plain"]
Install ==
    /\ app = "down" /\ db.version = 0
    /\ db' = [Baseline(db) EXCEPT !.version = Current]
    /\ app' = "upgrading" /\ at' = Current
    /\ UNCHANGED crashes

(* run_migrations dispatches on user_version.                              *)
Launch ==
    /\ app = "down" /\ db.version \in Dispatched
    /\ app' = "upgrading" /\ at' = db.version
    /\ UNCHANGED <<db, crashes>>

(* No arm for the version.                                                 *)
RefuseVersion ==
    /\ app = "down" /\ db.version \notin Dispatched \cup {0}
    /\ app' = "refused"
    /\ UNCHANGED <<db, at, crashes>>

Refuse ==
    /\ app = "upgrading"
    /\ \/ ~ValidBaseline(db, at)
       \/ at = Multilingual /\ Collides(db)
    /\ app' = "refused"
    /\ UNCHANGED <<db, at, crashes>>

(* One version's transaction; the chain goes on to the next version        *)
(* whatever user_version now says.                                         *)
Upgrade ==
    /\ app = "upgrading" /\ at # Current
    /\ ValidBaseline(db, at)
    /\ at = Multilingual => ~Collides(db)
    /\ db' = Upgraded(db, at)
    /\ at' = at + 1
    /\ UNCHANGED <<app, crashes>>

(* The last validation, then retire_legacy_common_caption_profile_state.   *)
Retire ==
    /\ app = "upgrading" /\ at = Current /\ ValidBaseline(db, Current)
    /\ db' = [db EXCEPT !.caption = FALSE]
    /\ app' = "open"
    /\ UNCHANGED <<at, crashes>>

(* The process dies, or the user quits and starts the application again.   *)
Die ==
    /\ app # "down" /\ crashes < MaxCrash
    /\ app' = "down"
    /\ crashes' = crashes + 1
    /\ UNCHANGED <<db, at>>

Next == Install \/ Launch \/ RefuseVersion \/ Refuse \/ Upgrade \/ Retire \/ Die
Spec == Init /\ [][Next]_vars /\ WF_vars(Install \/ Launch \/ RefuseVersion \/ Refuse \/ Upgrade \/ Retire)

-----------------------------------------------------------------------------
MigrationTypeOK ==
    /\ db.version \in {0} \cup Supported
    /\ db.objects \subseteq Speakers..RemoteArtifacts
    /\ app \in {"down", "upgrading", "open", "refused"}
    /\ at \in {0} \cup Supported
    /\ crashes \in 0..MaxCrash

(* commit_projection_mutation would accept the correction once its lane    *)
(* has been projected: the lane is there, in the role the correction       *)
(* names, at the revision it expects, and no override is newer.            *)
Committable(d) ==
    LET lane == d.lanes[d.mutation.language]
    IN  /\ lane.role = IF d.mutation.lane = "source" THEN "source" ELSE "translation"
        /\ lane.rev = d.mutation.variant
        /\ d.row.done
        /\ d.mutation.edit = 0

(* What the user had is there when the application opens, whatever version *)
(* wrote it and wherever an upgrade was cut short: both texts are lanes of *)
(* their own language, everything complete waits for a projection the      *)
(* watermark will reach, and a correction that had not been applied can    *)
(* still be.  It is about the row rewrites of migrate_v25_to_v26 and       *)
(* migrate_v26_to_v27.                                                     *)
UpgradeKeepsWork ==
    app = "open" /\ db.row # Absent =>
        /\ db.lanes[db.row.source].text = "original"
        /\ db.row.trans # Absent => db.lanes[db.row.trans].text = "translation"
        /\ \A t \in Lanes(db) : db.row.done => db.lanes[t].projection \in 1..db.desired
        /\ db.mutation # Absent => Committable(db)

(* A database of a version the program says it upgrades is never refused,  *)
(* at the first launch or after an upgrade that was cut short: only a row  *)
(* with two lanes of one primary language may stop an upgrade, and it      *)
(* stops it before anything is rewritten.  It is about the arms of         *)
(* run_migrations and the version each transaction leaves behind.          *)
UpgradeResumes ==
    app = "refused" => db.version = Multilingual /\ Collides(db)
=============================================================================
