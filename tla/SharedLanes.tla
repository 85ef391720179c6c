------------------------------ MODULE SharedLanes -----------------------------
(***************************************************************************)
(* One block of a shared recording at its host: the facts of SQLite, the   *)
(* shared document they are projected into, and the shadow by which the    *)
(* host tells a lane the machine wrote from one a person corrected         *)
(* (vt-ffi/src/shared_session_docs.rs).  How a correction gets from one    *)
(* node's document to another's is SharedDocument.                         *)
(*                                                                         *)
(* A refresh is one step: it runs under the lock of the shadows.           *)
(***************************************************************************)
EXTENDS Naturals

CONSTANTS BlockLane,
          Original,    \* the lane of the original words
          Wording,
          Blank,       \* no text: a lane that is not there, an empty source
          Unknown,     \* no entry in the shadow
          MaxTurn      \* bound: changes of facts, corrections, restarts, deletions

ASSUME LanesAssumption ==
    Original \in BlockLane /\ Blank \notin Wording /\ Unknown \notin Wording \cup {Blank}

Translation == BlockLane \ {Original}
TextOrBlank == Wording \cup {Blank}

VARIABLES
    fact,      \* the visible text of each finished lane (list_utterances)
    override,  \* the lanes whose visible text is the host's own correction
    block,     \* the block of the shared document, in memory
    file,      \* and in the document's file
    shadow,    \* per lane: what the machine wrote last, of this process
    said,      \* history: per lane, the last correction in this process's life
    firm,      \* history: the lanes whose shadow was known when they were corrected
    turns

laneVars == <<fact, override, block, file, shadow, said, firm, turns>>

NoText == [l \in BlockLane |-> Blank]
NoBlock == [there |-> FALSE, lane |-> NoText]
NoShadow == [l \in BlockLane |-> Unknown]

Turn == turns < MaxTurn /\ turns' = turns + 1

\* t2_machine_block_write: nothing before a lane is finished.
Writes == \E l \in BlockLane : fact[l] # Blank

\* A translation whose shadow is missing and whose text is not the machine's is
\* left alone this once, and what stands there is taken for the machine's.
Incoming(l) == l \in Translation /\ fact[l] # Blank
FirstSeen(l) ==
    Incoming(l) /\ shadow[l] = Unknown /\ block.lane[l] \notin {Blank, fact[l]}

\* One whose text is no more what the machine wrote belongs to a person.
Frozen(l) ==
    \/ FirstSeen(l)
    \/ Incoming(l) /\ shadow[l] \notin {Unknown, block.lane[l]} /\ block.lane[l] # Blank

\* The source is always written: one that was taken over, with the text it has.
SourceTaken ==
    /\ block.there
    /\ block.lane[Original] # (IF shadow[Original] = Unknown THEN fact[Original] ELSE shadow[Original])

\* persist_shared_session_doc, of a document that was changed; it may fail.
Persisted == file' = file \/ (block' # block /\ file' = block')

\* Mutant: the lanes a person took over are not told to machine_upsert_block.
WrittenWithoutFrozen(l) ==
    IF Incoming(l) \/ (l = Original /\ ~SourceTaken) THEN fact[l] ELSE block.lane[l]

\* machine_upsert_block
Written(l) ==
    IF (Incoming(l) /\ ~Frozen(l)) \/ (l = Original /\ ~SourceTaken)
    THEN fact[l] ELSE block.lane[l]

\* The shadow before anything is decided, and once something is to be written.
Sighted == [l \in BlockLane |-> IF FirstSeen(l) THEN block.lane[l] ELSE shadow[l]]
ShadowAfter ==
    [l \in BlockLane |->
        IF l = Original \/ (Incoming(l) /\ ~Frozen(l)) THEN Written(l) ELSE Sighted[l]]

\* refresh_shared_session_from_facts, at each acknowledged projection and when
\* sharing is enabled.  The shadow is written first, and stays if the write of
\* the document fails.
Refresh ==
    LET result == [there |-> TRUE, lane |-> [l \in BlockLane |-> Written(l)]]
    IN  /\ Writes
        /\ block' \in {block, result} /\ Persisted
        /\ shadow' = IF result = block THEN Sighted ELSE ShadowAfter
        /\ UNCHANGED <<fact, override, said, firm, turns>>

\* The provider finishes a lane, or revises it; an override hides what it says.
FactComes(l) ==
    /\ Turn /\ l \notin override
    /\ \E t \in Wording : fact' = [fact EXCEPT ![l] = t]
    /\ UNCHANGED <<override, block, file, shadow, said, firm>>

Corrected(l, t) ==
    /\ block' = [block EXCEPT !.lane[l] = t] /\ Persisted
    /\ said' = [said EXCEPT ![l] = t]
    /\ firm' = IF shadow[l] \in {Unknown, t} THEN firm \ {l} ELSE firm \cup {l}

\* A viewer's correction is merged, or the host corrects the shared document.
Correct(l) ==
    /\ Turn /\ block.there
    /\ \E t \in Wording : Corrected(l, t)
    /\ UNCHANGED <<fact, override, shadow>>

\* commit_projection_mutation has taken the host's correction of its own
\* transcript; propagate_lane_edit_to_shared_session carries it over, or is
\* refused: the recording is not shared, or its block is not there yet.
HostCorrects(l) ==
    /\ Turn /\ fact[l] # Blank
    /\ \E t \in Wording :
         /\ fact' = [fact EXCEPT ![l] = t]
         /\ (block.there /\ Corrected(l, t)) \/ UNCHANGED <<block, file, said, firm>>
    /\ override' = override \cup {l}
    /\ UNCHANGED shadow

Forgotten == shadow' = NoShadow /\ said' = NoShadow /\ firm' = {}

\* The host starts again: the document is read from its file, the shadow is not.
HostRestarts ==
    /\ Turn
    /\ block' = file
    /\ Forgotten
    /\ UNCHANGED <<fact, override, file>>

\* delete_shared_session: every trace of the document in memory, then its file.
DeleteShared ==
    /\ Turn
    /\ file' \in {file, NoBlock} /\ block' = file'
    /\ Forgotten
    /\ UNCHANGED <<fact, override>>

LanesInit ==
    /\ fact = NoText /\ override = {} /\ block = NoBlock /\ file = NoBlock
    /\ shadow = NoShadow /\ said = NoShadow /\ firm = {}
    /\ turns = 0

LanesNext ==
    \/ Refresh \/ HostRestarts \/ DeleteShared
    \/ \E l \in BlockLane : FactComes(l) \/ Correct(l) \/ HostCorrects(l)

LanesSpec == LanesInit /\ [][LanesNext]_laneVars

-----------------------------------------------------------------------------
\* What the code's header says of every lane (shared_session_docs.rs:17-20): once
\* its text differs from what the machine wrote last, a person has taken it over
\* and the machine lets it be.
MachineYields == \A l \in firm : block.lane[l] = said[l]

\* What refresh_shared_session_from_facts does keep: a correction of a translation
\* the machine had written in this life of the process stands through every later
\* fact, refresh, refused or failed write, and correction of another lane.
TranslationsStand == \A l \in firm \ {Original} : block.lane[l] = said[l]
=============================================================================
