------------------------ MODULE CaptureLifecycleProofs ------------------------
(***************************************************************************)
(* TLAPS proofs about CaptureLifecycle, for any number of sessions, frames, *)
(* faults, crashes and process starts.                                     *)
(*                                                                         *)
(* CaptureInv is inductive.  It says who may be at work beside whom (the   *)
(* gate, the mic thread, the owner in the slot), what an operation knows   *)
(* of its session at each of its steps, and what the stores say of each    *)
(* session, whatever happened to it.  Each action has a lemma <Action>Keeps *)
(* and falls to one of four frames: MoveKeeps (one thread moves, nothing   *)
(* is written), SlotKeeps (the mic thread about the owner in the slot),    *)
(* WorkKeeps (an operation under way about its own session) and MildKeeps  *)
(* (the collector, a user's request, a destruction in progress).  The      *)
(* frames say once what a step about one session spares.                   *)
(***************************************************************************)
EXTENDS CaptureLifecycle, TLAPS

-----------------------------------------------------------------------------
(* Who is at work. *)

\* The steps of each kind of operation.
Starting == {"key", "journal", "attach", "remote", "rollback"}
Purging == {"purge", "purge_files", "purge_rows", "purge_close"}
Ending == {"shut", "mark", "stop_journal", "teardown", "redetach"}
Indexed == {"meta", "ledger", "read", "write", "complete", "remove_journal"}
Saving == {"finalize"} \cup Indexed
Retaining == {"retain_files", "retain_key"}
MicStep == {"idle", "cas", "report"} \cup Ending \cup (Saving \ {"complete"})

\* An operation is at a step of its kind, and names the session it is about.
KindFits(o) ==
    /\ o.pc \in {"create"} \cup Starting => o.kind = "start"
    /\ o.pc \in Purging => o.kind \in {"start", "purge", "startup"}
    /\ o.pc \in {"shut", "stop_journal"} => o.kind \in {"stop", "interrupt"}
    /\ o.pc \in {"mark", "teardown", "redetach", "report"} => o.kind = "interrupt"
    /\ o.pc \in Saving => o.kind \in {"stop", "interrupt", "teardown", "recover", "startup"}
    /\ o.pc \in {"complete", "interrupt_local"} \cup Retaining => o.kind = "stop"
    /\ o.pc \in {"pick", "load"} => o.kind \in {"recover", "startup"}
    /\ o.pc = "detach" => o.kind = "recover"
    /\ o.pc = "purges" => o.kind = "startup"
    /\ o.pc = "cas" => o.kind \in {"pause", "resume"}
    /\ o.kind = "purge" => o.pc \in Purging
    /\ o.pc \in {"shut", "mark", "teardown"} => ~o.finalized
    /\ o.pc \notin {"idle", "create", "pick", "purges", "down"} => o.s \in Session

\* The gate and the mutex between them: while the gate is at work the slot is
\* empty and the mic thread at rest, unless it purges another session.
OneAtWork ==
    /\ ~At("gate", "idle") =>
          \/ active = NoOwner /\ At("mic", "idle")
          \/ op["gate"].kind = "purge" /\ Sub("gate") \notin {active.s, Sub("mic")}
    /\ op["mic"].pc \in MicStep
    /\ ~At("mic", "idle") =>
          IF At("mic", "cas") THEN Sub("mic") = active.s
          ELSE active = NoOwner /\ op["mic"].kind \in {"interrupt", "teardown"}
    /\ At("gate", "cas") = FALSE

\* The owner in the slot has started, its row agrees with it, and its journal
\* has what it accepted.
OwnerHolds ==
    IF active.s = NoSession THEN active = NoOwner
    ELSE /\ active.state \in {"recording", "paused"}
         /\ run[active.s].state = active.state
         /\ active.s \in past.started
         /\ disk[active.s].journal = accepted[active.s]

-----------------------------------------------------------------------------
(* What an operation knows of its session at each of its steps. *)

\* The capture has its row.
Present(s) == run[s].state # "absent"

\* start_capture: the row is new and nothing has been accepted.
StartKnows(o) ==
    /\ o.pc \in Starting =>
          run[o.s].state = "recording" /\ run[o.s].frames = 0 /\ o.s \notin past.started
    /\ o.pc \in {"journal", "attach", "remote"} => o.s \in past.erased \/ disk[o.s].key
    /\ o.pc \in {"attach", "remote"} => disk[o.s].journal = 0

\* A purge writes the tombstone before the files go, and these before the rows.
PurgeKnows(o) ==
    /\ o.pc \in Purging => o.s \in past.created
    /\ o.pc \in Purging \ {"purge"} => o.s \in tomb
    /\ o.pc \in {"purge_rows", "purge_close"} => disk[o.s] = NoFiles
    /\ o.pc = "purge_close" => ~Present(o.s) /\ index[o.s] = NoIndex /\ rec[o.s] = NoRec
    /\ o.kind = "startup" /\ o.pc \in Purging \cup {"purges"} => o.todo \subseteq tomb \ {o.s}

\* The state an end of this kind writes.
EndState(o) == IF o.kind = "stop" THEN "completed" ELSE "interrupted"

\* The end of a capture: the row is there, and no longer active once it says so.
EndKnows(o) ==
    /\ o.pc \in Ending \cup Saving \cup {"report"} => Present(o.s)
    /\ o.pc = "shut" => run[o.s].state \in Unfinished
    /\ o.pc \in Indexed /\ o.kind # "stop" => run[o.s].state = "interrupted"
    /\ o.pc = "load" => run[o.s].state = "interrupted"
    /\ o.pc \in {"remove_journal"} \cup Retaining => run[o.s].state = EndState(o)
    /\ o.pc = "retain_key" => o.s \in past.erased
    /\ o.kind = "startup" /\ o.pc \notin Purging \cup {"purges"} =>
          \A s \in o.todo : run[s].state = "interrupted"

AudioKnows(o) ==
    Kept(o.s) =>
        /\ o.pc \in Ending \cup {"finalize"} => disk[o.s].journal = accepted[o.s]
        /\ o.pc = "finalize" \/ (o.pc = "redetach" /\ o.finalized) =>
              disk[o.s].chunks = accepted[o.s]
        /\ o.pc \in Indexed =>
              disk[o.s].chunks = accepted[o.s] /\ run[o.s].path /\ run[o.s].frames = accepted[o.s]
        /\ o.pc \in Indexed \ {"meta"} => index[o.s].path
        /\ o.pc \in Indexed \ {"meta", "ledger"} => index[o.s].ledger = "kept"
        /\ o.pc \in Indexed /\ o.kind = "stop" => disk[o.s].journal = accepted[o.s]
        /\ o.pc \in {"complete", "remove_journal"} => rec[o.s].status = EndState(o)

Knows(o) == KindFits(o) /\ StartKnows(o) /\ PurgeKnows(o) /\ EndKnows(o) /\ AudioKnows(o)

-----------------------------------------------------------------------------
(* What the stores say of one session. *)

\* What was accepted is in the journal or whole in the chunks.
Survives(s) ==
    Kept(s) =>
        /\ disk[s].key
        /\ \/ disk[s].journal = accepted[s]
           \/ /\ disk[s].journal = NoFile /\ disk[s].chunks = accepted[s]
              /\ run[s].path /\ run[s].frames = accepted[s]
              /\ index[s].path /\ index[s].ledger = "kept"
              /\ run[s].state \in {"completed", "interrupted"}
              /\ rec[s].status = run[s].state

\* The row's durable frame count claims no more than was accepted.
Backed(s) == Kept(s) => run[s].frames <= accepted[s]

\* A session with neither row nor tombstone has left nothing.
Final(s) ==
    ~Present(s) /\ s \notin tomb => disk[s] = NoFiles /\ index[s] = NoIndex /\ rec[s] = NoRec

\* What there is to know of a session follows its creation.
Dated(s) ==
    /\ Present(s) \/ s \in tomb \cup past.started \cup past.retained => s \in past.created
    /\ s \notin past.started => accepted[s] = 0
    /\ s \in past.retained => "facts" \in text[s] \/ ~Present(s)

\* A tombstone stands over what was erased on purpose and is not active.
Buried(s) == s \in tomb => s \in past.erased /\ run[s].state \notin Unfinished

\* The operation that ends s has yet to write that it is over.
Handing(th, s) ==
    Sub(th) = s /\ op[th].kind = "interrupt" /\ op[th].pc \in {"shut", "mark", "teardown"}

\* An unfinished capture is in the slot, in the registry, or on its way there.
Owned(s) ==
    s \in past.started /\ run[s].state \in Unfinished =>
        \/ active.s = s \/ s \in detached \/ At("gate", "down")
        \/ \E th \in Thread : Handing(th, s)

\* The collector of a run lives as long as its owner; health and text after it.
Watched(s) ==
    /\ col[s] # "none" => active.s = s \/ \E th \in Thread : Sub(th) = s /\ At(th, "shut")
    /\ run[s].state \in Terminal => run[s].health = "off"
    /\ s \in past.retained => run[s].state \notin Unfinished
    /\ s \in past.retained => text[s] = {"facts"} \/ ~Present(s)

\* What holds of every session, the late collector apart.
SessionOK(s) ==
    /\ Survives(s) /\ Backed(s) /\ Final(s) /\ Dated(s) /\ Buried(s) /\ Owned(s)
    /\ s \notin past.outlived => Watched(s)

\* A destruction in progress was asked for.
DestroyHolds == ui.s # NoSession => ui.s \in past.erased

\* The inductive invariant.
CaptureInv ==
    /\ TypeOK /\ OneAtWork /\ OwnerHolds /\ DestroyHolds
    /\ \A th \in Thread : Knows(op[th])
    /\ \A s \in Session : SessionOK(s)

-----------------------------------------------------------------------------
(* A step of one operation about one session spares every other. *)

Spares(t) ==
    /\ run'[t] = run[t] /\ rec'[t] = rec[t] /\ index'[t] = index[t] /\ disk'[t] = disk[t]
    /\ text'[t] = text[t] /\ col'[t] = col[t] /\ accepted'[t] = accepted[t]
    /\ t \in tomb' <=> t \in tomb
    /\ t \in detached' <=> t \in detached
    /\ t \in past'.created <=> t \in past.created
    /\ t \in past'.started <=> t \in past.started
    /\ t \in past'.erased <=> t \in past.erased
    /\ t \in past'.retained <=> t \in past.retained
    /\ t \in past'.outlived <=> t \in past.outlived

\* Thread th takes a step about s: the other thread, the slot of another
\* session and what the stores say of it are as they were.
Touches(th, s) ==
    /\ \A t \in Session \ {s} : Spares(t)
    /\ \A other \in Thread \ {th} : op'[other] = op[other]
    /\ active' = active \/ active.s \in {s, NoSession}
    /\ ~At(th, "down")
    /\ Sub(th) = s \/ op[th].pc \notin {"shut", "mark", "teardown"}

\* The stores say of another session what they said.
LEMMA SparedSession ==
    ASSUME CaptureAssumption, CaptureInv, NEW th \in Thread, NEW s, Touches(th, s),
           NEW t \in Session \ {s}
    PROVE  SessionOK(t)'
  <1>0. Spares(t)
    BY DEF Touches
  <1>1. (Survives(t) /\ Backed(t) /\ Final(t) /\ Dated(t) /\ Buried(t))'
    BY <1>0 DEF CaptureInv, SessionOK, Spares, Survives, Backed, Final, Dated, Buried, Kept, Present
  <1>2. Owned(t)'
    BY <1>0 DEF CaptureInv, SessionOK, Spares, Owned, Handing, Touches, At, Sub, Thread,
       CaptureAssumption
  <1>3. (t \notin past.outlived => Watched(t))'
    BY <1>0 DEF CaptureInv, SessionOK, Spares, Watched, Touches, At, Sub, Thread, Present,
       CaptureAssumption
  <1> QED
    BY <1>1, <1>2, <1>3 DEF SessionOK

\* A thread that works on another session knows what it knew.
LEMMA SparedThread ==
    ASSUME CaptureAssumption, CaptureInv, NEW th \in Thread, NEW s, Touches(th, s),
           NEW other \in Thread \ {th}, Sub(other) = NoSession \/ Sub(other) # s,
           op[other].kind # "startup"
    PROVE  Knows(op[other])'
  <1>0. op[other].s = NoSession \/ (op[other].s \in Session /\ Spares(op[other].s))
    BY DEF Touches, CaptureInv, TypeOK, Op, Sub
  <1>1. op'[other] = op[other]
    BY DEF Touches
  <1>2. Knows(op[other])
    BY DEF CaptureInv
  <1>4. KindFits(op[other])'
    BY <1>1, <1>2 DEF Knows, KindFits
  <1>5. StartKnows(op[other])'
    BY <1>0, <1>1, <1>2 DEF Knows, KindFits, StartKnows, Spares, Starting, CaptureAssumption
  <1>6. PurgeKnows(op[other])'
    BY <1>0, <1>1, <1>2 DEF Knows, KindFits, PurgeKnows, Spares, Purging, CaptureAssumption, Present
  <1>7. EndKnows(op[other])'
    BY <1>0, <1>1, <1>2 DEF Knows, KindFits, EndKnows, Spares, Ending, Saving, Indexed, Retaining,
       EndState, CaptureAssumption, Present
  <1>8. AudioKnows(op[other])'
    BY <1>0, <1>1, <1>2 DEF Knows, KindFits, AudioKnows, Spares, Ending, Saving, Indexed,
       EndState, Kept, CaptureAssumption
  <1> QED
    BY <1>4, <1>5, <1>6, <1>7, <1>8 DEF Knows

\* Two threads that are both at work are not about one session.
LEMMA Elsewhere ==
    ASSUME CaptureAssumption, CaptureInv, NEW th \in Thread, ~At(th, "idle"),
           NEW other \in Thread \ {th}
    PROVE  /\ \/ Sub(other) = NoSession
              \/ /\ Sub(other) # Sub(th)
                 /\ op[th].kind \in {"purge", "interrupt", "teardown", "pause", "resume"}
           /\ op[other].kind # "startup"
  BY DEF CaptureInv, OneAtWork, TypeOK, At, Sub, Thread, Knows, KindFits, Idle, CaptureAssumption,
         NoOwner, Purging, Starting, Saving, Indexed, Ending, Retaining, MicStep

\* A step about one session need only leave that session and thread in order.
LEMMA StepKeeps ==
    ASSUME CaptureAssumption, CaptureInv, NEW th \in Thread, NEW s, Touches(th, s),
           \A other \in Thread \ {th} :
               /\ Sub(other) = NoSession \/ Sub(other) # s
               /\ op[other].kind # "startup",
           TypeOK', OneAtWork', OwnerHolds', DestroyHolds', Knows(op[th])',
           s \in Session => SessionOK(s)'
    PROVE  CaptureInv'
  <1>1. \A t \in Session : SessionOK(t)'
    BY SparedSession
  <1>2. \A other \in Thread : Knows(op[other])'
    BY SparedThread
  <1> QED
    BY <1>1, <1>2 DEF CaptureInv

(* What a step of the collector, of a user or of a destruction leaves of s. *)
Mild(s) ==
    /\ UNCHANGED <<op, active, tomb, detached>>
    /\ run'[s].state = run[s].state /\ run'[s].path = run[s].path /\ run'[s].frames = run[s].frames
    /\ disk'[s].journal = disk[s].journal /\ (disk'[s].key = disk[s].key \/ s \in past'.erased)
    /\ Kept(s)' => Kept(s) /\ disk'[s] = disk[s] /\ index'[s] = index[s]
    /\ rec'[s].status = rec[s].status /\ accepted'[s] = accepted[s]
    /\ s \in past'.created <=> s \in past.created
    /\ s \in past'.started <=> s \in past.started
    /\ s \in past.erased => s \in past'.erased
    /\ s \in past'.retained <=> s \in past.retained
    /\ s \in past'.outlived <=> s \in past.outlived
    /\ text[s] \subseteq text'[s]
    /\ disk[s] = NoFiles => disk'[s] = NoFiles
    /\ index[s] = NoIndex => index'[s] = NoIndex
    /\ rec[s] = NoRec => rec'[s] = NoRec

\* A mild step leaves the session in order.
LEMMA MildSession ==
    ASSUME CaptureAssumption, CaptureInv, NEW s \in Session, Mild(s), (s \notin past.outlived => Watched(s))'
    PROVE  SessionOK(s)'
  <1> USE DEF CaptureInv, SessionOK, Mild, Kept, Present
  <1>1. Survives(s)'
    BY DEF Survives
  <1>2. Backed(s)'
    BY DEF Backed
  <1>3. (Final(s) /\ Dated(s) /\ Buried(s))'
    BY DEF Final, Dated, Buried
  <1>4. Owned(s)'
    BY DEF Owned, Handing, At, Sub
  <1> QED
    BY <1>1, <1>2, <1>3, <1>4

\* A mild step leaves what every operation knows.
LEMMA MildThread ==
    ASSUME CaptureAssumption, CaptureInv, NEW s \in Session, Mild(s),
           \A t \in Session \ {s} : Spares(t), NEW th \in Thread
    PROVE  Knows(op[th])'
  <1>0. op' = op /\ Knows(op[th])
    BY DEF Mild, CaptureInv
  <1>1. op[th].s \in Session \/ op[th].s = NoSession
    BY DEF CaptureInv, TypeOK, Op
  <1>2. KindFits(op[th])'
    BY <1>0 DEF Knows, KindFits
  <1>3. StartKnows(op[th])'
    BY <1>0, <1>1 DEF Knows, KindFits, StartKnows, Spares, Mild, Starting, CaptureAssumption
  <1>4. PurgeKnows(op[th])'
    BY <1>0, <1>1 DEF Knows, KindFits, PurgeKnows, Spares, Mild, Purging, CaptureAssumption, Present
  <1>5. EndKnows(op[th])'
    <2>1. \A t \in Session : run'[t].state = run[t].state
      BY DEF Mild, Spares
    <2>2. op[th].todo \subseteq Session
      BY DEF CaptureInv, TypeOK, Op
    <2> QED
      BY <1>0, <1>1, <2>1, <2>2 DEF Knows, KindFits, EndKnows, Spares, Mild, Ending, Saving,
         Indexed, Retaining, EndState, CaptureAssumption, Present
  <1>6. AudioKnows(op[th])'
    BY <1>0, <1>1 DEF Knows, KindFits, AudioKnows, Spares, Mild, Ending, Saving, Indexed,
       EndState, Kept, CaptureAssumption
  <1> QED
    BY <1>2, <1>3, <1>4, <1>5, <1>6 DEF Knows

\* A mild step keeps the invariant.
LEMMA MildKeeps ==
    ASSUME CaptureAssumption, CaptureInv, NEW s \in Session, Mild(s),
           \A t \in Session \ {s} : Spares(t), (s \notin past.outlived => Watched(s))',
           TypeOK', DestroyHolds'
    PROVE  CaptureInv'
  <1>1. OneAtWork'
    BY DEF CaptureInv, OneAtWork, Mild, At, Sub
  <1>2. OwnerHolds'
    BY DEF CaptureInv, OwnerHolds, Mild, Spares, TypeOK, Owner
  <1>3. \A t \in Session \ {s} : SessionOK(t)'
    BY DEF CaptureInv, SessionOK, Mild, Spares, Survives, Backed, Final, Dated, Buried, Owned,
       Handing,
           Watched, Kept, Present, At, Sub
  <1> QED
    BY <1>1, <1>2, <1>3, MildSession, MildThread DEF CaptureInv

-----------------------------------------------------------------------------
(* A step of an operation that is under way. *)

\* The stores, the slot's neighbours and the history change at s alone.
Writes(s) ==
    /\ run' = run \/ run' = [run EXCEPT ![s] = run'[s]]
    /\ rec' = rec \/ rec' = [rec EXCEPT ![s] = rec'[s]]
    /\ index' = index \/ index' = [index EXCEPT ![s] = index'[s]]
    /\ disk' = disk \/ disk' = [disk EXCEPT ![s] = disk'[s]]
    /\ text' = text \/ text' = [text EXCEPT ![s] = text'[s]]
    /\ col' = col \/ col' = [col EXCEPT ![s] = col'[s]]
    /\ accepted' = accepted \/ accepted' = [accepted EXCEPT ![s] = accepted'[s]]
    /\ tomb' \in {tomb, tomb \cup {s}, tomb \ {s}}
    /\ detached' \in {detached, detached \cup {s}, detached \ {s}}
    /\ past' \in Past
    /\ past'.created \in {past.created, past.created \cup {s}}
    /\ past'.started \in {past.started, past.started \cup {s}}
    /\ past'.erased \in {past.erased, past.erased \cup {s}}
    /\ past'.retained \in {past.retained, past.retained \cup {s}}
    /\ past'.outlived \in {past.outlived, past.outlived \cup {s}}

\* What is written of s has its type.
Fits(s) ==
    /\ run'[s] \in RunRow /\ rec'[s] \in RecRow /\ index'[s] \in IndexRow
    /\ disk'[s] \in Files /\ text'[s] \subseteq {"facts", "gap"}
    /\ col'[s] \in {"none", "running", "late"} /\ accepted'[s] \in 0..MaxFrames

\* Thread th, and no other, moves; what it becomes has its type.
Moves(th) ==
    /\ op' = [op EXCEPT ![th] = op'[th]] \/ op' = op
    /\ op'[th] \in Op /\ (op'[th].pc = "idle" => op'[th] = Idle)
    /\ budget' \in [fault : 0..MaxFault, crash : 0..MaxCrash]

\* Thread th goes on with its operation, or has ended it.
GoesOn(th) ==
    \/ op'[th] = Idle
    \/ /\ op'[th].pc \notin {"idle", "cas"}
       /\ op[th].kind = "purge" => op'[th].kind = "purge" /\ op'[th].s = op[th].s
       /\ th = "mic" => /\ op'[th].pc \in MicStep /\ op'[th].s = op[th].s
                        /\ op'[th].kind \in {"interrupt", "teardown"}

\* What is written of one session spares every other.
LEMMA WritesSpare ==
    ASSUME CaptureInv, NEW s, Writes(s), NEW t \in Session \ {s}
    PROVE  Spares(t)
  BY DEF Writes, Spares, CaptureInv, TypeOK

\* What is written has its type.
LEMMA WritesTyped ==
    ASSUME CaptureInv, NEW s \in Session, Writes(s), Fits(s), NEW th \in Thread, Moves(th),
           active' \in Owner, ui' \in [s : Session \cup {NoSession}, key : BOOLEAN, final : BOOLEAN]
    PROVE  TypeOK'
  <1>1. TypeOK
    BY DEF CaptureInv
  <1>2. run' \in [Session -> RunRow] /\ rec' \in [Session -> RecRow] /\ index' \in [Session -> IndexRow]
    BY <1>1 DEF TypeOK, Writes, Fits
  <1>3. disk' \in [Session -> Files] /\ col' \in [Session -> {"none", "running", "late"}]
    BY <1>1 DEF TypeOK, Writes, Fits
  <1>4. text' \in [Session -> SUBSET {"facts", "gap"}] /\ accepted' \in [Session -> 0..MaxFrames]
    BY <1>1 DEF TypeOK, Writes, Fits
  <1>5. tomb' \subseteq Session /\ detached' \subseteq Session /\ past' \in Past
    BY <1>1 DEF TypeOK, Writes
  <1>6. op' \in [Thread -> Op] /\ (\A other \in Thread : At(other, "idle") => op[other] = Idle)'
    BY <1>1 DEF TypeOK, Moves, At
  <1> QED
    BY <1>2, <1>3, <1>4, <1>5, <1>6 DEF TypeOK, Moves

\* What the stores and the history say of s.
Stored(s) == Survives(s) /\ Backed(s) /\ Final(s) /\ Dated(s) /\ Buried(s)

\* Who has s, seen from the thread that works on it.
Held(th, s) ==
    /\ s \in past.started /\ run[s].state \in Unfinished =>
          s \in detached \/ Handing(th, s)
    /\ s \notin past.outlived =>
          /\ col[s] # "none" => Sub(th) = s /\ op[th].pc = "shut"
          /\ run[s].state \in Terminal => run[s].health = "off"
          /\ s \in past.retained => run[s].state \notin Unfinished
          /\ s \in past.retained => text[s] = {"facts"} \/ ~Present(s)

\* Types where thread th and session s are concerned.
Typed(th, s) ==
    /\ run[s] \in RunRow /\ rec[s] \in RecRow /\ index[s] \in IndexRow /\ disk[s] \in Files
    /\ text[s] \subseteq {"facts", "gap"} /\ accepted[s] \in 0..MaxFrames
    /\ col[s] \in {"none", "running", "late"} /\ op[th] \in Op /\ past \in Past
    /\ budget \in [fault : 0..MaxFault, crash : 0..MaxCrash]
    /\ run \in [Session -> RunRow] /\ rec \in [Session -> RecRow]
    /\ index \in [Session -> IndexRow] /\ disk \in [Session -> Files]
    /\ text \in [Session -> SUBSET {"facts", "gap"}] /\ accepted \in [Session -> 0..MaxFrames]
    /\ col \in [Session -> {"none", "running", "late"}] /\ op \in [Thread -> Op]
    /\ active \in Owner /\ tomb \subseteq Session /\ detached \subseteq Session
    /\ MaxFrames \in Nat /\ MaxFault \in Nat /\ MaxCrash \in Nat /\ s # NoSession
    /\ run[s].frames \in 0..MaxFrames /\ run[s].path \in BOOLEAN
    /\ disk[s].journal \in NoFile..MaxFrames /\ disk[s].chunks \in NoFile..MaxFrames
    /\ disk[s].key \in BOOLEAN /\ index[s].path \in BOOLEAN /\ op[th].todo \subseteq Session

AtWork == Step \ {"idle", "cas", "down"}

\* The invariant, seen from a thread at work.
LEMMA HereHolds ==
    ASSUME CaptureAssumption, CaptureInv, NEW th \in Thread, op[th].pc \in AtWork,
           NEW s \in Session, Sub(th) = s
    PROVE  /\ Typed(th, s) /\ Stored(s) /\ Held(th, s)
           /\ KindFits(op[th]) /\ StartKnows(op[th]) /\ PurgeKnows(op[th])
           /\ EndKnows(op[th]) /\ AudioKnows(op[th])
           /\ th = "mic" => op[th].pc \in MicStep /\ op[th].kind \in {"interrupt", "teardown"}
  <1>1. Typed(th, s)
    <2>1. TypeOK /\ CaptureAssumption
      BY DEF CaptureInv
    <2>2. run[s] \in RunRow /\ disk[s] \in Files /\ index[s] \in IndexRow /\ op[th] \in Op
      BY <2>1 DEF TypeOK
    <2>3. /\ run[s].frames \in 0..MaxFrames /\ run[s].path \in BOOLEAN
          /\ disk[s].journal \in NoFile..MaxFrames /\ disk[s].chunks \in NoFile..MaxFrames
          /\ disk[s].key \in BOOLEAN /\ index[s].path \in BOOLEAN /\ op[th].todo \subseteq Session
      BY <2>2 DEF RunRow, Files, IndexRow, Op
    <2> QED
      BY <2>1, <2>2, <2>3 DEF TypeOK, Typed, CaptureAssumption
  <1>2. Stored(s) /\ Owned(s) /\ (s \notin past.outlived => Watched(s)) /\ Knows(op[th])
    BY DEF CaptureInv, SessionOK, Stored
  <1>3. \A other \in Thread \ {th} : Sub(other) # s
    BY Elsewhere DEF At, AtWork, CaptureAssumption
  <1>4. active.s # s
    BY DEF CaptureInv, OneAtWork, At, Sub, Thread, AtWork, NoOwner, CaptureAssumption
  <1>5. ~At("gate", "down")
    BY <1>3 DEF CaptureInv, OneAtWork, At, Sub, Thread, AtWork, Knows, KindFits, Purging
  <1>6. Held(th, s)
    BY <1>2, <1>3, <1>4, <1>5 DEF Owned, Handing, Watched, Held, At
  <1>7. th = "mic" => op[th].pc \in MicStep /\ op[th].kind \in {"interrupt", "teardown"}
    BY DEF CaptureInv, OneAtWork, At, AtWork
  <1> QED
    BY <1>1, <1>2, <1>6, <1>7 DEF Knows

\* A thread that goes on with its operation, or ends it, disturbs nobody.
LEMMA GoesOnAlone ==
    ASSUME CaptureAssumption, CaptureInv, NEW th \in Thread, op[th].pc \notin {"idle", "down"},
           active' = active, Moves(th), GoesOn(th), op[th].pc = "cas" => op'[th] = Idle
    PROVE  OneAtWork'
  <1>1. \A other \in Thread \ {th} : op'[other] = op[other]
    BY DEF Moves, CaptureInv, TypeOK
  <1>2. OneAtWork /\ KindFits(op["gate"]) /\ KindFits(op[th])
    BY DEF CaptureInv, Knows, Thread
  <1>3. CASE th = "gate"
    BY <1>1, <1>2, <1>3 DEF OneAtWork, GoesOn, At, Sub, Thread, Idle
  <1>4. CASE th = "mic"
    BY <1>1, <1>2, <1>4 DEF OneAtWork, KindFits, GoesOn, At, Sub, Thread, Idle, MicStep, Purging,
       CaptureAssumption
  <1> QED
    BY <1>3, <1>4 DEF Thread

\* The step of an operation under way keeps the invariant when it leaves its own
\* session and its own thread in order.
LEMMA WorkKeeps ==
    ASSUME CaptureAssumption, CaptureInv, NEW th \in Thread, NEW s \in Session, Sub(th) = s,
           op[th].pc \in AtWork, active' = active, ui' = ui,
           Writes(s), Fits(s), Moves(th), GoesOn(th), Knows(op[th])', Stored(s)', Held(th, s)'
    PROVE  CaptureInv'
  <1>1. \A t \in Session \ {s} : Spares(t)
    BY WritesSpare
  <1>2. TypeOK'
    BY WritesTyped DEF CaptureInv, TypeOK
  <1>3. \A other \in Thread \ {th} : op'[other] = op[other]
    BY DEF Moves, CaptureInv, TypeOK
  <1>4. active = NoOwner \/ active.s # s
    BY DEF CaptureInv, OneAtWork, At, Sub, Thread, AtWork
  <1>5. OneAtWork'
    BY GoesOnAlone DEF AtWork
  <1>6. OwnerHolds'
    BY <1>1, <1>4 DEF CaptureInv, OwnerHolds, Spares, TypeOK, Owner, NoOwner, CaptureAssumption
  <1>7. DestroyHolds'
    BY DEF CaptureInv, DestroyHolds, Writes
  <1>8. Touches(th, s)
    BY <1>1, <1>3 DEF Touches, At, AtWork
  <1>9. \A other \in Thread \ {th} :
            (Sub(other) = NoSession \/ Sub(other) # s) /\ op[other].kind # "startup"
    BY Elsewhere DEF At, AtWork
  <1>10. SessionOK(s)'
    BY DEF SessionOK, Stored, Held, Owned, Handing, Watched, At
  <1> QED
    BY <1>10, <1>2, <1>5, <1>6, <1>7, <1>8, <1>9, StepKeeps

\* A step that moves one thread and writes nothing.
LEMMA MoveKeeps ==
    ASSUME CaptureAssumption, CaptureInv, NEW th \in Thread,
           UNCHANGED <<dbVars, memVars, disk, ui, col, accepted, past>>,
           op[th].pc \notin {"shut", "mark", "teardown", "down"},
           Moves(th), OneAtWork', Knows(op[th])',
           \A other \in Thread \ {th} : op[other].kind # "startup"
    PROVE  CaptureInv'
  <1>1. \A t \in Session : Spares(t)
    BY DEF Spares, dbVars, memVars
  <1>2. TypeOK'
    BY DEF CaptureInv, TypeOK, Moves, At, dbVars, memVars
  <1>3. \A other \in Thread \ {th} : op'[other] = op[other]
    BY DEF Moves, CaptureInv, TypeOK
  <1>4. Touches(th, NoSession)
    BY <1>1, <1>3 DEF Touches, At, memVars
  <1>5. OwnerHolds' /\ DestroyHolds'
    BY DEF CaptureInv, OwnerHolds, DestroyHolds, dbVars, memVars
  <1> QED
    BY <1>2, <1>4, <1>5, StepKeeps DEF CaptureAssumption, Sub

-----------------------------------------------------------------------------
(* How a thread goes on. *)

\* The operation of th after the step, field by field.
OpIs(th, pc, kind, s, todo, finalized) ==
    /\ op'[th] \in Op /\ op'[th].pc = pc /\ op'[th].kind = kind /\ op'[th].s = s
    /\ op'[th].todo = todo /\ op'[th].finalized = finalized
\* The thread goes to its next step.
Walks(th, pc) == OpIs(th, pc, op[th].kind, op[th].s, op[th].todo, op[th].finalized)
\* The thread has ended its operation.
Rests(th) == op'[th] = Idle
\* A failed step ends the operation, or takes up the next session of the startup.
FailsOn(th) ==
    \/ op[th].kind = "stop" /\ Walks(th, "interrupt_local")
    \/ op[th].kind = "interrupt" /\ Walks(th, "report")
    \/ op[th].kind = "teardown" /\ Rests(th)
    \/ op[th].kind \in {"recover", "startup"} /\ Walks(th, "pick")

\* What becomes of the row, the files and the index of s, field by field.
RunIs(s, state, health, path, frames) ==
    /\ run'[s] \in RunRow /\ run'[s].state = state /\ run'[s].health = health
    /\ run'[s].path = path /\ run'[s].frames = frames
DiskIs(s, journal, chunks, key) ==
    /\ disk'[s] \in Files /\ disk'[s].journal = journal /\ disk'[s].chunks = chunks
    /\ disk'[s].key = key
IndexIs(s, path, ledger) ==
    index'[s] \in IndexRow /\ index'[s].path = path /\ index'[s].ledger = ledger

\* Goto moves the program counter alone.
LEMMA GotoWalks ==
    ASSUME op \in [Thread -> Op], NEW th \in Thread, NEW pc \in Step,
           op' = [op EXCEPT ![th] = [op[th] EXCEPT !.pc = pc]]
    PROVE  Walks(th, pc) /\ \A other \in Thread \ {th} : op'[other] = op[other]
  <1>1. op[th] \in Op
    OBVIOUS
  <1> QED
    BY <1>1 DEF Walks, OpIs, Op

\* Failed is what becomes of an operation whose step returned an error.
LEMMA FailedFailsOn ==
    ASSUME op \in [Thread -> Op], NEW th \in Thread,
           op[th].kind \in {"stop", "interrupt", "teardown", "recover", "startup"},
           op' = [op EXCEPT ![th] = Failed(op[th])]
    PROVE  FailsOn(th) /\ \A other \in Thread \ {th} : op'[other] = op[other]
  <1>1. op[th] \in Op
    OBVIOUS
  <1> QED
    BY <1>1 DEF FailsOn, Walks, OpIs, Rests, Op, Failed, Step

\* The step that closes the journal also says so in the operation.
LEMMA ClosedWalks ==
    ASSUME op \in [Thread -> Op], NEW th \in Thread, NEW pc \in Step,
           op' = [op EXCEPT ![th] = [op[th] EXCEPT !.pc = pc, !.finalized = TRUE]]
    PROVE  OpIs(th, pc, op[th].kind, op[th].s, op[th].todo, TRUE)
  <1>1. op[th] \in Op
    OBVIOUS
  <1> QED
    BY <1>1 DEF OpIs, Op

\* A failed interruption goes on as its own teardown.
LEMMA TeardownWalks ==
    ASSUME op \in [Thread -> Op], NEW th \in Thread, NEW pc \in Step,
           op' = [op EXCEPT ![th] = [op[th] EXCEPT !.pc = pc, !.kind = "teardown"]]
    PROVE  OpIs(th, pc, "teardown", op[th].s, op[th].todo, op[th].finalized)
  <1>1. op[th] \in Op /\ "teardown" \in Kind
    BY DEF Kind
  <1> QED
    BY <1>1 DEF OpIs, Op

\* The blank rows and the idle operation have their types.
LEMMA BlankFits ==
    ASSUME CaptureAssumption
    PROVE  /\ Idle \in Op /\ Idle.pc = "idle"
           /\ NoRun \in RunRow /\ NoRec \in RecRow /\ NoIndex \in IndexRow /\ NoFiles \in Files
  <1>1. Idle \in Op /\ Idle.pc = "idle"
    BY DEF Idle, Op, Step, Kind, Unfinished, Remote
  <1>2. NoRun \in RunRow
    BY DEF NoRun, RunRow, Health, CaptureAssumption
  <1>3. NoRec \in RecRow /\ NoIndex \in IndexRow
    BY DEF NoRec, RecRow, NoIndex, IndexRow
  <1>4. NoFiles \in Files
    BY DEF NoFiles, NoFile, Files, CaptureAssumption
  <1> QED
    BY <1>1, <1>2, <1>3, <1>4

\* A step that notes what it read of the record goes on.
LEMMA SetWalks ==
    ASSUME op \in [Thread -> Op], NEW th \in Thread, NEW pc \in Step, NEW b \in BOOLEAN,
           \/ op' = [op EXCEPT ![th] = [op[th] EXCEPT !.pc = pc, !.trashed = b]]
           \/ op' = [op EXCEPT ![th] = [op[th] EXCEPT !.pc = pc, !.named = b]]
    PROVE  Walks(th, pc)
  <1>1. op[th] \in Op
    OBVIOUS
  <1>2. CASE op' = [op EXCEPT ![th] = [op[th] EXCEPT !.pc = pc, !.trashed = b]]
    BY <1>1, <1>2 DEF Walks, OpIs, Op
  <1>3. CASE op' = [op EXCEPT ![th] = [op[th] EXCEPT !.pc = pc, !.named = b]]
    BY <1>1, <1>3 DEF Walks, OpIs, Op
  <1> QED
    BY <1>2, <1>3

\* Shredding takes chunk files and their ledger, nothing else.
LEMMA ShredWrites ==
    ASSUME CaptureAssumption, disk \in [Session -> Files], index \in [Session -> IndexRow],
           NEW s \in Session, Shredded(s) \/ PartlyShredded(s)
    PROVE  /\ disk' = disk \/ disk' = [disk EXCEPT ![s] = disk'[s]]
           /\ index' = index \/ index' = [index EXCEPT ![s] = index'[s]]
           /\ DiskIs(s, disk[s].journal, disk'[s].chunks, disk[s].key)
           /\ IndexIs(s, index[s].path, index'[s].ledger)
           /\ disk[s].chunks = NoFile => disk'[s].chunks = NoFile
  <1>1. disk[s] \in Files /\ index[s] \in IndexRow /\ disk[s].chunks \in NoFile..MaxFrames
    BY DEF Files
  <1>2. \/ disk' = disk
        \/ \E c \in NoFile..MaxFrames :
              disk' = [disk EXCEPT ![s].chunks = c] /\ (c = NoFile \/ c = disk[s].chunks)
    BY <1>1 DEF Shredded, PartlyShredded, NoFile, CaptureAssumption
  <1>3. index' = index \/ index' = [index EXCEPT ![s].ledger = "deleted"]
    BY DEF Shredded, PartlyShredded
  <1>4. /\ disk' = disk \/ disk' = [disk EXCEPT ![s] = disk'[s]]
        /\ DiskIs(s, disk[s].journal, disk'[s].chunks, disk[s].key)
        /\ disk[s].chunks = NoFile => disk'[s].chunks = NoFile
    <2>1. CASE disk' = disk
      BY <1>1, <2>1 DEF DiskIs
    <2>2. CASE \E c \in NoFile..MaxFrames :
                  disk' = [disk EXCEPT ![s].chunks = c] /\ (c = NoFile \/ c = disk[s].chunks)
      <3>1. PICK c \in NoFile..MaxFrames :
                disk' = [disk EXCEPT ![s].chunks = c] /\ (c = NoFile \/ c = disk[s].chunks)
        BY <2>2
      <3>2. disk'[s] = [disk[s] EXCEPT !.chunks = c]
        BY <3>1
      <3> QED
        BY <1>1, <3>1, <3>2 DEF DiskIs, Files
    <2> QED
      BY <1>2, <2>1, <2>2
  <1>5. /\ index' = index \/ index' = [index EXCEPT ![s] = index'[s]]
        /\ IndexIs(s, index[s].path, index'[s].ledger)
    BY <1>1, <1>3 DEF IndexIs, IndexRow
  <1> QED
    BY <1>4, <1>5

\* A new operation is well formed.
LEMMA FreshFits ==
    ASSUME CaptureAssumption, NEW pc \in Step, NEW kind \in Kind, NEW todo \in SUBSET Session
    PROVE  [Idle EXCEPT !.pc = pc, !.kind = kind, !.todo = todo] \in Op
  BY BlankFits DEF Op

-----------------------------------------------------------------------------
(* The steps that move one thread and write nothing. *)

\* An idle thread need know nothing.
LEMMA IdleKnows ==
    ASSUME NEW th \in Thread, op'[th] = Idle
    PROVE  Knows(op[th])'
  BY DEF Knows, KindFits, StartKnows, PurgeKnows, EndKnows, AudioKnows, Idle, Starting, Purging,
         Ending, Saving, Indexed, Retaining

\* The mic thread is never in the startup.
LEMMA Startups ==
    ASSUME CaptureAssumption, CaptureInv
    PROVE  op["mic"].kind # "startup"
  BY DEF CaptureInv, OneAtWork, TypeOK, At, Thread, Idle, Knows, KindFits

\* The loop of a recovery: the next session, or what follows the last.
LEMMA PickNextKeeps ==
    ASSUME CaptureAssumption, CaptureInv, PickNext
    PROVE  CaptureInv'
  <1> DEFINE o == op["gate"]
  <1>1. /\ o \in Op /\ o.pc = "pick" /\ op \in [Thread -> Op] /\ tomb \subseteq Session
        /\ NoSession \notin Session /\ o.todo \subseteq Session
    BY DEF CaptureInv, TypeOK, Op, Thread, PickNext, At, CaptureAssumption
  <1>2. KindFits(o) /\ EndKnows(o)
    BY DEF CaptureInv, Knows, Thread
  <1>3. /\ op'["gate"] \in Op
        /\ \/ /\ op'["gate"].s \in o.todo /\ op'["gate"].kind = o.kind
              /\ op'["gate"].pc = IF o.kind = "startup" THEN "load" ELSE "detach"
              /\ op'["gate"].todo \subseteq o.todo
           \/ /\ o.kind = "startup" /\ op'["gate"].kind = "startup" /\ op'["gate"].pc = "purges"
              /\ op'["gate"].s = NoSession /\ op'["gate"].todo = tomb
           \/ op'["gate"] = Idle
           \/ /\ op'["gate"].pc = "create" /\ op'["gate"].kind = "start"
              /\ op'["gate"].s = NoSession /\ op'["gate"].todo = {}
    <2>1. CASE \E s \in o.todo : Become("gate", Picked(o, s))
      <3>1. PICK s \in o.todo : Become("gate", Picked(o, s))
        BY <2>1
      <3>2. op'["gate"] = Picked(o, s)
        BY <1>1, <3>1 DEF Become, Thread
      <3>3. Picked(o, s) \in Op
        BY <1>1 DEF Picked, Op, Step
      <3> QED
        BY <1>1, <3>2, <3>3 DEF Picked, Op
    <2>2. CASE o.kind = "startup"
               /\ Become("gate", [o EXCEPT !.pc = "purges", !.s = NoSession, !.todo = tomb])
      <3>1. op'["gate"] = [o EXCEPT !.pc = "purges", !.s = NoSession, !.todo = tomb]
        BY <1>1, <2>2 DEF Become, Thread
      <3> QED
        BY <1>1, <2>2, <3>1 DEF Op, Step
    <2>3. CASE Become("gate", IF o.starts THEN [Idle EXCEPT !.pc = "create", !.kind = "start"] ELSE Idle)
      <3>1. op'["gate"] = Idle \/ op'["gate"] = [Idle EXCEPT !.pc = "create", !.kind = "start"]
        BY <1>1, <2>3 DEF Become, Thread
      <3>2. Idle \in Op /\ [Idle EXCEPT !.pc = "create", !.kind = "start"] \in Op
        BY BlankFits DEF Op, Step, Kind
      <3> QED
        BY <3>1, <3>2 DEF Idle
    <2> QED
      BY <2>1, <2>2, <2>3 DEF PickNext
  <1>4. Moves("gate") /\ GoesOn("gate")
    <2>1. op' = [op EXCEPT !["gate"] = op'["gate"]]
      BY <1>1 DEF PickNext, Become, Thread
    <2>2. GoesOn("gate")
      BY <1>1, <1>2, <1>3 DEF GoesOn, KindFits, Idle
    <2>3. op'["gate"].pc = "idle" => op'["gate"] = Idle
      BY <1>3 DEF Idle
    <2> QED
      BY <1>3, <2>1, <2>2, <2>3 DEF Moves, PickNext, CaptureInv, TypeOK
  <1>5. OneAtWork'
    BY <1>1, <1>4, GoesOnAlone DEF PickNext, OnlyOp, memVars, Thread
  <1>6. Knows(op["gate"])'
    <2>1. o.kind \in {"recover", "startup"}
      BY <1>1, <1>2 DEF KindFits
    <2>2. run' = run /\ tomb' = tomb
      BY DEF PickNext, OnlyOp
    <2>3. CASE /\ op'["gate"].s \in o.todo /\ op'["gate"].kind = o.kind
               /\ op'["gate"].pc = IF o.kind = "startup" THEN "load" ELSE "detach"
               /\ op'["gate"].todo \subseteq o.todo
      <3>1. op'["gate"].kind = "startup" =>
                run[op'["gate"].s].state = "interrupted" /\ \A s \in op'["gate"].todo : run[s].state = "interrupted"
        BY <1>1, <1>2, <2>3 DEF EndKnows, Purging
      <3>2. op'["gate"].s \in Session /\ op'["gate"].pc \in {"load", "detach"}
            /\ (op'["gate"].pc = "load" <=> op'["gate"].kind = "startup")
        BY <1>1, <2>1, <2>3
      <3>3. KindFits(op["gate"])'
        BY <2>1, <2>3, <3>2 DEF KindFits, Starting, Purging, Saving, Indexed, Retaining
      <3>4. StartKnows(op["gate"])' /\ PurgeKnows(op["gate"])' /\ AudioKnows(op["gate"])'
        BY <3>2 DEF StartKnows, PurgeKnows, AudioKnows, Starting, Purging, Ending, Indexed
      <3>5. EndKnows(op["gate"])'
        BY <2>2, <3>1, <3>2 DEF EndKnows, Ending, Saving, Indexed, Retaining
      <3> QED
        BY <3>3, <3>4, <3>5 DEF Knows
    <2>4. CASE /\ o.kind = "startup" /\ op'["gate"].kind = "startup" /\ op'["gate"].pc = "purges"
               /\ op'["gate"].s = NoSession /\ op'["gate"].todo = tomb
      <3>1. KindFits(op["gate"])'
        BY <2>4 DEF KindFits, Starting, Purging, Saving, Indexed, Retaining
      <3>2. StartKnows(op["gate"])' /\ PurgeKnows(op["gate"])' /\ AudioKnows(op["gate"])'
        BY <1>1, <2>2, <2>4 DEF StartKnows, PurgeKnows, AudioKnows, Starting, Purging, Ending,
           Indexed
      <3>3. EndKnows(op["gate"])'
        BY <2>4 DEF EndKnows, Ending, Saving, Indexed, Retaining
      <3> QED
        BY <3>1, <3>2, <3>3 DEF Knows
    <2>5. CASE op'["gate"] = Idle
      BY <2>5, IdleKnows DEF Thread
    <2>6. CASE /\ op'["gate"].pc = "create" /\ op'["gate"].kind = "start"
               /\ op'["gate"].s = NoSession /\ op'["gate"].todo = {}
      BY <2>6 DEF Knows, KindFits, StartKnows, PurgeKnows, EndKnows, AudioKnows, Starting, Purging,
         Ending, Saving, Indexed, Retaining
    <2> QED
      BY <1>3, <2>3, <2>4, <2>5, <2>6
  <1>7. op["mic"].kind # "startup"
    BY Startups
  <1> QED
    BY <1>1, <1>4, <1>5, <1>6, <1>7, MoveKeeps DEF PickNext, OnlyOp, Thread, dbVars, memVars

\* A startup resumes the purges the tombstones stand for.
LEMMA ResumePurgesKeeps ==
    ASSUME CaptureAssumption, CaptureInv, ResumePurges
    PROVE  CaptureInv'
  <1> DEFINE o == op["gate"]
  <1>1. /\ o \in Op /\ o.pc = "purges" /\ op \in [Thread -> Op] /\ tomb \subseteq Session
        /\ NoSession \notin Session /\ o.todo \subseteq Session
    BY DEF CaptureInv, TypeOK, Op, Thread, ResumePurges, At, CaptureAssumption
  <1>2. KindFits(o) /\ PurgeKnows(o)
    BY DEF CaptureInv, Knows, Thread
  <1>3. /\ op'["gate"] \in Op
        /\ \/ /\ op'["gate"].s \in o.todo /\ op'["gate"].kind = o.kind
              /\ op'["gate"].pc = "purge_files" /\ op'["gate"].todo = o.todo \ {op'["gate"].s}
              /\ op'["gate"].finalized = o.finalized
           \/ op'["gate"] = Idle
    <2>1. CASE \E s \in o.todo : Become("gate", [o EXCEPT !.pc = "purge_files", !.s = s, !.todo = @ \ {s}])
      <3>1. PICK s \in o.todo : Become("gate", [o EXCEPT !.pc = "purge_files", !.s = s, !.todo = @ \ {s}])
        BY <2>1
      <3>2. op'["gate"] = [o EXCEPT !.pc = "purge_files", !.s = s, !.todo = o.todo \ {s}]
        BY <1>1, <3>1 DEF Become, Thread
      <3>3. "purge_files" \in Step /\ s \in Session /\ o.todo \ {s} \subseteq Session
        BY <1>1, <3>1 DEF Step
      <3>4. op'["gate"] \in Op
        BY <1>1, <3>2, <3>3 DEF Op
      <3> QED
        BY <1>1, <3>1, <3>2, <3>4 DEF Op
    <2>2. CASE Become("gate", Idle)
      BY <1>1, <2>2, BlankFits DEF Become, Thread
    <2> QED
      BY <2>1, <2>2 DEF ResumePurges
  <1>4. Moves("gate") /\ GoesOn("gate")
    <2>1. op' = [op EXCEPT !["gate"] = op'["gate"]]
      BY <1>1 DEF ResumePurges, Become, Thread
    <2>2. GoesOn("gate") /\ (op'["gate"].pc = "idle" => op'["gate"] = Idle)
      BY <1>1, <1>2, <1>3 DEF GoesOn, KindFits, Idle
    <2> QED
      BY <1>3, <2>1, <2>2 DEF Moves, ResumePurges, CaptureInv, TypeOK
  <1>5. OneAtWork'
    BY <1>1, <1>4, GoesOnAlone DEF ResumePurges, OnlyOp, memVars, Thread
  <1>6. Knows(op["gate"])'
    <2>1. KindFits(op["gate"])'
      BY <1>1, <1>2, <1>3 DEF KindFits, Idle, Starting, Purging, Saving, Indexed, Retaining
    <2>2. StartKnows(op["gate"])' /\ PurgeKnows(op["gate"])'
      <3>1. o.kind = "startup" /\ o.todo \subseteq tomb /\ tomb' = tomb /\ past' = past
        BY <1>1, <1>2 DEF KindFits, PurgeKnows, ResumePurges, OnlyOp
      <3>2. \A s \in tomb : s \in past.created
        BY <1>1 DEF CaptureInv, SessionOK, Dated
      <3> QED
        BY <1>1, <1>3, <3>1, <3>2 DEF StartKnows, PurgeKnows, Starting, Purging, Idle
    <2>3. EndKnows(op["gate"])' /\ AudioKnows(op["gate"])'
      BY <1>1, <1>3 DEF EndKnows, AudioKnows, Ending, Saving, Indexed, Retaining, Purging, Idle
    <2> QED
      BY <2>1, <2>2, <2>3 DEF Knows
  <1>7. op["mic"].kind # "startup"
    BY Startups
  <1> QED
    BY <1>1, <1>4, <1>5, <1>6, <1>7, MoveKeeps DEF ResumePurges, OnlyOp, Thread, dbVars, memVars

\* A request that takes the gate and writes nothing.
LEMMA BeginsKeep ==
    ASSUME CaptureAssumption, CaptureInv, GateFree, MutexFree,
           UNCHANGED <<dbVars, memVars, disk, ui, col, accepted, past>>, Moves("gate"),
           \/ /\ active = NoOwner /\ op'["gate"].pc = "pick" /\ op'["gate"].kind = "recover"
              /\ op'["gate"].s = NoSession
           \/ /\ op'["gate"].pc = "purge" /\ op'["gate"].kind = "purge"
              /\ op'["gate"].s \in past.created \cap Session /\ active.s # op'["gate"].s
    PROVE  CaptureInv'
  <1>1. op["mic"] = Idle /\ op["gate"] = Idle /\ "gate" \in Thread /\ op \in [Thread -> Op]
    BY DEF CaptureInv, TypeOK, GateFree, MutexFree, At, Thread
  <1>2. op'["mic"] = Idle
    BY <1>1 DEF Moves, Thread
  <1>3. OneAtWork'
    BY <1>2 DEF OneAtWork, At, Sub, Idle, MicStep, memVars, CaptureAssumption
  <1>4. Knows(op["gate"])'
    BY DEF Knows, KindFits, StartKnows, PurgeKnows, EndKnows, AudioKnows, Starting, Purging,
           Ending, Saving, Indexed, Retaining
  <1> QED
    BY <1>1, <1>3, <1>4, Startups, MoveKeeps DEF Thread, Idle

\* start_capture takes the gate.
LEMMA StartCaptureKeeps ==
    ASSUME CaptureAssumption, CaptureInv, StartCapture
    PROVE  CaptureInv'
  <1>1. op \in [Thread -> Op] /\ detached \in SUBSET Session /\ TypeOK
    BY DEF CaptureInv, TypeOK
  <1>2. op'["gate"] = [Idle EXCEPT !.pc = "pick", !.kind = "recover", !.todo = detached, !.starts = TRUE]
    BY <1>1 DEF StartCapture, Become, Thread
  <1>3. /\ op'["gate"] \in Op /\ op'["gate"].pc = "pick" /\ op'["gate"].kind = "recover"
        /\ op'["gate"].s = NoSession
    BY <1>1, <1>2 DEF Idle, Op, Step, Kind, Unfinished, Remote
  <1>4. op' = [op EXCEPT !["gate"] = op'["gate"]]
    BY <1>2 DEF StartCapture, Become
  <1>5. Moves("gate")
    BY <1>1, <1>3, <1>4 DEF Moves, StartCapture, TypeOK
  <1> QED
    BY <1>3, <1>5, BeginsKeep DEF StartCapture

\* interrupt_capture with an empty slot takes the gate and scans for runs.
LEMMA InterruptOwnerlessKeeps ==
    ASSUME CaptureAssumption, CaptureInv, NEW s \in Session, InterruptOwnerless(s)
    PROVE  CaptureInv'
  <1>1. op \in [Thread -> Op] /\ {s} \in SUBSET Session /\ TypeOK
    BY DEF CaptureInv, TypeOK
  <1>2. op'["gate"] = [Idle EXCEPT !.pc = "pick", !.kind = "recover", !.todo = {s}]
    BY <1>1 DEF InterruptOwnerless, Become, Thread
  <1>3. /\ op'["gate"] \in Op /\ op'["gate"].pc = "pick" /\ op'["gate"].kind = "recover"
        /\ op'["gate"].s = NoSession
    BY <1>1, <1>2 DEF Idle, Op, Step, Kind, Unfinished, Remote
  <1>4. op' = [op EXCEPT !["gate"] = op'["gate"]]
    BY <1>2 DEF InterruptOwnerless, Become
  <1>5. Moves("gate")
    BY <1>1, <1>3, <1>4 DEF Moves, InterruptOwnerless, TypeOK
  <1> QED
    BY <1>3, <1>5, BeginsKeep DEF InterruptOwnerless

\* The request to purge a session for ever.
LEMMA PurgeForeverKeeps ==
    ASSUME CaptureAssumption, CaptureInv, NEW s \in Session, PurgeForever(s)
    PROVE  CaptureInv'
  <1>1. op \in [Thread -> Op] /\ TypeOK
    BY DEF CaptureInv, TypeOK
  <1>2. op'["gate"] = [Idle EXCEPT !.pc = "purge", !.kind = "purge", !.s = s]
    BY <1>1 DEF PurgeForever, Become, Thread
  <1>3. /\ op'["gate"] \in Op /\ op'["gate"].pc = "purge" /\ op'["gate"].kind = "purge"
        /\ op'["gate"].s = s
    BY <1>1, <1>2 DEF Idle, Op, Step, Kind, Unfinished, Remote
  <1>6. s \in past.created
    BY DEF CaptureInv, SessionOK, Dated, Final, PurgeForever, NoRec
  <1>4. op' = [op EXCEPT !["gate"] = op'["gate"]]
    BY <1>2 DEF PurgeForever, Become
  <1>5. Moves("gate")
    BY <1>1, <1>3, <1>4 DEF Moves, PurgeForever, TypeOK
  <1> QED
    BY <1>3, <1>5, <1>6, BeginsKeep DEF PurgeForever

\* pause and resume: the swap is refused and nothing changes.
LEMMA PauseRefusedKeeps ==
    ASSUME CaptureAssumption, CaptureInv, PauseRefused
    PROVE  CaptureInv'
  <1>1. op \in [Thread -> Op] /\ TypeOK /\ KindFits(op["mic"]) /\ op["mic"].pc = "cas"
    BY DEF CaptureInv, TypeOK, Knows, Thread, PauseRefused, At
  <1>2. op'["mic"] = Idle /\ op' = [op EXCEPT !["mic"] = op'["mic"]]
    BY <1>1 DEF PauseRefused, Become, Thread
  <1>3. Moves("mic")
    BY <1>1, <1>2, BlankFits DEF Moves, PauseRefused, TypeOK, Errs, Fine, Fault
  <1>4. OneAtWork'
    BY <1>1, <1>2, <1>3, GoesOnAlone DEF GoesOn, PauseRefused, Thread, memVars
  <1>5. op["gate"].kind # "startup"
    BY <1>1, Elsewhere DEF At, Thread
  <1> QED
    BY <1>1, <1>2, <1>3, <1>4, <1>5, IdleKnows, MoveKeeps DEF Thread, PauseRefused

-----------------------------------------------------------------------------
(* The steps about the owner in the slot. *)

\* What the invariant says of the owner in the slot.
LEMMA OwnerFacts ==
    ASSUME CaptureAssumption, CaptureInv, active.s # NoSession
    PROVE  /\ active.s \in Session /\ active.s \in past.started
           /\ active.state \in {"recording", "paused"} /\ run[active.s].state = active.state
           /\ disk[active.s].journal = accepted[active.s]
           /\ Stored(active.s) /\ (active.s \notin past.outlived => Watched(active.s))
           /\ \A th \in Thread : Typed(th, active.s)
           /\ op["gate"].pc # "idle" => op["gate"].kind = "purge" /\ op["gate"].s \in Session
           /\ op["gate"].s # active.s /\ op["gate"].kind # "startup"
           /\ op["gate"].pc \notin {"cas", "down"}
           /\ op["mic"].pc \in {"idle", "cas"}
           /\ op["mic"].pc = "cas" => op["mic"].s = active.s /\ op["mic"].kind \in {"pause", "resume"}
  <1>1. /\ active.s \in Session /\ active.s \in past.started
        /\ active.state \in {"recording", "paused"} /\ run[active.s].state = active.state
        /\ disk[active.s].journal = accepted[active.s]
    BY DEF CaptureInv, TypeOK, Owner, OwnerHolds
  <1>2. Stored(active.s) /\ (active.s \notin past.outlived => Watched(active.s))
    BY <1>1 DEF CaptureInv, SessionOK, Stored
  <1>3. \A th \in Thread : Typed(th, active.s)
    <2>1. TAKE th \in Thread
    <2>2. TypeOK /\ CaptureAssumption /\ active.s \in Session
      BY <1>1 DEF CaptureInv
    <2>3. /\ run[active.s] \in RunRow /\ disk[active.s] \in Files /\ index[active.s] \in IndexRow
          /\ op[th] \in Op
      BY <2>2 DEF TypeOK
    <2>4. /\ run[active.s].frames \in 0..MaxFrames /\ run[active.s].path \in BOOLEAN
          /\ disk[active.s].journal \in NoFile..MaxFrames
          /\ disk[active.s].chunks \in NoFile..MaxFrames
          /\ disk[active.s].key \in BOOLEAN /\ index[active.s].path \in BOOLEAN
          /\ op[th].todo \subseteq Session
      BY <2>3 DEF RunRow, Files, IndexRow, Op
    <2> QED
      BY <2>2, <2>3, <2>4 DEF TypeOK, Typed, CaptureAssumption
  <1>4. OneAtWork /\ KindFits(op["gate"]) /\ KindFits(op["mic"]) /\ active # NoOwner
    BY DEF CaptureInv, Knows, Thread, NoOwner
  <1>5. op["gate"].pc # "idle" => op["gate"].kind = "purge" /\ op["gate"].s # active.s
    BY <1>4 DEF OneAtWork, At, Sub
  <1>6. op["gate"].pc = "idle" => op["gate"] = Idle
    BY DEF CaptureInv, TypeOK, At, Thread
  <1>7. op["mic"].pc \in {"idle", "cas"} /\ (op["mic"].pc = "cas" => op["mic"].s = active.s)
    BY <1>4 DEF OneAtWork, At, Sub
  <1>8. op["mic"].pc = "cas" => op["mic"].kind \in {"pause", "resume"}
    BY <1>4 DEF KindFits
  <1>9. op["gate"].pc \notin {"cas", "down"}
    BY <1>4, <1>5, <1>6 DEF KindFits, Purging, Idle
  <1>10. op["gate"].s # active.s /\ op["gate"].kind # "startup"
    BY <1>5, <1>6 DEF Idle
  <1>11. op["gate"].pc # "idle" => op["gate"].s \in Session
    BY <1>4, <1>5 DEF KindFits, Purging
  <1> QED
    BY <1>1, <1>2, <1>3, <1>5, <1>7, <1>8, <1>9, <1>10, <1>11

\* A step of the mic thread about the owner: it stays in the slot, or the
\* operation takes it to its end.
Keeps(s) ==
    /\ active' \in Owner /\ active'.s = s /\ active'.state = run'[s].state
    /\ active'.state \in {"recording", "paused"}
    /\ op'["mic"] = Idle \/ (/\ op'["mic"].pc = "cas" /\ op'["mic"].s = s
                             /\ op'["mic"].kind \in {"pause", "resume"})
Takes(th, s) ==
    /\ active' = NoOwner /\ op'[th].pc = "shut" /\ op'[th].s = s /\ op'[th].finalized = FALSE
    /\ \/ op'[th].kind = "interrupt"
       \/ th = "gate" /\ op'[th].kind = "stop" /\ s \in detached'

\* A step about the owner in the slot keeps the invariant.
LEMMA SlotKeeps ==
    ASSUME CaptureAssumption, CaptureInv, NEW th \in Thread, active.s # NoSession, NEW s \in Session,
           s = active.s, th = "gate" => op["gate"].pc = "idle" /\ op["mic"].pc = "idle",
           UNCHANGED <<rec, index, text, tomb, past, ui>>, Writes(s), Fits(s), Moves(th),
           run'[s].state \in Unfinished, run'[s].frames <= accepted'[s] \/ ~Kept(s),
           disk'[s].journal = accepted'[s], disk'[s].key = disk[s].key,
           (th = "mic" /\ Keeps(s)) \/ Takes(th, s)
    PROVE  CaptureInv'
  <1>1. /\ active.s \in Session /\ active.s \in past.started
        /\ active.state \in {"recording", "paused"} /\ run[active.s].state = active.state
        /\ disk[active.s].journal = accepted[active.s]
        /\ Stored(active.s) /\ (active.s \notin past.outlived => Watched(active.s))
        /\ Typed(th, active.s)
        /\ op["gate"].pc # "idle" => op["gate"].kind = "purge" /\ op["gate"].s \in Session
        /\ op["gate"].s # active.s /\ op["gate"].kind # "startup"
        /\ op["gate"].pc \notin {"cas", "down"}
        /\ op["mic"].pc \in {"idle", "cas"}
        /\ op["mic"].pc = "cas" => op["mic"].s = active.s /\ op["mic"].kind \in {"pause", "resume"}
    BY OwnerFacts
  <1>2. \A t \in Session \ {s} : Spares(t)
    BY WritesSpare
  <1>3. NoOwner \in Owner
    BY DEF NoOwner, Owner, Remote, CaptureAssumption
  <1>4. TypeOK'
    BY <1>3, WritesTyped DEF Keeps, Takes, CaptureInv, TypeOK
  <1>5. \A other \in Thread \ {th} : op'[other] = op[other]
    BY DEF Moves, CaptureInv, TypeOK
  <1>6. op["mic"].pc = "idle" => op["mic"] = Idle
    BY DEF CaptureInv, TypeOK, At, Thread
  <1>7. OneAtWork'
    <2>1. CASE th = "mic"
      <3>1. op'["gate"] = op["gate"]
        BY <1>5, <2>1 DEF Thread
      <3> QED
        BY <1>1, <2>1, <3>1 DEF OneAtWork, Keeps, Takes, At, Sub, Idle, MicStep, Ending, NoOwner,
           CaptureAssumption
    <2>2. CASE th = "gate"
      <3>1. op'["mic"] = Idle
        BY <1>5, <1>6, <2>2 DEF Thread
      <3> QED
        BY <1>1, <2>2, <3>1 DEF OneAtWork, Takes, At, Sub, Idle, MicStep, NoOwner
    <2> QED
      BY <2>1, <2>2 DEF Thread
  <1>8. OwnerHolds'
    BY <1>1 DEF OwnerHolds, Keeps, Takes, NoOwner
  <1>9. DestroyHolds'
    BY DEF CaptureInv, DestroyHolds
  <1>10. s \notin tomb /\ (s \notin past.outlived => s \notin past.retained) /\ s \in past.created
    BY <1>1 DEF Stored, Dated, Present, Buried, Watched, Unfinished
  <1>11. Knows(op[th])'
    <2>1. CASE op'[th] = Idle
      BY <2>1, IdleKnows
    <2>2. CASE th = "mic" /\ Keeps(s) /\ op'[th] # Idle
      BY <2>2 DEF Keeps, Knows, KindFits, StartKnows, PurgeKnows, EndKnows, AudioKnows, Starting,
         Purging, Ending, Saving, Indexed, Retaining
    <2>3. CASE Takes(th, s)
      BY <2>3 DEF Takes, Knows, KindFits, StartKnows, PurgeKnows, EndKnows, AudioKnows, Starting,
         Purging, Ending, Saving, Indexed, Retaining, Present, Unfinished
    <2> QED
      BY <2>1, <2>2, <2>3
  <1>12. Stored(s)'
    <2>1. Survives(s)' /\ Backed(s)'
      BY <1>1 DEF Stored, Survives, Backed, Kept
    <2>2. Final(s)' /\ Dated(s)' /\ Buried(s)'
      BY <1>1, <1>10 DEF Stored, Final, Dated, Buried, Present, Unfinished
    <2> QED
      BY <2>1, <2>2 DEF Stored
  <1>13. Owned(s)'
    BY DEF Owned, Keeps, Takes, Handing, Sub
  <1>14. (s \notin past.outlived => Watched(s))'
    BY <1>10 DEF Watched, Keeps, Takes, Sub, At, Unfinished, Terminal
  <1>15. SessionOK(s)'
    BY <1>12, <1>13, <1>14 DEF SessionOK, Stored
  <1>16. Touches(th, s)
    BY <1>1, <1>2, <1>5 DEF Touches, At, Thread
  <1>17. \A other \in Thread \ {th} :
            (Sub(other) = NoSession \/ Sub(other) # s) /\ op[other].kind # "startup"
    BY <1>1, <1>6, Startups DEF Sub, Thread, Idle
  <1> QED
    BY <1>4, <1>7, <1>8, <1>9, <1>11, <1>15, <1>16, <1>17, StepKeeps

\* A budget stays within its bounds.
LEMMA BudgetFits ==
    ASSUME CaptureAssumption, TypeOK, Fine \/ Fault
    PROVE  budget' \in [fault : 0..MaxFault, crash : 0..MaxCrash]
  BY DEF CaptureAssumption, TypeOK, Fine, Fault

\* The row of one session is written.
LEMMA RowWrites ==
    ASSUME TypeOK, NEW s \in Session, NEW r, Row(s, r)
    PROVE  run' = [run EXCEPT ![s] = run'[s]] /\ run'[s] = r
  BY DEF TypeOK, Row

\* The owner leaves the slot with the operation that ends it.
LEMMA TakeOverTakes ==
    ASSUME CaptureAssumption, TypeOK, NEW o, o.s \in Session, o.state \in Unfinished,
           o.remote \in Remote, TakeOver(o), Fine \/ Fault \/ budget' \in [fault : 0..MaxFault, crash : 0..MaxCrash]
    PROVE  Takes("mic", o.s) /\ Moves("mic")
  <1> DEFINE n == [Idle EXCEPT !.pc = "shut", !.kind = "interrupt", !.s = o.s,
                               !.state = o.state, !.remote = o.remote]
  <1>1. op \in [Thread -> Op] /\ "mic" \in Thread
    BY DEF TypeOK, Thread
  <1>2. op' = [op EXCEPT !["mic"] = n]
    BY DEF TakeOver, Become
  <1>3. op'["mic"] = n
    BY <1>1, <1>2
  <1>4. n \in Op /\ n.pc = "shut" /\ n.kind = "interrupt" /\ n.s = o.s /\ n.finalized = FALSE
    BY DEF Idle, Op, Step, Kind
  <1>5. op' = [op EXCEPT !["mic"] = op'["mic"]]
    BY <1>2, <1>3
  <1>6. budget' \in [fault : 0..MaxFault, crash : 0..MaxCrash]
    BY BudgetFits
  <1>7. active' = NoOwner
    BY DEF TakeOver
  <1> HIDE DEF n
  <1> QED
    BY <1>3, <1>4, <1>5, <1>6, <1>7 DEF Takes, Moves

\* A journaled block is written of the owner's session alone.
LEMMA JournaledWrites ==
    ASSUME CaptureAssumption, TypeOK, NEW s \in Session, accepted[s] < MaxFrames,
           disk[s].journal = accepted[s], Journaled(s)
    PROVE  /\ disk' = [disk EXCEPT ![s] = disk'[s]] /\ disk'[s] \in Files
           /\ disk'[s].journal = accepted'[s] /\ disk'[s].key = disk[s].key
           /\ accepted' = [accepted EXCEPT ![s] = accepted'[s]]
           /\ accepted'[s] = accepted[s] + 1 /\ accepted'[s] \in 0..MaxFrames
  <1>1. disk[s] \in Files /\ accepted[s] \in 0..MaxFrames /\ MaxFrames \in Nat
    BY DEF TypeOK, CaptureAssumption
  <1>2. accepted[s] + 1 \in NoFile..MaxFrames
    BY <1>1 DEF NoFile
  <1>3. /\ disk' = [disk EXCEPT ![s] = disk'[s]] /\ disk'[s] = [disk[s] EXCEPT !.journal = accepted[s] + 1]
    BY DEF TypeOK, Journaled
  <1>4. disk'[s] \in Files /\ disk'[s].journal = accepted[s] + 1 /\ disk'[s].key = disk[s].key
    BY <1>1, <1>2, <1>3 DEF Files
  <1>5. accepted' = [accepted EXCEPT ![s] = accepted'[s]] /\ accepted'[s] = accepted[s] + 1
    BY DEF TypeOK, Journaled
  <1> QED
    BY <1>1, <1>3, <1>4, <1>5

\* The owner whose block is pushed.
LEMMA PushFacts ==
    ASSUME CaptureAssumption, CaptureInv, CanPush
    PROVE  /\ active.s # NoSession /\ active.s \in Session /\ op["mic"] = Idle /\ "mic" \in Thread
           /\ active \in Owner /\ active.state = "recording" /\ run[active.s].state = "recording"
           /\ active.saved \in 0..MaxFrames /\ active.remote \in Remote
           /\ run[active.s] \in RunRow /\ disk[active.s] \in Files
           /\ accepted[active.s] \in 0..MaxFrames /\ accepted[active.s] < MaxFrames
           /\ disk[active.s].journal = accepted[active.s]
           /\ run[active.s].frames \in 0..MaxFrames
           /\ Kept(active.s) => run[active.s].frames <= accepted[active.s]
           /\ past \in Past /\ MaxFrames \in Nat
  <1>1. active.s # NoSession
    BY DEF CaptureInv, OwnerHolds, CanPush, NoOwner
  <1>2. TypeOK /\ active \in Owner /\ active.s \in Session
    BY <1>1 DEF CaptureInv, TypeOK, Owner
  <1>3. op["mic"] = Idle
    BY DEF CaptureInv, TypeOK, CanPush, MutexFree, At, Thread
  <1>4. active.saved \in 0..MaxFrames /\ active.remote \in Remote
    BY <1>2 DEF Owner
  <1>5. run[active.s] \in RunRow /\ disk[active.s] \in Files /\ accepted[active.s] \in 0..MaxFrames
    BY <1>2 DEF TypeOK
  <1>6. run[active.s].frames \in 0..MaxFrames
    BY <1>5 DEF RunRow
  <1>7. Backed(active.s)
    BY <1>2 DEF CaptureInv, SessionOK
  <1>8. run[active.s].state = "recording" /\ disk[active.s].journal = accepted[active.s]
    BY <1>1 DEF CaptureInv, OwnerHolds, CanPush
  <1> QED
    BY <1>1, <1>2, <1>3, <1>4, <1>5, <1>6, <1>7, <1>8 DEF CanPush, Backed, Thread, TypeOK,
       CaptureAssumption

\* The rows a push may write.
LEMMA PushedRows ==
    ASSUME MaxFrames \in Nat, run[active.s] \in RunRow, accepted[active.s] + 1 \in 0..MaxFrames
    PROVE  /\ PushedRow \in RunRow /\ PushedRow.state = run[active.s].state
           /\ PushedRow.frames \in {run[active.s].frames, accepted[active.s] + 1}
           /\ BackpressureRow \in RunRow /\ BackpressureRow.state = run[active.s].state
           /\ BackpressureRow.frames \in {run[active.s].frames, accepted[active.s] + 1}
  <1>1. /\ PushedRow \in RunRow /\ PushedRow.state = run[active.s].state
        /\ PushedRow.frames \in {run[active.s].frames, accepted[active.s] + 1}
    BY DEF PushedRow, Progress, RunRow
  <1>2. Blamed(PushedRow, "degraded") \in RunRow
    BY <1>1 DEF Blamed, RunRow, Health
  <1>3. /\ Blamed(PushedRow, "degraded").state = PushedRow.state
        /\ Blamed(PushedRow, "degraded").frames = PushedRow.frames
    BY <1>1 DEF Blamed, RunRow
  <1> QED
    BY <1>1, <1>2, <1>3 DEF BackpressureRow

\* The owner after a push that was recorded.
LEMMA PushedOwners ==
    ASSUME MaxFrames \in Nat, active \in Owner, accepted[active.s] + 1 \in 0..MaxFrames, NEW remote \in Remote
    PROVE  /\ PushedOwner \in Owner /\ PushedOwner.s = active.s /\ PushedOwner.state = active.state
           /\ [PushedOwner EXCEPT !.remote = remote] \in Owner
           /\ [PushedOwner EXCEPT !.remote = remote].s = active.s
           /\ [PushedOwner EXCEPT !.remote = remote].state = active.state
  <1>1. PushedOwner \in Owner /\ PushedOwner.s = active.s /\ PushedOwner.state = active.state
    BY DEF PushedOwner, Owner
  <1> QED
    BY <1>1 DEF Owner

\* push: the journal refused the block, and the capture is interrupted.
LEMMA PushNotJournaledKeeps ==
    ASSUME CaptureAssumption, CaptureInv, PushNotJournaled
    PROVE  CaptureInv'
  <1> DEFINE s == active.s
  <1>1. CanPush /\ TypeOK /\ TakeOver(active) /\ Fault
    BY DEF PushNotJournaled, CaptureInv
  <1>2. /\ s # NoSession /\ s \in Session /\ op["mic"] = Idle /\ "mic" \in Thread
        /\ active.state = "recording" /\ run[s].state = "recording" /\ active.remote \in Remote
        /\ run[s] \in RunRow /\ disk[s] \in Files
        /\ accepted[s] \in 0..MaxFrames /\ accepted[s] < MaxFrames
        /\ disk[s].journal = accepted[s] /\ run[s].frames \in 0..MaxFrames
        /\ Kept(s) => run[s].frames <= accepted[s]
        /\ past \in Past
    BY <1>1, PushFacts
  <1>3. Takes("mic", s) /\ Moves("mic")
    BY <1>1, <1>2, TakeOverTakes DEF Unfinished
  <1>4. \/ UNCHANGED <<disk, accepted>>
        \/ /\ disk' = [disk EXCEPT ![s] = disk'[s]] /\ disk'[s] \in Files
           /\ disk'[s].journal = accepted'[s] /\ disk'[s].key = disk[s].key
           /\ accepted' = [accepted EXCEPT ![s] = accepted'[s]]
           /\ accepted'[s] = accepted[s] + 1 /\ accepted'[s] \in 0..MaxFrames
    BY <1>1, <1>2, JournaledWrites DEF PushNotJournaled
  <1>5. Writes(s) /\ Fits(s)
    BY <1>1, <1>2, <1>4 DEF Writes, Fits, PushNotJournaled, dbVars, TypeOK
  <1>6. run'[s].frames <= accepted'[s] \/ ~Kept(s)
    BY <1>2, <1>4 DEF PushNotJournaled, dbVars
  <1> QED
    BY <1>2, <1>3, <1>4, <1>5, <1>6, SlotKeeps DEF PushNotJournaled, dbVars, Unfinished

\* push_notebook_capture_session: the block is journaled, its progress could not be written.
LEMMA PushNotRecordedKeeps ==
    ASSUME CaptureAssumption, CaptureInv, PushNotRecorded
    PROVE  CaptureInv'
  BY PushNotJournaledKeeps DEF PushNotRecorded, PushNotJournaled

\* push_notebook_capture_session: the block is journaled and its progress recorded.
LEMMA PushBlockKeeps ==
    ASSUME CaptureAssumption, CaptureInv, PushBlock
    PROVE  CaptureInv'
  <1> DEFINE s == active.s
  <1>1. CanPush /\ TypeOK /\ Fine /\ Journaled(s) /\ Row(s, PushedRow) /\ active' = PushedOwner
    BY DEF PushBlock, CaptureInv
  <1>2. /\ s # NoSession /\ s \in Session /\ op["mic"] = Idle /\ "mic" \in Thread
        /\ active \in Owner
        /\ active.state = "recording" /\ run[s].state = "recording" /\ active.remote \in Remote
        /\ run[s] \in RunRow /\ disk[s] \in Files
        /\ accepted[s] \in 0..MaxFrames /\ accepted[s] < MaxFrames
        /\ disk[s].journal = accepted[s] /\ run[s].frames \in 0..MaxFrames
        /\ Kept(s) => run[s].frames <= accepted[s]
        /\ past \in Past /\ MaxFrames \in Nat
    BY <1>1, PushFacts
  <1>3. /\ disk' = [disk EXCEPT ![s] = disk'[s]] /\ disk'[s] \in Files
        /\ disk'[s].journal = accepted'[s] /\ disk'[s].key = disk[s].key
        /\ accepted' = [accepted EXCEPT ![s] = accepted'[s]]
        /\ accepted'[s] = accepted[s] + 1 /\ accepted'[s] \in 0..MaxFrames
    BY <1>1, <1>2, JournaledWrites
  <1>4. run' = [run EXCEPT ![s] = run'[s]] /\ run'[s] = PushedRow
    BY <1>1, <1>2, RowWrites
  <1>5. /\ run'[s] \in RunRow /\ run'[s].state = "recording"
        /\ run'[s].frames \in {run[s].frames, accepted[s] + 1}
    BY <1>2, <1>3, <1>4, PushedRows
  <1>6. active' \in Owner /\ active'.s = s /\ active'.state = "recording"
    BY <1>1, <1>2, <1>3, PushedOwners
  <1>7. Keeps(s)
    BY <1>2, <1>5, <1>6 DEF Keeps, PushBlock
  <1>8. Moves("mic")
    BY <1>1, <1>2, BudgetFits, BlankFits DEF Moves, PushBlock
  <1>9. Writes(s) /\ Fits(s)
    BY <1>1, <1>2, <1>3, <1>4, <1>5 DEF Writes, Fits, PushBlock, TypeOK
  <1>10. run'[s].frames <= accepted'[s] \/ ~Kept(s)
    BY <1>2, <1>3, <1>5
  <1> QED
    BY <1>2, <1>3, <1>5, <1>7, <1>8, <1>9, <1>10, SlotKeeps DEF PushBlock, Unfinished

\* push_notebook_capture_session: the block is journaled and the provider could not take it.
LEMMA PushBackpressureKeeps ==
    ASSUME CaptureAssumption, CaptureInv, PushBackpressure
    PROVE  CaptureInv'
  <1> DEFINE s == active.s
             o == [active EXCEPT !.remote = "cleanup"]
  <1>1. CanPush /\ TypeOK /\ Journaled(s)
    BY DEF PushBackpressure, CaptureInv
  <1>2. /\ s # NoSession /\ s \in Session /\ op["mic"] = Idle /\ "mic" \in Thread
        /\ active \in Owner
        /\ active.state = "recording" /\ run[s].state = "recording" /\ active.remote \in Remote
        /\ run[s] \in RunRow /\ disk[s] \in Files
        /\ accepted[s] \in 0..MaxFrames /\ accepted[s] < MaxFrames
        /\ disk[s].journal = accepted[s] /\ run[s].frames \in 0..MaxFrames
        /\ Kept(s) => run[s].frames <= accepted[s]
        /\ past \in Past /\ MaxFrames \in Nat
    BY <1>1, PushFacts
  <1>3. /\ disk' = [disk EXCEPT ![s] = disk'[s]] /\ disk'[s] \in Files
        /\ disk'[s].journal = accepted'[s] /\ disk'[s].key = disk[s].key
        /\ accepted' = [accepted EXCEPT ![s] = accepted'[s]]
        /\ accepted'[s] = accepted[s] + 1 /\ accepted'[s] \in 0..MaxFrames
    BY <1>1, <1>2, JournaledWrites
  <1>4. /\ run' = [run EXCEPT ![s] = run'[s]] /\ run'[s] \in RunRow /\ run'[s].state = "recording"
        /\ run'[s].frames \in {run[s].frames, accepted[s] + 1}
    BY <1>1, <1>2, <1>3, RowWrites, PushedRows DEF PushBackpressure
  <1>5. Writes(s) /\ Fits(s)
    BY <1>1, <1>2, <1>3, <1>4 DEF Writes, Fits, PushBackpressure, TypeOK
  <1>6. run'[s].frames <= accepted'[s] \/ ~Kept(s)
    BY <1>2, <1>3, <1>4
  <1>7. (Keeps(s) \/ Takes("mic", s)) /\ Moves("mic")
    <2>1. CASE Fine /\ active' = [PushedOwner EXCEPT !.remote = "cleanup"] /\ UNCHANGED op
      <3>1. active' \in Owner /\ active'.s = s /\ active'.state = "recording"
        BY <1>2, <1>3, <2>1, PushedOwners DEF Remote
      <3>2. Moves("mic")
        BY <1>1, <1>2, <2>1, BudgetFits, BlankFits DEF Moves
      <3> QED
        BY <1>2, <1>4, <2>1, <3>1, <3>2 DEF Keeps
    <2>2. CASE Fault /\ TakeOver(o)
      <3>1. o.s = s /\ o.state = "recording" /\ o.remote = "cleanup"
        BY <1>2 DEF Owner
      <3> QED
        BY <1>1, <1>2, <2>2, <3>1, TakeOverTakes DEF Unfinished, Remote
    <2> QED
      BY <2>1, <2>2 DEF PushBackpressure
  <1> QED
    BY <1>2, <1>3, <1>4, <1>5, <1>6, <1>7, SlotKeeps DEF PushBackpressure, Unfinished

\* What the mic thread knows of the owner before it writes.
LEMMA OwnerTyped ==
    ASSUME CaptureAssumption, CaptureInv, active.s # NoSession
    PROVE  /\ TypeOK /\ active \in Owner /\ active.s \in Session /\ past \in Past
           /\ active.saved \in 0..MaxFrames /\ active.remote \in Remote
           /\ active.state \in {"recording", "paused"} /\ run[active.s].state = active.state
           /\ run[active.s] \in RunRow /\ disk[active.s] \in Files
           /\ accepted[active.s] \in 0..MaxFrames
           /\ disk[active.s].journal = accepted[active.s]
           /\ Kept(active.s) => run[active.s].frames <= accepted[active.s]
  <1>1. TypeOK /\ active \in Owner /\ active.s \in Session /\ past \in Past
    BY DEF CaptureInv, TypeOK, Owner
  <1>2. active.saved \in 0..MaxFrames /\ active.remote \in Remote
    BY <1>1 DEF Owner
  <1>3. run[active.s] \in RunRow /\ disk[active.s] \in Files /\ accepted[active.s] \in 0..MaxFrames
    BY <1>1 DEF TypeOK
  <1>4. Backed(active.s)
    BY <1>1 DEF CaptureInv, SessionOK
  <1> QED
    BY <1>1, <1>2, <1>3, <1>4 DEF CaptureInv, OwnerHolds, Backed

\* A step of the mic thread that rewrites the state and the health of the
\* owner's row and nothing else that the invariant reads.
LEMMA PauseKeeps ==
    ASSUME CaptureAssumption, CaptureInv, active.s # NoSession,
           UNCHANGED <<rec, index, text, tomb, detached, disk, ui, accepted, past>>,
           col' = col \/ col' = [col EXCEPT ![active.s] = "none"],
           run' = run \/ run' = [run EXCEPT ![active.s] = run'[active.s]],
           run'[active.s] \in RunRow, run'[active.s].frames = run[active.s].frames,
           run'[active.s].state \in {"recording", "paused"},
           Moves("mic"), Keeps(active.s) \/ Takes("mic", active.s)
    PROVE  CaptureInv'
  <1> DEFINE s == active.s
  <1>1. /\ TypeOK /\ s \in Session /\ past \in Past /\ disk[s] \in Files
        /\ accepted[s] \in 0..MaxFrames /\ disk[s].journal = accepted[s]
        /\ Kept(s) => run[s].frames <= accepted[s]
    BY OwnerTyped
  <1>2. Writes(s) /\ Fits(s)
    BY <1>1 DEF Writes, Fits, TypeOK
  <1> QED
    BY <1>1, <1>2, SlotKeeps DEF Thread, Unfinished

\* pause and resume read the owner under the lock before they swap.
LEMMA PausePreflightKeeps ==
    ASSUME CaptureAssumption, CaptureInv, NEW kind \in {"pause", "resume"}, PausePreflight(kind)
    PROVE  CaptureInv'
  <1> DEFINE s == active.s
             n == [Idle EXCEPT !.pc = "cas", !.kind = kind, !.s = s]
  <1>1. s # NoSession
    BY DEF CaptureInv, OwnerHolds, PausePreflight, NoOwner
  <1>2. /\ TypeOK /\ active \in Owner /\ s \in Session /\ active.state \in {"recording", "paused"}
        /\ run[s].state = active.state /\ run[s] \in RunRow
    BY <1>1, OwnerTyped
  <1>3. op' = [op EXCEPT !["mic"] = n] /\ op \in [Thread -> Op] /\ "mic" \in Thread
    BY <1>2 DEF PausePreflight, Become, TypeOK, Thread
  <1>4. n \in Op /\ n.pc = "cas" /\ n.kind = kind /\ n.s = s
    BY <1>2 DEF Idle, Op, Step, Kind, Unfinished, Remote
  <1>5. op'["mic"] = n /\ op' = [op EXCEPT !["mic"] = op'["mic"]]
    BY <1>3
  <1>6. /\ run' = run \/ run' = [run EXCEPT ![s] = run'[s]]
        /\ run'[s] \in RunRow /\ run'[s].frames = run[s].frames /\ run'[s].state = run[s].state
    <2>1. CASE UNCHANGED run
      BY <1>2, <2>1
    <2>2. CASE \E r \in MissingRows(run[s]) : Row(s, r)
      <3>1. PICK h \in {"degraded", "unavailable"} : Row(s, Blamed(run[s], h))
        BY <2>2 DEF MissingRows
      <3>2. run' = [run EXCEPT ![s] = run'[s]] /\ run'[s] = Blamed(run[s], h)
        BY <1>2, <3>1, RowWrites
      <3> QED
        BY <1>2, <3>2 DEF Blamed, RunRow, Health
    <2> QED
      BY <2>1, <2>2 DEF PausePreflight
  <1> HIDE DEF n
  <1>7. budget' \in [fault : 0..MaxFault, crash : 0..MaxCrash]
    BY <1>2, BudgetFits DEF PausePreflight
  <1>8. Moves("mic")
    BY <1>4, <1>5, <1>7 DEF Moves
  <1>9. Keeps(s)
    BY <1>2, <1>4, <1>5, <1>6 DEF Keeps, PausePreflight, memVars
  <1> QED
    BY <1>1, <1>2, <1>6, <1>8, <1>9, PauseKeeps DEF PausePreflight, memVars

\* At its swap a pause or a resume still has its owner in the slot.
LEMMA SwapFacts ==
    ASSUME CaptureAssumption, CaptureInv, At("mic", "cas")
    PROVE  /\ active.s = Sub("mic") /\ active.s # NoSession
           /\ Wanted \in {"recording", "paused"}
           /\ op \in [Thread -> Op] /\ "mic" \in Thread
  <1>1. Sub("mic") = active.s /\ KindFits(op["mic"])
    BY DEF CaptureInv, OneAtWork, At, Knows, Thread
  <1> QED
    BY <1>1 DEF CaptureInv, TypeOK, KindFits, At, Sub, Wanted, CaptureAssumption, Thread

\* pause and resume write the new state of the row and of the owner.
LEMMA PauseCommitsKeeps ==
    ASSUME CaptureAssumption, CaptureInv, PauseCommits
    PROVE  CaptureInv'
  <1> DEFINE s == active.s
  <1>1. /\ s = Sub("mic") /\ s # NoSession /\ Wanted \in {"recording", "paused"}
        /\ op \in [Thread -> Op] /\ "mic" \in Thread
    BY SwapFacts DEF PauseCommits
  <1>2. TypeOK /\ active \in Owner /\ s \in Session /\ run[s] \in RunRow
    BY <1>1, OwnerTyped
  <1>3. run' = [run EXCEPT ![s] = run'[s]] /\ run'[s] = [run[s] EXCEPT !.state = Wanted]
    BY <1>1, <1>2, RowWrites DEF PauseCommits
  <1>4. run'[s] \in RunRow /\ run'[s].frames = run[s].frames /\ run'[s].state = Wanted
    BY <1>1, <1>2, <1>3 DEF RunRow, Unfinished
  <1>5. active' = [active EXCEPT !.state = Wanted]
    BY DEF PauseCommits
  <1>6. active' \in Owner /\ active'.s = s /\ active'.state = Wanted
    BY <1>1, <1>2, <1>5 DEF Owner, Unfinished
  <1>7. op'["mic"] = Idle /\ op' = [op EXCEPT !["mic"] = op'["mic"]]
    BY <1>1 DEF PauseCommits, Become
  <1>8. Moves("mic")
    BY <1>2, <1>7, BlankFits, BudgetFits DEF Moves, PauseCommits
  <1>9. Keeps(s)
    BY <1>1, <1>4, <1>6, <1>7 DEF Keeps
  <1> QED
    BY <1>1, <1>3, <1>4, <1>8, <1>9, PauseKeeps DEF PauseCommits

\* pause and resume: the control is not delivered; the provider is lost, the swap
\* stands or is rolled back, or the capture ends.
LEMMA PauseControlFailsKeeps ==
    ASSUME CaptureAssumption, CaptureInv, PauseControlFails
    PROVE  CaptureInv'
  <1> DEFINE s == active.s
             swapped == [run[s] EXCEPT !.state = Wanted]
             lost == [active EXCEPT !.state = Wanted, !.remote = "none"]
  <1>1. /\ s = Sub("mic") /\ s # NoSession /\ Wanted \in {"recording", "paused"}
        /\ op \in [Thread -> Op] /\ "mic" \in Thread
    BY SwapFacts DEF PauseControlFails
  <1>2. /\ TypeOK /\ active \in Owner /\ s \in Session /\ run[s] \in RunRow
        /\ run[s].state = active.state /\ active.state \in {"recording", "paused"}
    BY <1>1, OwnerTyped
  <1>3. /\ swapped \in RunRow /\ swapped.frames = run[s].frames /\ swapped.state = Wanted
        /\ Blamed(swapped, "degraded") \in RunRow /\ Blamed(swapped, "degraded").frames = run[s].frames
        /\ Blamed(swapped, "degraded").state = Wanted
    <2>1. swapped \in RunRow /\ swapped.frames = run[s].frames /\ swapped.state = Wanted
      BY <1>1, <1>2 DEF RunRow, Unfinished
    <2> HIDE DEF swapped
    <2>2. /\ Blamed(swapped, "degraded") \in RunRow
          /\ Blamed(swapped, "degraded").frames = swapped.frames
          /\ Blamed(swapped, "degraded").state = swapped.state
      BY <2>1 DEF Blamed, RunRow, Health
    <2> QED
      BY <2>1, <2>2
  <1>4. /\ lost \in Owner /\ lost.s = s /\ lost.state = Wanted /\ lost.remote = "none"
        /\ [lost EXCEPT !.state = "paused"] \in Owner /\ [lost EXCEPT !.state = "paused"].s = s
        /\ [lost EXCEPT !.state = "paused"].state = "paused"
    BY <1>1, <1>2 DEF Owner, Unfinished, Remote
  <1>5. /\ UNCHANGED <<rec, index, text, tomb, detached, disk, ui, accepted, past>>
        /\ col' = [col EXCEPT ![s] = "none"] /\ run[s].state = Previous
        /\ \/ Fine /\ Row(s, Blamed(swapped, "degraded")) /\ active' = lost /\ Become("mic", Idle)
           \/ Fault /\ Row(s, swapped) /\ active' = lost /\ Become("mic", Idle)
           \/ /\ Wanted = "recording" /\ Fault /\ UNCHANGED run
              /\ active' = [lost EXCEPT !.state = "paused"] /\ Become("mic", Idle)
           \/ /\ budget.fault + 2 <= MaxFault /\ budget' = [budget EXCEPT !.fault = budget.fault + 2]
              /\ Row(s, swapped) /\ TakeOver(lost)
    BY <1>1 DEF PauseControlFails
  <1> HIDE DEF swapped, lost
  <1>6. Become("mic", Idle) => op'["mic"] = Idle /\ op' = [op EXCEPT !["mic"] = op'["mic"]]
    BY <1>1 DEF Become
  <1>7. Become("mic", Idle) /\ (Fine \/ Fault) => Moves("mic")
    BY <1>2, <1>6, BlankFits, BudgetFits DEF Moves
  <1>8. \A r : Row(s, r) => run' = [run EXCEPT ![s] = run'[s]] /\ run'[s] = r
    BY <1>2, RowWrites
  <1>9. CASE Fine /\ Row(s, Blamed(swapped, "degraded")) /\ active' = lost /\ Become("mic", Idle)
    <2>1. run' = [run EXCEPT ![s] = run'[s]] /\ run'[s] = Blamed(swapped, "degraded")
      BY <1>8, <1>9
    <2>2. Keeps(s)
      BY <1>1, <1>3, <1>4, <1>6, <1>9, <2>1 DEF Keeps
    <2> QED
      BY <1>1, <1>3, <1>5, <1>7, <1>9, <2>1, <2>2, PauseKeeps
  <1>10. CASE Fault /\ Row(s, swapped) /\ active' = lost /\ Become("mic", Idle)
    <2>1. run' = [run EXCEPT ![s] = run'[s]] /\ run'[s] = swapped
      BY <1>8, <1>10
    <2>2. Keeps(s)
      BY <1>1, <1>3, <1>4, <1>6, <1>10, <2>1 DEF Keeps
    <2> QED
      BY <1>1, <1>3, <1>5, <1>7, <1>10, <2>1, <2>2, PauseKeeps
  <1>11. CASE /\ Wanted = "recording" /\ Fault /\ UNCHANGED run
              /\ active' = [lost EXCEPT !.state = "paused"] /\ Become("mic", Idle)
    <2>1. run[s].state = "paused"
      BY <1>5, <1>11 DEF Wanted, Previous
    <2>2. Keeps(s)
      BY <1>1, <1>4, <1>6, <1>11, <2>1 DEF Keeps
    <2> QED
      BY <1>1, <1>2, <1>5, <1>7, <1>11, <2>1, <2>2, PauseKeeps
  <1>12. CASE /\ budget.fault + 2 <= MaxFault
              /\ budget' = [budget EXCEPT !.fault = budget.fault + 2]
              /\ Row(s, swapped) /\ TakeOver(lost)
    <2>1. run' = [run EXCEPT ![s] = run'[s]] /\ run'[s] = swapped
      BY <1>8, <1>12
    <2>2. budget' \in [fault : 0..MaxFault, crash : 0..MaxCrash]
      BY <1>2, <1>12 DEF TypeOK, CaptureAssumption
    <2>3. Takes("mic", s) /\ Moves("mic")
      BY <1>1, <1>2, <1>4, <1>12, <2>2, TakeOverTakes DEF Unfinished, Remote
    <2> QED
      BY <1>1, <1>3, <1>5, <2>1, <2>3, PauseKeeps
  <1> QED
    BY <1>5, <1>9, <1>10, <1>11, <1>12

\* The gate takes the owner out of the slot.
LEMMA GateTakes ==
    ASSUME CaptureAssumption, CaptureInv, NEW s \in Session, active.s = s, GateFree, MutexFree,
           NEW kind \in {"stop", "interrupt"}, NEW state \in Unfinished,
           active' = NoOwner, UNCHANGED budget, kind = "stop" => s \in detached',
           Become("gate", [Idle EXCEPT !.pc = "shut", !.kind = kind, !.s = s,
                                       !.state = state, !.remote = active.remote])
    PROVE  Takes("gate", s) /\ Moves("gate") /\ active.s # NoSession
  <1> DEFINE n == [Idle EXCEPT !.pc = "shut", !.kind = kind, !.s = s,
                               !.state = state, !.remote = active.remote]
  <1>1. active.s # NoSession
    BY DEF CaptureAssumption
  <1>2. TypeOK /\ active.remote \in Remote /\ op \in [Thread -> Op] /\ "gate" \in Thread
    BY <1>1, OwnerTyped DEF TypeOK, Thread
  <1>3. n \in Op /\ n.pc = "shut" /\ n.kind = kind /\ n.s = s /\ n.finalized = FALSE
    <2>1. "shut" \in Step /\ kind \in Kind
      BY DEF Step, Kind
    <2> QED
      BY <1>2, <2>1, BlankFits DEF Idle, Op
  <1>4. op'["gate"] = n /\ op' = [op EXCEPT !["gate"] = op'["gate"]]
    BY <1>2 DEF Become
  <1> HIDE DEF n
  <1> QED
    BY <1>1, <1>2, <1>3, <1>4 DEF Takes, Moves, TypeOK

\* interrupt_capture takes the owner out of the slot.
LEMMA InterruptCaptureKeeps ==
    ASSUME CaptureAssumption, CaptureInv, NEW s \in Session, InterruptCapture(s)
    PROVE  CaptureInv'
  <1>1. s = active.s /\ s # NoSession
    BY DEF InterruptCapture, CaptureAssumption
  <1>2. /\ TypeOK /\ past \in Past /\ disk[s] \in Files /\ run[s] \in RunRow
        /\ active.state \in {"recording", "paused"} /\ run[s].state = active.state
        /\ accepted[s] \in 0..MaxFrames /\ disk[s].journal = accepted[s]
        /\ Kept(s) => run[s].frames <= accepted[s]
    BY <1>1, OwnerTyped
  <1>3. Takes("gate", s) /\ Moves("gate")
    BY <1>1, <1>2, GateTakes DEF InterruptCapture, Unfinished
  <1>4. Writes(s) /\ Fits(s)
    BY <1>2 DEF Writes, Fits, TypeOK, InterruptCapture, dbVars
  <1> QED
    BY <1>1, <1>2, <1>3, <1>4, SlotKeeps
       DEF InterruptCapture, dbVars, Unfinished, Thread, GateFree, MutexFree, At

\* stop_capture takes the owner out of the slot.
LEMMA StopCaptureKeeps ==
    ASSUME CaptureAssumption, CaptureInv, NEW s \in Session, StopCapture(s)
    PROVE  CaptureInv'
  <1>1. s = active.s /\ s # NoSession
    BY DEF StopCapture, CaptureAssumption
  <1>2. /\ TypeOK /\ past \in Past /\ disk[s] \in Files /\ run[s] \in RunRow
        /\ accepted[s] \in 0..MaxFrames /\ disk[s].journal = accepted[s]
        /\ Kept(s) => run[s].frames <= accepted[s]
    <2>1. active.s # NoSession
      BY <1>1
    <2>2. /\ TypeOK /\ past \in Past /\ disk[active.s] \in Files /\ run[active.s] \in RunRow
          /\ accepted[active.s] \in 0..MaxFrames /\ disk[active.s].journal = accepted[active.s]
          /\ Kept(active.s) => run[active.s].frames <= accepted[active.s]
      BY <2>1, OwnerTyped
    <2> QED
      BY <1>1, <2>2
  <1>3. Takes("gate", s) /\ Moves("gate")
    BY <1>1, <1>2, GateTakes DEF StopCapture, RegisterDetached, Unfinished
  <1>4. run' = [run EXCEPT ![s] = run'[s]] /\ run'[s] = [run[s] EXCEPT !.state = "draining"]
    BY <1>2, RowWrites DEF StopCapture
  <1>5. run'[s] \in RunRow /\ run'[s].state = "draining" /\ run'[s].frames = run[s].frames
    BY <1>2, <1>4 DEF RunRow, Unfinished
  <1>6. Writes(s) /\ Fits(s)
    BY <1>2, <1>4, <1>5 DEF Writes, Fits, TypeOK, StopCapture, RegisterDetached
  <1> QED
    BY <1>1, <1>2, <1>3, <1>5, <1>6, SlotKeeps
       DEF StopCapture, Unfinished, Thread, GateFree, MutexFree, At

-----------------------------------------------------------------------------
(* The birth of a capture. *)

\* The gate is at a step of a start: nobody else is at work.
LEMMA StartAlone ==
    ASSUME CaptureAssumption, CaptureInv, op["gate"].pc \in {"create", "remote"}
    PROVE  /\ active = NoOwner /\ op["mic"] = Idle /\ op["gate"].kind = "start"
           /\ "gate" \in Thread /\ "mic" \in Thread
  <1>1. op["gate"].kind = "start"
    BY DEF CaptureInv, Knows, KindFits, Thread, Starting
  <1>2. active = NoOwner /\ At("mic", "idle")
    BY <1>1 DEF CaptureInv, OneAtWork, At
  <1> QED
    BY <1>1, <1>2 DEF CaptureInv, TypeOK, Thread, At

\* create_run: the first row of a capture.
LEMMA CreateRunKeeps ==
    ASSUME CaptureAssumption, CaptureInv, NEW s \in Session, CreateRun(s)
    PROVE  CaptureInv'
  <1>1. /\ active = NoOwner /\ op["mic"] = Idle /\ op["gate"].kind = "start"
        /\ "gate" \in Thread /\ "mic" \in Thread
    BY StartAlone DEF CreateRun, At
  <1>2. TypeOK /\ op["gate"] \in Op /\ op \in [Thread -> Op] /\ past \in Past /\ rec[s] \in RecRow
    BY <1>1 DEF CaptureInv, TypeOK
  <1>3. /\ s \notin past.created /\ s \notin past.started /\ s \notin tomb /\ s \notin past.retained
        /\ accepted[s] = 0 /\ ~Present(s)
    BY DEF CreateRun, CaptureInv, SessionOK, Dated
  <1>4. /\ op'["gate"] \in Op /\ op'["gate"].pc = "key" /\ op'["gate"].kind = "start"
        /\ op'["gate"].s = s
        /\ op' = [op EXCEPT !["gate"] = op'["gate"]]
    <2>1. op'["gate"] = [op["gate"] EXCEPT !.pc = "key", !.s = s]
      BY <1>1, <1>2 DEF CreateRun, Become
    <2> QED
      BY <1>1, <1>2, <2>1 DEF CreateRun, Become, Op, Step
  <1>5. Moves("gate") /\ GoesOn("gate")
    BY <1>1, <1>2, <1>4 DEF Moves, GoesOn, CreateRun, TypeOK
  <1>6. run' = [run EXCEPT ![s] = run'[s]] /\ run'[s] = NewRun
    BY <1>2, RowWrites DEF CreateRun
  <1>7. run'[s] \in RunRow /\ run'[s].state = "recording" /\ run'[s].frames = 0
    BY <1>6, BlankFits DEF NewRun, RunRow, NoRun, Unfinished, Health, CaptureAssumption
  <1>8. rec' = [rec EXCEPT ![s] = rec'[s]] /\ rec'[s] \in RecRow
    BY <1>2 DEF CreateRun, RecRow, TypeOK
  <1>9. /\ past'.created = past.created \cup {s} /\ past'.started = past.started
        /\ past'.erased = past.erased /\ past'.retained = past.retained
        /\ past'.outlived = past.outlived /\ past' \in Past
    BY <1>2 DEF CreateRun, Remember, Past
  <1>10. Writes(s) /\ Fits(s)
    BY <1>2, <1>6, <1>7, <1>8, <1>9 DEF Writes, Fits, CreateRun, TypeOK, memVars
  <1>11. \A t \in Session \ {s} : Spares(t)
    BY <1>10, WritesSpare
  <1>12. op'["mic"] = op["mic"]
    BY <1>1, <1>2 DEF CreateRun, Become
  <1>13. TypeOK'
    BY <1>2, <1>5, <1>10, <1>1, WritesTyped DEF CreateRun, TypeOK, memVars
  <1>14. OneAtWork'
    BY <1>1, <1>4, <1>12 DEF CreateRun, OneAtWork, At, Sub, Idle, MicStep, memVars
  <1>15. (OwnerHolds /\ DestroyHolds)'
    BY <1>1, <1>9 DEF CaptureInv, CreateRun, OwnerHolds, DestroyHolds, NoOwner, memVars
  <1>16. Knows(op["gate"])'
    BY <1>3, <1>4, <1>7, <1>9 DEF Knows, KindFits, StartKnows, PurgeKnows, EndKnows, AudioKnows,
       Starting, Purging, Ending, Saving, Indexed, Retaining
  <1>17. Stored(s)'
    BY <1>3, <1>7, <1>9 DEF Stored, Survives, Backed, Final, Dated, Buried, Kept, Present, CreateRun
  <1>18. Owned(s)'
    BY <1>3, <1>9 DEF Owned
  <1>19. (s \notin past.outlived => Watched(s))'
    BY <1>1, <1>3, <1>7, <1>9 DEF CaptureInv, SessionOK, Watched, CreateRun, At, Sub, Thread,
       NoOwner,
       Terminal, Idle, CaptureAssumption
  <1>20. Touches("gate", s)
    BY <1>1, <1>11, <1>12 DEF Touches, CreateRun, At, Thread, memVars
  <1>21. \A other \in Thread \ {"gate"} :
            (Sub(other) = NoSession \/ Sub(other) # s) /\ op[other].kind # "startup"
    BY <1>1 DEF Sub, Thread, Idle
  <1> QED
    BY <1>1, <1>13, <1>14, <1>15, <1>16, <1>17, <1>18, <1>19, <1>20, <1>21,
       StepKeeps DEF SessionOK, Stored

\* start_capture's last step: the owner enters the slot.
LEMMA StartRemoteKeeps ==
    ASSUME CaptureAssumption, CaptureInv, StartRemote
    PROVE  CaptureInv'
  <1>1. /\ active = NoOwner /\ op["mic"] = Idle /\ op["gate"].kind = "start"
        /\ "gate" \in Thread /\ "mic" \in Thread /\ op["gate"].pc = "remote"
    BY StartAlone DEF StartRemote, At
  <1>2. PICK s \in Session : s = Sub("gate")
    BY <1>1 DEF CaptureInv, Knows, KindFits, Sub
  <1>3. /\ Typed("gate", s) /\ Stored(s) /\ Held("gate", s) /\ StartKnows(op["gate"])
    BY <1>1, <1>2, HereHolds DEF AtWork, Step
  <1>4. /\ run[s].state = "recording" /\ run[s].frames = 0 /\ s \notin past.started
        /\ s \in past.erased \/ disk[s].key
        /\ disk[s].journal = 0 /\ accepted[s] = 0 /\ s \notin tomb /\ s \in past.created
        /\ s \notin past.outlived => s \notin past.retained
    BY <1>1, <1>2, <1>3 DEF StartKnows, Starting, Sub, Stored, Dated, Buried, Present, Held,
       Unfinished
  <1>5. /\ UNCHANGED <<rec, index, disk, text, tomb, detached, ui, accepted>>
        /\ budget' \in [fault : 0..MaxFault, crash : 0..MaxCrash]
    BY <1>3 DEF StartRemote, Fine, Fault, Typed
  <1>6. /\ col' = col \/ col' = [col EXCEPT ![s] = "running"]
        /\ run' = run \/ run' = [run EXCEPT ![s] = run'[s]]
        /\ run'[s] \in RunRow /\ run'[s].state = "recording" /\ run'[s].frames = 0
    <2>1. CASE UNCHANGED run
      BY <1>2, <1>3, <1>4, <2>1 DEF StartRemote, Typed
    <2>2. CASE Row(s, Blamed(run[s], "unavailable")) /\ UNCHANGED col
      <3>1. run' = [run EXCEPT ![s] = run'[s]] /\ run'[s] = Blamed(run[s], "unavailable")
        BY <2>2, RowWrites DEF CaptureInv
      <3> QED
        BY <1>3, <1>4, <2>2, <3>1 DEF Typed, Blamed, RunRow, Health
    <2> QED
      BY <1>2, <2>1, <2>2 DEF StartRemote
  <1>7. CASE Goto("gate", "rollback") /\ UNCHANGED <<run, col, active, past>>
    <2>1. Walks("gate", "rollback")
      BY <1>1, <1>3, <1>7, GotoWalks DEF Goto, Become, Typed, Step
    <2>2. Writes(s) /\ Fits(s)
      BY <1>3, <1>5, <1>7 DEF Writes, Fits, Typed
    <2>3. op' = [op EXCEPT !["gate"] = op'["gate"]]
      BY <1>1, <1>3, <1>7 DEF Goto, Become, Typed
    <2>4. Moves("gate") /\ GoesOn("gate")
      BY <1>1, <1>5, <2>1, <2>3 DEF Moves, GoesOn, Walks, OpIs
    <2>5. Knows(op["gate"])'
      BY <1>1, <1>2, <1>3, <1>4, <1>7, <2>1 DEF Walks, OpIs, Knows, KindFits, StartKnows,
         PurgeKnows, EndKnows,
         AudioKnows, Starting, Purging, Ending, Saving, Indexed, Retaining, Sub
    <2>6. Stored(s)'
      BY <1>3, <1>4, <1>5, <1>7 DEF Stored, Survives, Backed, Final, Dated, Buried, Kept, Present,
         Unfinished
    <2>7. Held("gate", s)'
      BY <1>1, <1>3, <1>4, <1>5, <1>7 DEF Held, Handing, Present, Sub
    <2> QED
      BY <1>1, <1>2, <1>5, <1>7, <2>2, <2>4, <2>5, <2>6, <2>7, WorkKeeps DEF AtWork, Step
  <1>8. CASE \E remote \in {"on", "none"} : Publish(s, remote)
    <2>1. PICK remote \in {"on", "none"} : Publish(s, remote)
      BY <1>8
    <2>2. active' \in Owner /\ active'.s = s /\ active'.state = "recording"
      BY <2>1 DEF Publish, Owner, Unfinished, Remote, CaptureAssumption
    <2>3. /\ past'.created = past.created /\ past'.started = past.started \cup {s}
          /\ past'.erased = past.erased /\ past'.retained = past.retained
          /\ past'.outlived = past.outlived /\ past' \in Past
      BY <1>3, <2>1 DEF Publish, Remember, Past, Typed
    <2>4. op'["gate"] = Idle /\ op' = [op EXCEPT !["gate"] = op'["gate"]] /\ op'["mic"] = op["mic"]
      BY <1>1, <1>3, <2>1 DEF Publish, Become, Typed
    <2>5. Moves("gate")
      BY <1>5, <2>4, BlankFits DEF Moves
    <2>6. Writes(s) /\ Fits(s)
      BY <1>3, <1>5, <1>6, <2>3 DEF Writes, Fits, Typed
    <2>7. \A t \in Session \ {s} : Spares(t)
      BY <2>6, WritesSpare
    <2>8. TypeOK'
      BY <1>1, <1>5, <2>2, <2>5, <2>6, WritesTyped DEF CaptureInv, TypeOK
    <2>9. OneAtWork'
      BY <1>1, <2>4 DEF OneAtWork, At, Sub, Idle, MicStep
    <2>10. (OwnerHolds /\ DestroyHolds)'
      BY <1>4, <1>5, <1>6, <2>2, <2>3 DEF CaptureInv, OwnerHolds, DestroyHolds, CaptureAssumption
    <2>11. Knows(op["gate"])'
      BY <1>1, <2>4, IdleKnows
    <2>12. Stored(s)'
      BY <1>3, <1>4, <1>5, <1>6, <2>3 DEF Stored, Survives, Backed, Final, Dated, Buried, Kept,
         Present, Unfinished
    <2>13. Owned(s)' /\ ((s \notin past.outlived => Watched(s))')
      BY <1>4, <1>6, <2>2, <2>3 DEF Owned, Watched, Terminal
    <2>14. Touches("gate", s)
      BY <1>1, <1>2, <2>4, <2>7 DEF Touches, At, Thread, NoOwner
    <2>15. \A other \in Thread \ {"gate"} :
              (Sub(other) = NoSession \/ Sub(other) # s) /\ op[other].kind # "startup"
      BY <1>1 DEF Sub, Thread, Idle
    <2> QED
      BY <1>1, <2>8, <2>9, <2>10, <2>11, <2>12, <2>13, <2>14, <2>15, StepKeeps DEF SessionOK, Stored
  <1> QED
    BY <1>2, <1>7, <1>8 DEF StartRemote

-----------------------------------------------------------------------------
(* The collector, the users, and a destruction in progress. *)

\* The collector writes the health of its run.
LEMMA CollectorHealthKeeps ==
    ASSUME CaptureAssumption, CaptureInv, NEW s \in Session, CollectorHealth(s)
    PROVE  CaptureInv'
  <1>1. TypeOK /\ run[s] \in RunRow /\ run \in [Session -> RunRow] /\ col[s] # "none"
    BY DEF CaptureInv, TypeOK, CollectorHealth
  <1>2. PICK r \in CollectorRows(run[s]) : Row(s, r)
    BY DEF CollectorHealth
  <1>3. run' = [run EXCEPT ![s] = run'[s]] /\ run'[s] = r
    BY <1>1, <1>2, RowWrites
  <1>4. r \in RunRow /\ r.state = run[s].state /\ r.path = run[s].path /\ r.frames = run[s].frames
    <2>1. \/ r = [run[s] EXCEPT !.health = "live", !.cause = FALSE]
          \/ \E h \in Health : r = [run[s] EXCEPT !.health = h]
          \/ \E h \in Health : r = Blamed(run[s], h)
      BY <1>2 DEF CollectorRows, Health
    <2>2. "live" \in Health
      BY DEF Health
    <2>3. CASE r = [run[s] EXCEPT !.health = "live", !.cause = FALSE]
      BY <1>1, <2>2, <2>3 DEF RunRow
    <2>4. CASE \E h \in Health : r = [run[s] EXCEPT !.health = h]
      BY <1>1, <2>4 DEF RunRow
    <2>5. CASE \E h \in Health : r = Blamed(run[s], h)
      BY <1>1, <2>5 DEF RunRow, Blamed
    <2> QED
      BY <2>1, <2>3, <2>4, <2>5
  <1>5. Mild(s)
    BY <1>3, <1>4 DEF Mild, CollectorHealth, Kept, memVars
  <1>6. \A t \in Session \ {s} : Spares(t)
    BY <1>1, <1>3 DEF Spares, CollectorHealth, memVars, TypeOK
  <1>7. TypeOK'
    BY <1>1, <1>3, <1>4 DEF TypeOK, CollectorHealth, At, memVars
  <1>8. s \notin past.outlived => run[s].state \notin Terminal
    <2>1. ASSUME s \notin past.outlived
          PROVE  active.s = s \/ \E th \in Thread : Sub(th) = s /\ At(th, "shut")
      BY <1>1, <2>1 DEF CaptureInv, SessionOK, Watched
    <2>2. active.s = s => run[s].state \in Unfinished
      BY OwnerTyped DEF Unfinished, CaptureAssumption
    <2>3. \A th \in Thread : Sub(th) = s /\ At(th, "shut") => run[s].state \in Unfinished
      BY DEF CaptureInv, Knows, EndKnows, At, Sub
    <2> QED
      BY <2>1, <2>2, <2>3 DEF Unfinished, Terminal
  <1>9. (s \notin past.outlived => Watched(s))'
    BY <1>3, <1>4, <1>8 DEF CaptureInv, SessionOK, Watched, CollectorHealth, Sub, At, memVars,
       Present
  <1>10. DestroyHolds'
    BY DEF CaptureInv, DestroyHolds, CollectorHealth
  <1> QED
    BY <1>5, <1>6, <1>7, <1>9, <1>10, MildKeeps

\* The collector writes an utterance or a gap.
LEMMA CollectorTextKeeps ==
    ASSUME CaptureAssumption, CaptureInv, NEW s \in Session, CollectorText(s)
    PROVE  CaptureInv'
  <1>1. TypeOK /\ text[s] \subseteq {"facts", "gap"} /\ text \in [Session -> SUBSET {"facts", "gap"}]
    BY DEF CaptureInv, TypeOK
  <1>2. PICK w \in {"facts", "gap"} :
            (w = "facts" => run[s].state \in Unfinished) /\ text' = [text EXCEPT ![s] = @ \cup {w}]
    BY DEF CollectorText
  <1>3. Mild(s)
    BY DEF Mild, CollectorText, Kept, memVars
  <1>4. \A t \in Session \ {s} : Spares(t)
    BY <1>1, <1>2 DEF Spares, CollectorText, memVars, TypeOK
  <1>5. TypeOK'
    BY <1>1, <1>2 DEF TypeOK, CollectorText, At, memVars
  <1>6. (s \notin past.outlived => Watched(s))'
    <2>1. ASSUME s \notin past.outlived
          PROVE  active.s = s \/ \E th \in Thread : Sub(th) = s /\ At(th, "shut")
      BY <2>1 DEF CaptureInv, SessionOK, Watched, CollectorText
    <2>2. active.s = s => run[s].state \in Unfinished
      BY OwnerTyped DEF Unfinished, CaptureAssumption
    <2>3. \A th \in Thread : Sub(th) = s /\ At(th, "shut") => run[s].state \in Unfinished
      BY DEF CaptureInv, Knows, EndKnows, At, Sub
    <2> QED
      BY <2>1, <2>2, <2>3 DEF CaptureInv, SessionOK, Watched, CollectorText, Sub, At, memVars
  <1>7. DestroyHolds'
    BY DEF CaptureInv, DestroyHolds, CollectorText
  <1> QED
    BY <1>3, <1>4, <1>5, <1>6, <1>7, MildKeeps

\* The collector ends.
LEMMA CollectorEndsKeeps ==
    ASSUME CaptureAssumption, CaptureInv, NEW s \in Session, CollectorEnds(s)
    PROVE  CaptureInv'
  <1>1. TypeOK /\ UNCHANGED <<run, rec, index, text, tomb>> /\ UNCHANGED <<active, detached>>
    BY DEF CaptureInv, CollectorEnds, dbVars, memVars
  <1>2. Mild(s)
    BY <1>1 DEF Mild, CollectorEnds, Kept
  <1>3. \A t \in Session \ {s} : Spares(t)
    BY <1>1 DEF Spares, CollectorEnds, TypeOK
  <1>4. TypeOK'
    BY <1>1 DEF TypeOK, CollectorEnds, At
  <1>5. (s \notin past.outlived => Watched(s))'
    BY <1>1 DEF CaptureInv, SessionOK, Watched, CollectorEnds, Sub, At, Present, TypeOK
  <1>6. DestroyHolds'
    BY DEF CaptureInv, DestroyHolds, CollectorEnds
  <1> QED
    BY <1>2, <1>3, <1>4, <1>5, <1>6, MildKeeps

\* No files at all, field by field.
LEMMA NoFilesIs ==
    ASSUME NEW f \in Files, f.journal = NoFile, f.chunks = NoFile, f.key = FALSE
    PROVE  f = NoFiles
  BY DEF Files, NoFiles

\* No index row, field by field.
LEMMA NoIndexIs ==
    ASSUME NEW i \in IndexRow, i.path = FALSE, i.ledger = "none"
    PROVE  i = NoIndex
  BY DEF IndexRow, NoIndex

\* A step that writes the catalogue row of s, or deletes its audio.
LEMMA SoftDeleteKeeps ==
    ASSUME CaptureAssumption, CaptureInv, NEW s \in Session, SoftDelete(s) \/ Restore(s)
    PROVE  CaptureInv'
  <1>1. TypeOK /\ rec[s] \in RecRow /\ past \in Past /\ rec \in [Session -> RecRow]
    BY DEF CaptureInv, TypeOK
  <1>2. UNCHANGED <<run, index, text, tomb, active, detached, disk, op, ui, col, accepted, budget>>
    BY DEF SoftDelete, Restore, memVars
  <1>3. /\ rec' = [rec EXCEPT ![s] = rec'[s]] /\ rec'[s] \in RecRow
        /\ rec'[s].status = rec[s].status /\ rec[s] # NoRec
    <2>1. PICK b \in BOOLEAN : rec' = [rec EXCEPT ![s].trashed = b]
      BY DEF SoftDelete, Restore
    <2>2. rec' = [rec EXCEPT ![s] = rec'[s]] /\ rec'[s] = [rec[s] EXCEPT !.trashed = b]
      BY <1>1, <2>1
    <2>3. rec'[s] \in RecRow /\ rec'[s].status = rec[s].status
      BY <1>1, <2>2 DEF RecRow
    <2>4. rec[s] # NoRec
      BY DEF SoftDelete, Restore, NoRec
    <2> QED
      BY <2>2, <2>3, <2>4
  <1>4. /\ past'.created = past.created /\ past'.started = past.started
        /\ past'.erased = past.erased /\ past'.retained = past.retained
        /\ past'.outlived = past.outlived /\ past' \in Past
    BY <1>1 DEF SoftDelete, Restore, Remember, Past
  <1>5. Mild(s)
    BY <1>2, <1>3, <1>4 DEF Mild, Kept
  <1>6. \A t \in Session \ {s} : Spares(t)
    BY <1>1, <1>2, <1>3, <1>4 DEF Spares
  <1>7. TypeOK'
    BY <1>1, <1>2, <1>3, <1>4 DEF TypeOK, At
  <1>8. (s \notin past.outlived => Watched(s))'
    BY <1>2, <1>4 DEF CaptureInv, SessionOK, Watched, Sub, At, Present
  <1>9. DestroyHolds'
    BY <1>2, <1>4 DEF CaptureInv, DestroyHolds
  <1> QED
    BY <1>5, <1>6, <1>7, <1>8, <1>9, MildKeeps

\* enforce_destroy: the listed chunk files are shredded.
LEMMA DestroyFilesKeeps ==
    ASSUME CaptureAssumption, CaptureInv, NEW s \in Session, DestroyFiles(s)
    PROVE  CaptureInv'
  <1>1. /\ TypeOK /\ disk[s] \in Files /\ index[s] \in IndexRow /\ past \in Past
        /\ disk \in [Session -> Files] /\ index \in [Session -> IndexRow]
        /\ index[s].path \in BOOLEAN
    BY DEF CaptureInv, TypeOK, IndexRow
  <1>2. UNCHANGED <<run, rec, text, tomb, active, detached, op, col, accepted>>
    BY DEF DestroyFiles, memVars
  <1>3. /\ past'.created = past.created /\ past'.started = past.started
        /\ past'.erased = past.erased \cup {s} /\ past'.retained = past.retained
        /\ past'.outlived = past.outlived /\ past' \in Past
    BY <1>1 DEF DestroyFiles, Remember, Past
  <1>4. UNCHANGED <<disk, index>> \/ Shredded(s) \/ PartlyShredded(s)
    BY DEF DestroyFiles
  <1>5. /\ disk' = disk \/ disk' = [disk EXCEPT ![s] = disk'[s]]
        /\ index' = index \/ index' = [index EXCEPT ![s] = index'[s]]
        /\ disk'[s] \in Files /\ index'[s] \in IndexRow
        /\ disk'[s].journal = disk[s].journal /\ disk'[s].key = disk[s].key
        /\ disk[s].chunks = NoFile => disk'[s].chunks = NoFile
        /\ index[s] = NoIndex => index'[s] = NoIndex
    <2>1. CASE UNCHANGED <<disk, index>>
      BY <1>1, <2>1
    <2>2. CASE Shredded(s) \/ PartlyShredded(s)
      <3>1. index[s] = NoIndex => index' = index
        BY <2>2 DEF Shredded, PartlyShredded, NoIndex
      <3> QED
        BY <1>1, <2>2, <3>1, ShredWrites DEF DiskIs, IndexIs
    <2> QED
      BY <1>4, <2>1, <2>2
  <1>6. disk[s] = NoFiles => disk'[s] = NoFiles
    <2>1. disk[s] = NoFiles => disk[s].journal = NoFile /\ disk[s].chunks = NoFile /\ disk[s].key = FALSE
      BY DEF NoFiles
    <2> QED
      BY <1>5, <2>1, NoFilesIs
  <1>7. Mild(s)
    BY <1>2, <1>3, <1>5, <1>6 DEF Mild, Kept
  <1>8. \A t \in Session \ {s} : Spares(t)
    BY <1>1, <1>2, <1>3, <1>5 DEF Spares
  <1>9. ui' = ui \/ (ui'.s = s /\ ui' \in [s : Session \cup {NoSession}, key : BOOLEAN, final : BOOLEAN])
    <2> DEFINE final == run[s].state \in Terminal /\ \A th \in Thread : ~WorksOn(th, s)
    <2>1. ui' = ui \/ ui' = [s |-> s, key |-> index[s].path, final |-> final]
      BY DEF DestroyFiles
    <2>2. final \in BOOLEAN
      OBVIOUS
    <2> HIDE DEF final
    <2> QED
      BY <1>1, <2>1, <2>2
  <1>10. budget' \in [fault : 0..MaxFault, crash : 0..MaxCrash]
    BY <1>1, BudgetFits DEF DestroyFiles
  <1>11. TypeOK'
    BY <1>1, <1>2, <1>3, <1>5, <1>9, <1>10 DEF TypeOK, At
  <1>12. (s \notin past.outlived => Watched(s))'
    BY <1>2, <1>3 DEF CaptureInv, SessionOK, Watched, Sub, At, Present
  <1>13. DestroyHolds'
    BY <1>3, <1>9 DEF CaptureInv, DestroyHolds
  <1> QED
    BY <1>7, <1>8, <1>11, <1>12, <1>13, MildKeeps

\* enforce_destroy, its second half: the key and the indexed path go.
LEMMA DestroyKeyKeeps ==
    ASSUME CaptureAssumption, CaptureInv, DestroyKey
    PROVE  CaptureInv'
  <1>1. PICK s \in Session : s = ui.s
    BY DEF DestroyKey, CaptureInv, TypeOK
  <1>2. /\ TypeOK /\ disk[s] \in Files /\ index[s] \in IndexRow /\ past \in Past
        /\ disk \in [Session -> Files] /\ index \in [Session -> IndexRow]
        /\ ui.key \in BOOLEAN /\ s \in past.erased
    BY <1>1 DEF CaptureInv, TypeOK, DestroyHolds, CaptureAssumption
  <1>3. UNCHANGED <<run, rec, text, tomb, active, detached, op, col, accepted>> /\ ui' = NoDestroy
    BY DEF DestroyKey, memVars
  <1>4. /\ past'.created = past.created /\ past'.started = past.started
        /\ past'.erased = past.erased /\ past'.retained = past.retained
        /\ past'.outlived = past.outlived /\ past' \in Past
    BY <1>1, <1>2 DEF DestroyKey, Past
  <1>5. disk' = disk \/ disk' = [disk EXCEPT ![s].key = @ /\ ~ui.key]
    BY <1>1 DEF DestroyKey
  <1>6. index' = index \/ index' = [index EXCEPT ![s].path = FALSE]
    BY <1>1 DEF DestroyKey
  <1>7. /\ disk' = disk \/ disk' = [disk EXCEPT ![s] = disk'[s]]
        /\ disk'[s] \in Files /\ disk'[s].journal = disk[s].journal
        /\ disk[s] = NoFiles => disk'[s] = NoFiles
    <2>1. CASE disk' = disk
      BY <1>2, <2>1
    <2>2. CASE disk' = [disk EXCEPT ![s].key = @ /\ ~ui.key]
      <3>1. disk' = [disk EXCEPT ![s] = disk'[s]] /\ disk'[s] = [disk[s] EXCEPT !.key = disk[s].key /\ ~ui.key]
        BY <1>2, <2>2
      <3>2. (disk[s].key /\ ~ui.key) \in BOOLEAN
        OBVIOUS
      <3>3. disk'[s] \in Files /\ disk'[s].journal = disk[s].journal
        BY <1>2, <3>1, <3>2 DEF Files
      <3>5. disk'[s].chunks = disk[s].chunks /\ (~disk[s].key => ~disk'[s].key)
        BY <1>2, <3>1 DEF Files
      <3>4. disk[s] = NoFiles => disk'[s] = NoFiles
        <4>1. disk[s] = NoFiles => disk[s].journal = NoFile /\ disk[s].chunks = NoFile /\ disk[s].key = FALSE
          BY DEF NoFiles
        <4>2. disk'[s].key \in BOOLEAN
          BY <3>3 DEF Files
        <4> QED
          BY <3>3, <3>5, <4>1, <4>2, NoFilesIs
      <3> QED
        BY <3>1, <3>3, <3>4
    <2> QED
      BY <1>5, <2>1, <2>2
  <1>8. /\ index' = index \/ index' = [index EXCEPT ![s] = index'[s]]
        /\ index'[s] \in IndexRow /\ (index[s] = NoIndex => index'[s] = NoIndex)
    <2>1. CASE index' = index
      BY <1>2, <2>1
    <2>2. CASE index' = [index EXCEPT ![s].path = FALSE]
      <3>1. index' = [index EXCEPT ![s] = index'[s]] /\ index'[s] = [index[s] EXCEPT !.path = FALSE]
        BY <1>2, <2>2
      <3>2. index'[s] \in IndexRow
        BY <1>2, <3>1 DEF IndexRow
      <3>3. index[s] = NoIndex => index'[s] = NoIndex
        <4>1. index[s] = NoIndex => index'[s].path = FALSE /\ index'[s].ledger = "none"
          BY <1>2, <3>1 DEF NoIndex, IndexRow
        <4> QED
          BY <3>2, <4>1, NoIndexIs
      <3> QED
        BY <3>1, <3>2, <3>3
    <2> QED
      BY <1>6, <2>1, <2>2
  <1>9. Mild(s)
    BY <1>2, <1>3, <1>4, <1>7, <1>8 DEF Mild, Kept
  <1>10. \A t \in Session \ {s} : Spares(t)
    BY <1>2, <1>3, <1>4, <1>7, <1>8 DEF Spares
  <1>11. budget' \in [fault : 0..MaxFault, crash : 0..MaxCrash]
    BY <1>2, BudgetFits DEF DestroyKey
  <1>12. ui' \in [s : Session \cup {NoSession}, key : BOOLEAN, final : BOOLEAN] /\ ui'.s = NoSession
    BY <1>3 DEF NoDestroy
  <1>13. TypeOK'
    BY <1>2, <1>3, <1>4, <1>7, <1>8, <1>11, <1>12 DEF TypeOK, At
  <1>14. (s \notin past.outlived => Watched(s))'
    BY <1>3, <1>4 DEF CaptureInv, SessionOK, Watched, Sub, At, Present
  <1>15. DestroyHolds'
    BY <1>12 DEF DestroyHolds
  <1> QED
    BY <1>9, <1>10, <1>13, <1>14, <1>15, MildKeeps

-----------------------------------------------------------------------------
(* Process death, startup, and the first state. *)

\* A dead process knows nothing.
LEMMA DownKnows ==
    ASSUME NEW th \in Thread, op'[th] = Down
    PROVE  Knows(op[th])'
  BY DEF Knows, KindFits, StartKnows, PurgeKnows, EndKnows, AudioKnows, Idle, Down, Starting,
     Purging,
         Ending, Saving, Indexed, Retaining

\* The process dies: the stores and the files stay as they are.
LEMMA CrashKeeps ==
    ASSUME CaptureAssumption, CaptureInv, Crash
    PROVE  CaptureInv'
  <1>1. TypeOK /\ UNCHANGED <<run, rec, index, text, tomb, disk, accepted, past>>
    BY DEF CaptureInv, Crash, dbVars
  <1>2. Down \in Op /\ Idle \in Op /\ Down.pc = "down" /\ Idle.pc = "idle" /\ Idle.s = NoSession
    BY BlankFits DEF Down, Idle, Op, Step
  <1>3. /\ op' \in [Thread -> Op] /\ op'["gate"] = Down /\ op'["mic"] = Idle
        /\ "gate" \in Thread /\ "mic" \in Thread
    BY <1>2 DEF Crash, Thread
  <1>4. NoOwner \in Owner /\ active' = NoOwner
    BY DEF Crash, NoOwner, Owner, Remote, CaptureAssumption
  <1>5. budget' \in [fault : 0..MaxFault, crash : 0..MaxCrash]
    BY <1>1 DEF Crash, TypeOK, CaptureAssumption
  <1>6. TypeOK'
    <2>1. (\A th \in Thread : At(th, "idle") => op[th] = Idle)'
      BY <1>2, <1>3 DEF At, Thread
    <2>2. ui' \in [s : Session \cup {NoSession}, key : BOOLEAN, final : BOOLEAN]
      BY DEF Crash, NoDestroy
    <2>3. col' \in [Session -> {"none", "running", "late"}] /\ detached' \subseteq Session
      BY DEF Crash
    <2> QED
      BY <1>1, <1>3, <1>4, <1>5, <2>1, <2>2, <2>3 DEF TypeOK
  <1>7. OneAtWork'
    BY <1>2, <1>3, <1>4 DEF OneAtWork, At, MicStep
  <1>8. (OwnerHolds /\ DestroyHolds)'
    BY <1>4 DEF OwnerHolds, DestroyHolds, NoOwner, NoDestroy, Crash
  <1>9. (\A th \in Thread : Knows(op[th]))'
    <2>1. Knows(op["gate"])' /\ Knows(op["mic"])'
      BY <1>3, DownKnows, IdleKnows
    <2> QED
      BY <2>1 DEF Thread
  <1>10. ASSUME NEW s \in Session
         PROVE  SessionOK(s)'
    <2>1. Stored(s)'
      BY <1>1 DEF CaptureInv, SessionOK, Stored, Survives, Backed, Final, Dated, Buried, Kept,
         Present
    <2>2. Owned(s)'
      BY <1>2, <1>3 DEF Owned, At
    <2>3. (s \notin past.outlived => Watched(s))'
      BY <1>1 DEF CaptureInv, SessionOK, Watched, Crash, Present
    <2> QED
      BY <2>1, <2>2, <2>3 DEF SessionOK, Stored
  <1> QED
    BY <1>6, <1>7, <1>8, <1>9, <1>10 DEF CaptureInv

\* Startup: stale recordings fail, unfinished runs are interrupted.
LEMMA StartupKeeps ==
    ASSUME CaptureAssumption, CaptureInv, Startup
    PROVE  CaptureInv'
  <1> DEFINE todo == {s \in Session : run'[s].state = "interrupted"}
             n == [Idle EXCEPT !.pc = "pick", !.kind = "startup", !.todo = todo]
  <1>1. /\ TypeOK /\ UNCHANGED <<index, text, tomb, active, detached, disk, ui, col, accepted, past>>
        /\ op["gate"].pc = "down" /\ "gate" \in Thread /\ "mic" \in Thread
        /\ op \in [Thread -> Op]
    BY DEF CaptureInv, Startup, memVars, At, TypeOK, Thread
  <1>2. active = NoOwner /\ op["mic"] = Idle
    <2>1. OneAtWork /\ KindFits(op["gate"])
      BY <1>1 DEF CaptureInv, Knows
    <2> QED
      BY <1>1, <2>1 DEF OneAtWork, KindFits, At, Purging, TypeOK
  <1>3. todo \in SUBSET Session
    OBVIOUS
  <1>4. op' = [op EXCEPT !["gate"] = n]
    BY DEF Startup, Become
  <1>5. /\ n \in Op /\ n.pc = "pick" /\ n.kind = "startup" /\ n.s = NoSession /\ n.todo = todo
    <2>1. "pick" \in Step /\ "startup" \in Kind
      BY DEF Step, Kind
    <2>2. n \in Op
      BY <1>3, <2>1, FreshFits
    <2> QED
      BY <2>2, BlankFits DEF Idle, Op
  <1> HIDE DEF n, todo
  <1>6. op'["gate"] = n /\ op'["mic"] = op["mic"] /\ op' \in [Thread -> Op]
    BY <1>1, <1>4, <1>5
  <1>7. \A s \in Session :
           /\ run'[s] = DetachedRow(run[s]) /\ run'[s] \in RunRow
           /\ run'[s].state = IF run[s].state \in Unfinished THEN "interrupted" ELSE run[s].state
           /\ run'[s].path = run[s].path /\ run'[s].frames = run[s].frames
           /\ run'[s].health = IF run[s].state \in Unfinished THEN "off" ELSE run[s].health
    <2>1. TAKE s \in Session
    <2>2. run[s] \in RunRow /\ run'[s] = DetachedRow(run[s])
      BY <1>1 DEF TypeOK, Startup
    <2> QED
      BY <2>2 DEF DetachedRow, Interrupted, RunRow, Terminal, Health
  <1>8. \A s \in Session :
           /\ rec'[s] \in RecRow
           /\ rec'[s].status = rec[s].status \/ rec[s].status = "recording"
           /\ rec[s] = NoRec => rec'[s] = NoRec
    <2>1. TAKE s \in Session
    <2>2. rec[s] \in RecRow /\ rec'[s] \in {rec[s], StaleRow(rec[s])}
      BY <1>1 DEF TypeOK, Startup
    <2>3. rec'[s] \in RecRow /\ (rec'[s].status = rec[s].status \/ rec[s].status = "recording")
      BY <2>2 DEF StaleRow, RecRow
    <2>4. rec[s] = NoRec => rec'[s] = NoRec
      <3>1. rec[s] = NoRec => StaleRow(rec[s]) = rec[s]
        <4>1. rec[s] = NoRec => rec[s].status # "recording"
          BY DEF NoRec
        <4> QED
          BY <4>1 DEF StaleRow
      <3> QED
        BY <2>2, <3>1
    <2> QED
      BY <2>3, <2>4
  <1>9. run' \in [Session -> RunRow] /\ rec' \in [Session -> RecRow]
    BY <1>1, <1>7, <1>8 DEF Startup, TypeOK
  <1>10. budget' \in [fault : 0..MaxFault, crash : 0..MaxCrash]
    BY <1>1, BudgetFits DEF Startup
  <1>11. TypeOK'
    <2>1. (\A th \in Thread : At(th, "idle") => op[th] = Idle)'
      BY <1>2, <1>5, <1>6 DEF At, Thread
    <2> QED
      BY <1>1, <1>6, <1>9, <1>10, <2>1 DEF TypeOK
  <1>12. OneAtWork'
    BY <1>1, <1>2, <1>5, <1>6 DEF OneAtWork, At, Idle, MicStep
  <1>13. (OwnerHolds /\ DestroyHolds)'
    BY <1>1, <1>2 DEF CaptureInv, OwnerHolds, DestroyHolds, NoOwner
  <1>14. (\A th \in Thread : Knows(op[th]))'
    <2>1. Knows(op["mic"])'
      BY <1>1, <1>2, <1>6, IdleKnows
    <2>2. \A s \in n.todo : run'[s].state = "interrupted"
      BY <1>5 DEF todo
    <2>3. Knows(op["gate"])'
      BY <1>5, <1>6, <2>2 DEF Knows, KindFits, StartKnows, PurgeKnows, EndKnows, AudioKnows,
         Starting,
         Purging, Ending, Saving, Indexed, Retaining
    <2> QED
      BY <2>1, <2>3 DEF Thread
  <1>15. ASSUME NEW s \in Session
         PROVE  SessionOK(s)'
    <2>1. /\ run'[s].state = IF run[s].state \in Unfinished THEN "interrupted" ELSE run[s].state
          /\ run'[s].path = run[s].path /\ run'[s].frames = run[s].frames
          /\ run'[s].health = IF run[s].state \in Unfinished THEN "off" ELSE run[s].health
          /\ rec'[s].status = rec[s].status \/ rec[s].status = "recording"
          /\ rec[s] = NoRec => rec'[s] = NoRec
      BY <1>7, <1>8
    <2>2. SessionOK(s)
      BY DEF CaptureInv
    <2>3. Survives(s)'
      BY <1>1, <2>1, <2>2 DEF SessionOK, Survives, Kept, Unfinished
    <2>4. (Backed(s) /\ Final(s) /\ Dated(s) /\ Buried(s))'
      BY <1>1, <2>1, <2>2 DEF SessionOK, Backed, Final, Dated, Buried, Kept, Present, Unfinished
    <2>5. Owned(s)'
      BY <2>1 DEF Owned, Unfinished
    <2>6. (s \notin past.outlived => Watched(s))'
      <3>1. \A th \in Thread : ~At(th, "shut")
        BY <1>1, <1>2 DEF At, Thread, Idle
      <3> QED
        BY <1>1, <1>2, <2>1, <2>2, <3>1 DEF SessionOK, Watched, NoOwner, Unfinished, Terminal,
           Present,
           CaptureAssumption
    <2> QED
      BY <2>3, <2>4, <2>5, <2>6 DEF SessionOK
  <1> QED
    BY <1>11, <1>12, <1>13, <1>14, <1>15 DEF CaptureInv

\* The invariant holds before the first capture.
LEMMA CaptureInit ==
    ASSUME CaptureAssumption, Init
    PROVE  CaptureInv
  <1>1. /\ Idle \in Op /\ Idle.pc = "idle" /\ NoRun \in RunRow /\ NoRec \in RecRow
        /\ NoIndex \in IndexRow /\ NoFiles \in Files
    BY BlankFits
  <1>2. NoOwner \in Owner /\ active = NoOwner
    BY DEF Init, NoOwner, Owner, Remote, CaptureAssumption
  <1>3. \A th \in Thread : op[th] = Idle
    BY DEF Init
  <1>4. TypeOK
    <2>1. /\ run \in [Session -> RunRow] /\ rec \in [Session -> RecRow]
          /\ index \in [Session -> IndexRow] /\ disk \in [Session -> Files]
          /\ text \in [Session -> SUBSET {"facts", "gap"}] /\ tomb \subseteq Session
      BY <1>1 DEF Init
    <2>2. /\ detached \subseteq Session /\ op \in [Thread -> Op]
          /\ col \in [Session -> {"none", "running", "late"}]
          /\ accepted \in [Session -> 0..MaxFrames]
      BY <1>1 DEF Init, CaptureAssumption
    <2>3. /\ ui \in [s : Session \cup {NoSession}, key : BOOLEAN, final : BOOLEAN]
          /\ past \in Past /\ budget \in [fault : 0..MaxFault, crash : 0..MaxCrash]
      BY DEF Init, NoDestroy, Past, CaptureAssumption
    <2> QED
      BY <1>2, <1>3, <2>1, <2>2, <2>3 DEF TypeOK
  <1>5. OneAtWork
    BY <1>3 DEF OneAtWork, At, Thread, Idle, MicStep
  <1>6. OwnerHolds /\ DestroyHolds
    BY <1>2 DEF OwnerHolds, DestroyHolds, NoOwner, NoDestroy, Init
  <1>7. \A th \in Thread : Knows(op[th])
    BY <1>3 DEF Knows, KindFits, StartKnows, PurgeKnows, EndKnows, AudioKnows, Idle, Starting,
       Purging,
       Ending, Saving, Indexed, Retaining
  <1>8. ASSUME NEW s \in Session
        PROVE  SessionOK(s)
    <2>1. /\ run[s].state = "absent" /\ rec[s] = NoRec /\ index[s] = NoIndex /\ disk[s] = NoFiles
          /\ col[s] = "none" /\ accepted[s] = 0 /\ tomb = {}
          /\ past.started = {} /\ past.retained = {}
      BY DEF Init, NoRun
    <2> QED
      BY <2>1 DEF SessionOK, Survives, Backed, Final, Dated, Buried, Owned, Watched, Kept,
         Present, Terminal
  <1> QED
    BY <1>4, <1>5, <1>6, <1>7, <1>8 DEF CaptureInv

\* start_capture stores the key of the session.
LEMMA StoreKeyKeeps ==
    ASSUME CaptureAssumption, CaptureInv, StoreKey
    PROVE  CaptureInv'
  <1>1. PICK s \in Session : s = Sub("gate")
    BY DEF CaptureInv, Knows, KindFits, Sub, At, Thread, StoreKey
  <1>2. op["gate"].pc = "key" /\ op["gate"].s = s /\ "gate" \in Thread
    BY <1>1 DEF Sub, At, Thread, StoreKey
  <1>3. /\ Typed("gate", s) /\ Stored(s) /\ Held("gate", s)
        /\ KindFits(op["gate"]) /\ StartKnows(op["gate"]) /\ PurgeKnows(op["gate"])
        /\ EndKnows(op["gate"]) /\ AudioKnows(op["gate"])
        /\ "gate" = "mic" => op["gate"].pc \in MicStep /\ op["gate"].kind \in {"interrupt", "teardown"}
    BY <1>1, <1>2, HereHolds DEF AtWork, Step
  <1>4. /\ UNCHANGED <<run, rec, index, text, tomb, active, detached, ui, col, accepted, past>>
        /\ DiskIs(s, disk[s].journal, disk[s].chunks, disk'[s].key)
        /\ disk'[s].key \in BOOLEAN
        /\ \/ /\ Walks("gate", "journal")
              /\ disk'[s].key
           \/ Walks("gate", "rollback")
    <2>1. PICK stored \in BOOLEAN :
              /\ disk' = [disk EXCEPT ![Sub("gate")].key = stored]
              /\ (stored /\ Goto("gate", "journal")) \/ Goto("gate", "rollback")
      BY DEF StoreKey
    <2>2. DiskIs(s, disk[s].journal, disk[s].chunks, disk'[s].key) /\ disk'[s].key = stored
      BY <1>1, <1>3, <2>1 DEF Typed, Files, DiskIs
    <2>3. CASE stored /\ Goto("gate", "journal")
      BY <1>1, <1>2, <1>3, <2>1, <2>2, <2>3, GotoWalks DEF Typed, Step, Goto, Become, StoreKey,
         dbVars, memVars
    <2>4. CASE Goto("gate", "rollback")
      BY <1>1, <1>2, <1>3, <2>1, <2>2, <2>4, GotoWalks DEF Typed, Step, Goto, Become, StoreKey,
         dbVars, memVars
    <2> QED
      BY <2>1, <2>3, <2>4
  <1>5. Writes(s)
    BY <1>1, <1>2, <1>3 DEF Typed, Past, Writes, At, Goto, Become, Sub, Fine, Fault, dbVars,
       memVars, StoreKey
  <1>6. Fits(s)
    BY <1>2, <1>3, <1>4 DEF Typed, Fits, DiskIs, RunRow, RecRow, IndexRow, Files, NoFile,
       Unfinished, Terminal, Health
  <1>7. Moves("gate") /\ GoesOn("gate")
    BY <1>2, <1>3, <1>4, BlankFits DEF Typed, Moves, GoesOn, Walks, OpIs, KindFits, At, Goto,
       Become, Sub, Fine, Fault, dbVars, memVars, StoreKey, Starting, Purging, Ending, Indexed,
       Saving, Retaining, MicStep
  <1>8. Knows(op["gate"])'
    BY <1>2, <1>3, <1>4 DEF Typed, Knows, Walks, OpIs, DiskIs, KindFits, StartKnows, Stored, Dated,
       Starting, PurgeKnows, Present, NoFiles, Purging, EndKnows, EndState, Unfinished, Ending,
       Saving, Indexed, Retaining, AudioKnows, Survives, Kept, NoFile, MicStep
  <1>9. Stored(s)'
    BY <1>2, <1>3, <1>4 DEF Typed, Stored, Walks, OpIs, DiskIs, KindFits, StartKnows, EndKnows,
       AudioKnows, EndState, Survives, Dated, Kept, Present, NoFile, Backed, PurgeKnows, Final,
       NoFiles, NoIndex, NoRec, Unfinished, Buried, Starting, Purging, Ending, Indexed, Saving,
       Retaining, MicStep
  <1>10. Held("gate", s)'
    BY <1>2, <1>3, <1>4 DEF Typed, Held, Handing, Sub, Walks, OpIs, DiskIs, KindFits, StartKnows,
       EndKnows, EndState, Stored, Dated, Present, Unfinished, Terminal, RunRow, Past, Starting,
       Purging, Ending, Indexed, Saving, Retaining, MicStep
  <1> QED
    BY <1>1, <1>2, <1>3, <1>4, <1>5, <1>6, <1>7, <1>8, <1>9, <1>10, WorkKeeps DEF AtWork, Step, Sub

\* start_capture opens the journal.
LEMMA OpenJournalKeeps ==
    ASSUME CaptureAssumption, CaptureInv, OpenJournal
    PROVE  CaptureInv'
  <1>1. PICK s \in Session : s = Sub("gate")
    BY DEF CaptureInv, Knows, KindFits, Sub, At, Thread, OpenJournal, JournalCreated
  <1>2. op["gate"].pc = "journal" /\ op["gate"].s = s /\ "gate" \in Thread
    BY <1>1 DEF Sub, At, Thread, OpenJournal, JournalCreated
  <1>3. /\ Typed("gate", s) /\ Stored(s) /\ Held("gate", s)
        /\ KindFits(op["gate"]) /\ StartKnows(op["gate"]) /\ PurgeKnows(op["gate"])
        /\ EndKnows(op["gate"]) /\ AudioKnows(op["gate"])
        /\ "gate" = "mic" => op["gate"].pc \in MicStep /\ op["gate"].kind \in {"interrupt", "teardown"}
    BY <1>1, <1>2, HereHolds DEF AtWork, Step
  <1>4. /\ UNCHANGED <<run, rec, index, text, tomb, active, detached, ui, col, accepted, past>>
        /\ \/ /\ Walks("gate", "attach")
              /\ DiskIs(s, 0, disk[s].chunks, disk[s].key)
           \/ Walks("gate", "rollback") /\ UNCHANGED disk
    <2>1. CASE Goto("gate", "attach") /\ JournalCreated(s)
      <3>1. Walks("gate", "attach")
        BY <1>1, <1>2, <1>3, <2>1, GotoWalks, FailedFailsOn DEF Typed, KindFits, Saving, Indexed,
           Step, Goto, Become, OpenJournal, JournalCreated
      <3>2. DiskIs(s, 0, disk[s].chunks, disk[s].key)
        BY <1>1, <1>2, <1>3, <2>1 DEF Typed, DiskIs, Files, NoFile, dbVars, memVars, OpenJournal,
           JournalCreated
      <3> QED
        BY <1>1, <1>2, <1>3, <2>1, <3>1, <3>2 DEF At, Goto, Become, Sub, Fine, Fault, dbVars,
           memVars, OpenJournal, JournalCreated
    <2>2. CASE Goto("gate", "rollback") /\ UNCHANGED disk
      BY <1>1, <1>2, <1>3, <2>2, GotoWalks, FailedFailsOn DEF Typed, KindFits, Saving, Indexed,
         DiskIs, Step, At, Goto, Become, Sub, Fine, Fault, dbVars, memVars, OpenJournal,
         JournalCreated
    <2> QED
      BY <1>1, <1>2, <2>1, <2>2 DEF At, Goto, Become, Sub, Fine, Fault, dbVars, memVars,
         OpenJournal, JournalCreated
  <1>5. Writes(s)
    BY <1>1, <1>2, <1>3 DEF Typed, Past, Writes, At, Goto, Become, Sub, Fine, Fault, dbVars,
       memVars, OpenJournal, JournalCreated
  <1>6. Fits(s)
    BY <1>2, <1>3, <1>4 DEF Typed, Fits, DiskIs, RunRow, RecRow, IndexRow, Files, NoFile,
       Unfinished, Terminal, Health
  <1>7. Moves("gate") /\ GoesOn("gate")
    BY <1>2, <1>3, <1>4, BlankFits DEF Typed, Moves, GoesOn, Walks, OpIs, KindFits, At, Goto,
       Become, Sub, Fine, Fault, dbVars, memVars, OpenJournal, JournalCreated, Starting, Purging,
       Ending, Indexed, Saving, Retaining, MicStep
  <1>8. Knows(op["gate"])'
    BY <1>2, <1>3, <1>4 DEF Typed, Knows, Walks, OpIs, DiskIs, KindFits, StartKnows, Stored, Dated,
       Starting, PurgeKnows, Present, NoFiles, Purging, EndKnows, EndState, Unfinished, Ending,
       Saving, Indexed, Retaining, AudioKnows, Survives, Kept, NoFile, MicStep
  <1>9. Stored(s)'
    BY <1>2, <1>3, <1>4 DEF Typed, Stored, Walks, OpIs, DiskIs, KindFits, StartKnows, EndKnows,
       AudioKnows, EndState, Survives, Dated, Kept, Present, NoFile, Backed, PurgeKnows, Final,
       NoFiles, NoIndex, NoRec, Unfinished, Buried, Starting, Purging, Ending, Indexed, Saving,
       Retaining, MicStep
  <1>10. Held("gate", s)'
    BY <1>2, <1>3, <1>4 DEF Typed, Held, Handing, Sub, Walks, OpIs, DiskIs, KindFits, StartKnows,
       EndKnows, EndState, Stored, Dated, Present, Unfinished, Terminal, RunRow, Past, Starting,
       Purging, Ending, Indexed, Saving, Retaining, MicStep
  <1> QED
    BY <1>1, <1>2, <1>3, <1>4, <1>5, <1>6, <1>7, <1>8, <1>9, <1>10, WorkKeeps DEF AtWork, Step, Sub

\* start_capture attaches the session, or undoes the start.
LEMMA AttachSessionKeeps ==
    ASSUME CaptureAssumption, CaptureInv, AttachSession
    PROVE  CaptureInv'
  <1>1. PICK s \in Session : s = Sub("gate")
    BY DEF CaptureInv, Knows, KindFits, Sub, At, Thread, AttachSession
  <1>2. op["gate"].pc = "attach" /\ op["gate"].s = s /\ "gate" \in Thread
    BY <1>1 DEF Sub, At, Thread, AttachSession
  <1>3. /\ Typed("gate", s) /\ Stored(s) /\ Held("gate", s)
        /\ KindFits(op["gate"]) /\ StartKnows(op["gate"]) /\ PurgeKnows(op["gate"])
        /\ EndKnows(op["gate"]) /\ AudioKnows(op["gate"])
        /\ "gate" = "mic" => op["gate"].pc \in MicStep /\ op["gate"].kind \in {"interrupt", "teardown"}
    BY <1>1, <1>2, HereHolds DEF AtWork, Step
  <1>4. /\ UNCHANGED <<run, rec, index, text, tomb, disk, active, detached, ui, col, accepted, past>>
        /\ \/ Walks("gate", "remote")
           \/ Walks("gate", "rollback")
    <2>1. CASE Goto("gate", "remote")
      BY <1>1, <1>2, <1>3, <2>1, GotoWalks, FailedFailsOn DEF Typed, KindFits, Saving, Indexed,
         Step, At, Goto, Become, Sub, Fine, Fault, dbVars, memVars, AttachSession
    <2>2. CASE Goto("gate", "rollback")
      BY <1>1, <1>2, <1>3, <2>2, GotoWalks, FailedFailsOn DEF Typed, KindFits, Saving, Indexed,
         Step, At, Goto, Become, Sub, Fine, Fault, dbVars, memVars, AttachSession
    <2> QED
      BY <1>1, <1>2, <2>1, <2>2 DEF At, Goto, Become, Sub, Fine, Fault, dbVars, memVars,
         AttachSession
  <1>5. Writes(s)
    BY <1>1, <1>2, <1>3 DEF Typed, Past, Writes, At, Goto, Become, Sub, Fine, Fault, dbVars,
       memVars, AttachSession
  <1>6. Fits(s)
    BY <1>2, <1>3, <1>4 DEF Typed, Fits, RunRow, RecRow, IndexRow, Files, NoFile, Unfinished,
       Terminal, Health
  <1>7. Moves("gate") /\ GoesOn("gate")
    BY <1>2, <1>3, <1>4, BlankFits DEF Typed, Moves, GoesOn, Walks, OpIs, KindFits, At, Goto,
       Become, Fine, Fault, dbVars, memVars, AttachSession, Starting, Purging, Ending, Indexed,
       Saving, Retaining, MicStep
  <1>8. Knows(op["gate"])'
    BY <1>2, <1>3, <1>4 DEF Typed, Knows, Walks, OpIs, KindFits, StartKnows, Stored, Dated,
       Starting, PurgeKnows, Present, NoFiles, Purging, EndKnows, EndState, Unfinished, Ending,
       Saving, Indexed, Retaining, AudioKnows, Survives, Kept, NoFile, MicStep
  <1>9. Stored(s)'
    BY <1>2, <1>3, <1>4 DEF Typed, Stored, Walks, OpIs, KindFits, StartKnows, EndKnows, AudioKnows,
       EndState, Survives, Dated, Kept, Present, NoFile, Backed, PurgeKnows, Final, NoFiles,
       NoIndex, NoRec, Unfinished, Buried, Starting, Purging, Ending, Indexed, Saving, Retaining,
       MicStep
  <1>10. Held("gate", s)'
    BY <1>2, <1>3, <1>4 DEF Typed, Held, Handing, Sub, Walks, OpIs, KindFits, StartKnows, EndKnows,
       EndState, Stored, Dated, Present, Unfinished, Terminal, RunRow, Past, Starting, Purging,
       Ending, Indexed, Saving, Retaining, MicStep
  <1> QED
    BY <1>1, <1>2, <1>3, <1>4, <1>5, <1>6, <1>7, <1>8, <1>9, <1>10, WorkKeeps DEF AtWork, Step, Sub

\* start_capture failed: its row is marked before the purge that undoes it.
LEMMA RollbackKeeps ==
    ASSUME CaptureAssumption, CaptureInv, Rollback
    PROVE  CaptureInv'
  <1>1. PICK s \in Session : s = Sub("gate")
    BY DEF CaptureInv, Knows, KindFits, Sub, At, Thread, Rollback
  <1>2. op["gate"].pc = "rollback" /\ op["gate"].s = s /\ "gate" \in Thread
    BY <1>1 DEF Sub, At, Thread, Rollback
  <1>3. /\ Typed("gate", s) /\ Stored(s) /\ Held("gate", s)
        /\ KindFits(op["gate"]) /\ StartKnows(op["gate"]) /\ PurgeKnows(op["gate"])
        /\ EndKnows(op["gate"]) /\ AudioKnows(op["gate"])
        /\ "gate" = "mic" => op["gate"].pc \in MicStep /\ op["gate"].kind \in {"interrupt", "teardown"}
    BY <1>1, <1>2, HereHolds DEF AtWork, Step
  <1>4. /\ UNCHANGED <<rec, index, text, tomb, disk, active, detached, ui, col, accepted>>
        /\ Walks("gate", "purge")
        /\ past'.created = past.created /\ past'.started = past.started
        /\ past'.erased = past.erased /\ past'.retained = past.retained
        /\ past'.outlived = past.outlived
        /\ \/ RunIs(s, "failed", "off", run[s].path, run[s].frames)
           \/ UNCHANGED run
    <2>1. CASE Row(s, [run[s] EXCEPT !.state = "failed", !.health = "off"])
      BY <1>1, <1>2, <1>3, <2>1, GotoWalks, FailedFailsOn DEF Typed, KindFits, Saving, Indexed,
         RunIs, RunRow, Unfinished, Terminal, Health, Step, At, Goto, Become, Row, Sub, Remember,
         Fine, Fault, memVars, Rollback, Past
    <2>2. CASE UNCHANGED run
      BY <1>1, <1>2, <1>3, <2>2, GotoWalks, FailedFailsOn DEF Typed, KindFits, Saving, Indexed,
         RunIs, Step, At, Goto, Become, Row, Sub, Remember, Fine, Fault, memVars, Rollback, Past
    <2> QED
      BY <1>1, <1>2, <2>1, <2>2 DEF At, Goto, Become, Row, Sub, Remember, Fine, Fault, memVars,
         Rollback
  <1>5. Writes(s)
    BY <1>1, <1>2, <1>3 DEF Typed, Past, Writes, At, Goto, Become, Row, Sub, Remember, Fine, Fault,
       memVars, Rollback
  <1>6. Fits(s)
    BY <1>2, <1>3, <1>4 DEF Typed, Fits, RunIs, RunRow, RecRow, IndexRow, Files, NoFile, Unfinished,
       Terminal, Health
  <1>7. Moves("gate") /\ GoesOn("gate")
    BY <1>2, <1>3, <1>4, BlankFits DEF Typed, Moves, GoesOn, Walks, OpIs, KindFits, At, Goto,
       Become, Row, Sub, Remember, Fine, Fault, memVars, Rollback, Starting, Purging, Ending,
       Indexed, Saving, Retaining, MicStep
  <1>8. Knows(op["gate"])'
    BY <1>2, <1>3, <1>4 DEF Typed, Knows, Walks, OpIs, RunIs, KindFits, StartKnows, Stored, Dated,
       Starting, PurgeKnows, Present, NoFiles, Purging, EndKnows, EndState, Unfinished, Ending,
       Saving, Indexed, Retaining, AudioKnows, Survives, Kept, NoFile, MicStep
  <1>9. Stored(s)'
    BY <1>2, <1>3, <1>4 DEF Typed, Stored, Walks, OpIs, RunIs, KindFits, StartKnows, EndKnows,
       AudioKnows, EndState, Survives, Dated, Kept, Present, NoFile, Backed, PurgeKnows, Final,
       NoFiles, NoIndex, NoRec, Unfinished, Buried, Starting, Purging, Ending, Indexed, Saving,
       Retaining, MicStep
  <1>10. Held("gate", s)'
    BY <1>2, <1>3, <1>4 DEF Typed, Held, Handing, Sub, Walks, OpIs, RunIs, KindFits, StartKnows,
       EndKnows, EndState, Stored, Dated, Present, Unfinished, Terminal, RunRow, Past, Starting,
       Purging, Ending, Indexed, Saving, Retaining, MicStep
  <1> QED
    BY <1>1, <1>2, <1>3, <1>4, <1>5, <1>6, <1>7, <1>8, <1>9, <1>10, WorkKeeps DEF AtWork, Step, Sub

\* A purge writes its tombstone first.
LEMMA BeginPurgeKeeps ==
    ASSUME CaptureAssumption, CaptureInv, BeginPurge
    PROVE  CaptureInv'
  <1>1. PICK s \in Session : s = Sub("gate")
    BY DEF CaptureInv, Knows, KindFits, Sub, At, Thread, BeginPurge, MayPurge
  <1>2. op["gate"].pc = "purge" /\ op["gate"].s = s /\ "gate" \in Thread
    BY <1>1 DEF Sub, At, Thread, BeginPurge, MayPurge
  <1>3. /\ Typed("gate", s) /\ Stored(s) /\ Held("gate", s)
        /\ KindFits(op["gate"]) /\ StartKnows(op["gate"]) /\ PurgeKnows(op["gate"])
        /\ EndKnows(op["gate"]) /\ AudioKnows(op["gate"])
        /\ "gate" = "mic" => op["gate"].pc \in MicStep /\ op["gate"].kind \in {"interrupt", "teardown"}
    BY <1>1, <1>2, HereHolds DEF AtWork, Step
  <1>4. /\ UNCHANGED <<run, rec, index, text, disk, active, detached, ui, col, accepted>>
        /\ \/ /\ s \in tomb \/ run[s].state \notin Unfinished
              /\ tomb' = tomb \cup {s}
              /\ past'.created = past.created /\ past'.started = past.started
              /\ past'.erased = past.erased \cup {s} /\ past'.retained = past.retained
              /\ past'.outlived = past.outlived
              /\ Walks("gate", "purge_files")
           \/ Rests("gate") /\ UNCHANGED <<tomb, past>>
    <2>1. CASE Goto("gate", "purge_files") /\ MayPurge(s) /\ tomb' = tomb \cup {s}
               /\ Remember("erased", s)
      BY <1>1, <1>2, <1>3, <2>1, GotoWalks, FailedFailsOn DEF Typed, KindFits, Saving, Indexed,
         Rests, Step, Idle, At, Goto, Become, Sub, Remember, Fine, Fault, Errs, memVars, BeginPurge,
         MayPurge, Past
    <2>2. CASE Become("gate", Idle) /\ UNCHANGED <<tomb, past>>
      BY <1>1, <1>2, <1>3, <2>2, GotoWalks, FailedFailsOn DEF Typed, KindFits, Saving, Indexed,
         Rests, Step, Idle, At, Goto, Become, Sub, Remember, Fine, Fault, Errs, memVars, BeginPurge,
         MayPurge
    <2> QED
      BY <1>1, <1>2, <2>1, <2>2 DEF At, Goto, Become, Sub, Remember, Fine, Fault, Errs, memVars,
         BeginPurge, MayPurge
  <1>5. Writes(s)
    BY <1>1, <1>2, <1>3 DEF Typed, Past, Writes, At, Goto, Become, Sub, Remember, Fine, Fault, Errs,
       memVars, BeginPurge, MayPurge
  <1>6. Fits(s)
    BY <1>2, <1>3, <1>4 DEF Typed, Fits, RunRow, RecRow, IndexRow, Files, NoFile, Unfinished,
       Terminal, Health
  <1>7. Moves("gate") /\ GoesOn("gate")
    BY <1>2, <1>3, <1>4, BlankFits DEF Typed, Moves, GoesOn, Walks, OpIs, Rests, KindFits, At, Goto,
       Become, Sub, Remember, Fine, Fault, Errs, memVars, BeginPurge, MayPurge, Starting, Purging,
       Ending, Indexed, Saving, Retaining, MicStep
  <1>8. Knows(op["gate"])'
    BY <1>2, <1>3, <1>4 DEF Typed, Knows, Walks, OpIs, Rests, Idle, KindFits, StartKnows, Stored,
       Dated, Starting, PurgeKnows, Present, NoFiles, Purging, EndKnows, EndState, Unfinished,
       Ending, Saving, Indexed, Retaining, AudioKnows, Survives, Kept, NoFile, MicStep
  <1>9. Stored(s)'
    BY <1>2, <1>3, <1>4 DEF Typed, Stored, Walks, OpIs, Rests, Idle, KindFits, StartKnows, EndKnows,
       AudioKnows, EndState, Survives, Dated, Kept, Present, NoFile, Backed, PurgeKnows, Final,
       NoFiles, NoIndex, NoRec, Unfinished, Buried, Starting, Purging, Ending, Indexed, Saving,
       Retaining, MicStep
  <1>10. Held("gate", s)'
    BY <1>2, <1>3, <1>4 DEF Typed, Held, Handing, Sub, Walks, OpIs, Rests, Idle, KindFits,
       StartKnows, EndKnows, EndState, Stored, Dated, Present, Unfinished, Terminal, RunRow, Past,
       Starting, Purging, Ending, Indexed, Saving, Retaining, MicStep
  <1> QED
    BY <1>1, <1>2, <1>3, <1>4, <1>5, <1>6, <1>7, <1>8, <1>9, <1>10, WorkKeeps DEF AtWork, Step, Sub

\* A purge removes the journal, the chunks and the key.
LEMMA PurgeFilesKeeps ==
    ASSUME CaptureAssumption, CaptureInv, PurgeFiles
    PROVE  CaptureInv'
  <1>1. PICK s \in Session : s = Sub("gate")
    BY DEF CaptureInv, Knows, KindFits, Sub, At, Thread, PurgeFiles, PurgeEnds
  <1>2. op["gate"].pc = "purge_files" /\ op["gate"].s = s /\ "gate" \in Thread
    BY <1>1 DEF Sub, At, Thread, PurgeFiles, PurgeEnds
  <1>3. /\ Typed("gate", s) /\ Stored(s) /\ Held("gate", s)
        /\ KindFits(op["gate"]) /\ StartKnows(op["gate"]) /\ PurgeKnows(op["gate"])
        /\ EndKnows(op["gate"]) /\ AudioKnows(op["gate"])
        /\ "gate" = "mic" => op["gate"].pc \in MicStep /\ op["gate"].kind \in {"interrupt", "teardown"}
    BY <1>1, <1>2, HereHolds DEF AtWork, Step
  <1>4. /\ UNCHANGED <<run, rec, index, text, tomb, active, detached, ui, col, accepted, past>>
        /\ \/ /\ Walks("gate", "purge_rows")
              /\ disk'[s] = NoFiles
           \/ /\ Rests("gate") \/ (op["gate"].kind = "startup" /\ Walks("gate", "purges"))
              /\ disk'[s].key = disk[s].key /\ disk'[s] \in Files
    <2>1. CASE Goto("gate", "purge_rows") /\ disk' = [disk EXCEPT ![s] = NoFiles]
      BY <1>1, <1>2, <1>3, <2>1, GotoWalks DEF Typed, Step, Goto, Become, PurgeFiles, dbVars,
         memVars
    <2>2. CASE /\ PurgeEnds
               /\ \E j \in {disk[s].journal, NoFile}, c \in {disk[s].chunks, NoFile} :
                     disk' = [disk EXCEPT ![s].journal = j, ![s].chunks = c]
      <3>1. PICK j \in {disk[s].journal, NoFile}, c \in {disk[s].chunks, NoFile} :
                disk' = [disk EXCEPT ![s].journal = j, ![s].chunks = c]
        BY <2>2
      <3>2. disk'[s] = [disk[s] EXCEPT !.journal = j, !.chunks = c]
        BY <3>1, <1>3 DEF Typed
      <3>6. j \in NoFile..MaxFrames /\ c \in NoFile..MaxFrames
        BY <3>1, <1>3 DEF Typed, NoFile
      <3>3. disk'[s].key = disk[s].key /\ disk'[s] \in Files
        BY <3>2, <3>6, <1>3 DEF Typed, Files
      <3>4. Rests("gate") \/ (op["gate"].kind = "startup" /\ Walks("gate", "purges"))
        BY <1>2, <1>3, <2>2, GotoWalks DEF Typed, Rests, Step, PurgeEnds, Goto, Become
      <3> QED
        BY <1>1, <3>3, <3>4 DEF PurgeFiles, dbVars, memVars
    <2> QED
      BY <1>1, <2>1, <2>2 DEF PurgeFiles
  <1>5. Writes(s)
    BY <1>1, <1>2, <1>3 DEF Typed, Past, Writes, At, Goto, Become, Sub, Fine, Fault, dbVars,
       memVars, PurgeFiles, PurgeEnds
  <1>6. Fits(s)
    <2>1. run'[s] \in RunRow
      BY <1>2, <1>3, <1>4, BlankFits DEF Typed, RunRow, NoRun, Unfinished, Terminal, Health
    <2>2. disk'[s] \in Files
      BY <1>2, <1>3, <1>4, BlankFits DEF Typed, Files, NoFile, NoFiles
    <2>3. rec'[s] \in RecRow /\ index'[s] \in IndexRow
      BY <1>2, <1>3, <1>4, BlankFits DEF Typed, RecRow, NoRec, IndexRow, NoIndex
    <2>4. /\ text'[s] \subseteq {"facts", "gap"}
          /\ col'[s] \in {"none", "running", "late"} /\ accepted'[s] \in 0..MaxFrames
      BY <1>2, <1>3, <1>4, BlankFits DEF Typed
    <2> QED
      BY <2>1, <2>2, <2>3, <2>4 DEF Fits
  <1>7. Moves("gate") /\ GoesOn("gate")
    BY <1>2, <1>3, <1>4, BlankFits DEF Typed, Moves, GoesOn, Walks, OpIs, Rests, KindFits, At, Goto,
       Become, Sub, Fine, Fault, dbVars, memVars, PurgeFiles, PurgeEnds, Starting, Purging, Ending,
       Indexed, Saving, Retaining, MicStep
  <1>8. Knows(op["gate"])'
    BY <1>2, <1>3, <1>4 DEF Typed, Knows, Walks, OpIs, Rests, Idle, KindFits, StartKnows, Stored,
       Dated, Starting, PurgeKnows, Present, NoFiles, Purging, EndKnows, EndState, Unfinished,
       Ending, Saving, Indexed, Retaining, AudioKnows, Survives, Kept, NoFile, MicStep
  <1>9. Stored(s)'
    BY <1>2, <1>3, <1>4 DEF Typed, Stored, Walks, OpIs, Rests, Idle, KindFits, StartKnows, EndKnows,
       AudioKnows, EndState, Survives, Dated, Kept, Present, NoFile, Backed, PurgeKnows, Final,
       NoFiles, NoIndex, NoRec, Unfinished, Buried, Starting, Purging, Ending, Indexed, Saving,
       Retaining, MicStep
  <1>10. Held("gate", s)'
    BY <1>2, <1>3, <1>4 DEF Typed, Held, Handing, Sub, Walks, OpIs, Rests, Idle, KindFits,
       StartKnows, EndKnows, EndState, Stored, Dated, Present, Unfinished, Terminal, RunRow, Past,
       Starting, Purging, Ending, Indexed, Saving, Retaining, MicStep
  <1> QED
    BY <1>1, <1>2, <1>3, <1>4, <1>5, <1>6, <1>7, <1>8, <1>9, <1>10, WorkKeeps DEF AtWork, Step, Sub

\* A purge deletes the rows once the files are gone.
LEMMA PurgeRowsKeeps ==
    ASSUME CaptureAssumption, CaptureInv, PurgeRows
    PROVE  CaptureInv'
  <1>1. PICK s \in Session : s = Sub("gate")
    BY DEF CaptureInv, Knows, KindFits, Sub, At, Thread, PurgeRows, PurgeEnds
  <1>2. op["gate"].pc = "purge_rows" /\ op["gate"].s = s /\ "gate" \in Thread
    BY <1>1 DEF Sub, At, Thread, PurgeRows, PurgeEnds
  <1>3. /\ Typed("gate", s) /\ Stored(s) /\ Held("gate", s)
        /\ KindFits(op["gate"]) /\ StartKnows(op["gate"]) /\ PurgeKnows(op["gate"])
        /\ EndKnows(op["gate"]) /\ AudioKnows(op["gate"])
        /\ "gate" = "mic" => op["gate"].pc \in MicStep /\ op["gate"].kind \in {"interrupt", "teardown"}
    BY <1>1, <1>2, HereHolds DEF AtWork, Step
  <1>4. /\ UNCHANGED <<tomb, disk, active, detached, ui, col, accepted, past>>
        /\ \/ /\ Walks("gate", "purge_close")
              /\ run'[s] = NoRun /\ rec'[s] = NoRec /\ index'[s] = NoIndex /\ text'[s] = {}
           \/ /\ Rests("gate") \/ (op["gate"].kind = "startup" /\ Walks("gate", "purges"))
              /\ UNCHANGED <<run, rec, index, text>>
    <2>1. CASE Goto("gate", "purge_close") /\ Row(s, NoRun) /\ rec' = [rec EXCEPT ![s] = NoRec]
               /\ index' = [index EXCEPT ![s] = NoIndex] /\ text' = [text EXCEPT ![s] = {}]
      BY <1>1, <1>2, <1>3, <2>1, GotoWalks, FailedFailsOn DEF Typed, KindFits, Saving, Indexed,
         Rests, Step, Idle, At, Goto, Become, Row, Sub, Fine, Fault, memVars, PurgeRows, PurgeEnds
    <2>2. CASE PurgeEnds /\ UNCHANGED <<run, rec, index, text>>
      BY <1>1, <1>2, <1>3, <2>2, GotoWalks, FailedFailsOn DEF Typed, KindFits, Saving, Indexed,
         Rests, Step, Idle, At, Goto, Become, Row, Sub, Fine, Fault, memVars, PurgeRows, PurgeEnds
    <2> QED
      BY <1>1, <1>2, <2>1, <2>2 DEF At, Goto, Become, Row, Sub, Fine, Fault, memVars, PurgeRows,
         PurgeEnds
  <1>5. Writes(s)
    BY <1>1, <1>2, <1>3 DEF Typed, Past, Writes, At, Goto, Become, Row, Sub, Fine, Fault, memVars,
       PurgeRows, PurgeEnds
  <1>6. Fits(s)
    <2>1. run'[s] \in RunRow
      BY <1>2, <1>3, <1>4, BlankFits DEF Typed, RunRow, NoRun, Unfinished, Terminal, Health
    <2>2. disk'[s] \in Files
      BY <1>2, <1>3, <1>4, BlankFits DEF Typed, Files, NoFile, NoFiles
    <2>3. rec'[s] \in RecRow /\ index'[s] \in IndexRow
      BY <1>2, <1>3, <1>4, BlankFits DEF Typed, RecRow, NoRec, IndexRow, NoIndex
    <2>4. /\ text'[s] \subseteq {"facts", "gap"}
          /\ col'[s] \in {"none", "running", "late"} /\ accepted'[s] \in 0..MaxFrames
      BY <1>2, <1>3, <1>4, BlankFits DEF Typed
    <2> QED
      BY <2>1, <2>2, <2>3, <2>4 DEF Fits
  <1>7. Moves("gate") /\ GoesOn("gate")
    BY <1>2, <1>3, <1>4, BlankFits DEF Typed, Moves, GoesOn, Walks, OpIs, Rests, KindFits, At, Goto,
       Become, Row, Sub, Fine, Fault, memVars, PurgeRows, PurgeEnds, Starting, Purging, Ending,
       Indexed, Saving, Retaining, MicStep
  <1>8. Knows(op["gate"])'
    <2>1. KindFits(op["gate"])'
      BY <1>2, <1>3, <1>4 DEF Typed, Walks, OpIs, Rests, Idle, KindFits, Starting, Purging, Ending,
         Indexed, Saving, Retaining, MicStep
    <2>2. StartKnows(op["gate"])'
      BY <1>2, <1>3, <1>4 DEF Typed, Walks, OpIs, Rests, Idle, KindFits, StartKnows, Stored, Dated,
         Starting
    <2>3. PurgeKnows(op["gate"])'
      <3>1. CASE Walks("gate", "purge_close")
        BY <1>2, <1>3, <1>4, <3>1 DEF PurgeKnows, Present, NoRun, Purging, Walks, OpIs, Rests, Idle
      <3>2. CASE ~Walks("gate", "purge_close")
        BY <1>2, <1>3, <1>4, <3>2 DEF PurgeKnows, Purging, Walks, OpIs, Rests, Idle
      <3> QED
        BY <3>1, <3>2
    <2>4. EndKnows(op["gate"])'
      BY <1>2, <1>3, <1>4 DEF Typed, Walks, OpIs, Rests, Idle, KindFits, EndKnows, EndState,
         Present, Unfinished, Purging, Ending, Saving, Indexed, Retaining
    <2>5. AudioKnows(op["gate"])'
      BY <1>2, <1>3, <1>4 DEF Typed, Walks, OpIs, Rests, Idle, KindFits, StartKnows, EndKnows,
         AudioKnows, EndState, Stored, Survives, Kept, NoFile, Ending, Saving, Indexed, Retaining,
         Starting
    <2> QED
      BY <2>1, <2>2, <2>3, <2>4, <2>5 DEF Knows
  <1>9. Stored(s)'
    BY <1>2, <1>3, <1>4 DEF Typed, Stored, Walks, OpIs, Rests, Idle, KindFits, StartKnows, EndKnows,
       AudioKnows, EndState, Survives, Dated, Kept, Present, NoFile, Backed, PurgeKnows, Final,
       NoRun, NoFiles, NoIndex, NoRec, Unfinished, Buried, Starting, Purging, Ending, Indexed,
       Saving, Retaining, MicStep
  <1>10. Held("gate", s)'
    <2>1. (s \in past.started /\ run[s].state \in Unfinished =>
            s \in detached \/ Handing("gate", s))'
      BY <1>2, <1>3, <1>4 DEF Typed, Held, Handing, Sub, Walks, OpIs, Rests, Idle, KindFits,
         StartKnows, EndKnows, EndState, Stored, Dated, Present, Unfinished, Terminal, NoRun,
         Starting, Purging, Ending, Indexed, Saving, Retaining, MicStep
    <2>2. (s \notin past.outlived)' => (col[s] # "none" => Sub("gate") = s /\ op["gate"].pc = "shut")'
      BY <1>2, <1>3, <1>4 DEF Typed, Held, Handing, Sub, Walks, OpIs, Rests, Idle
    <2>3. (s \notin past.outlived)' => (run[s].state \in Terminal => run[s].health = "off")'
      BY <1>2, <1>3, <1>4 DEF Typed, Held, Terminal, NoRun, KindFits, EndKnows, Starting, Purging,
         Ending, Indexed, Saving, Retaining, MicStep
    <2>4. (s \notin past.outlived)' => /\ (s \in past.retained => run[s].state \notin Unfinished)'
                               /\ (s \in past.retained => text[s] = {"facts"} \/ ~Present(s))'
      BY <1>2, <1>3, <1>4 DEF Typed, Held, NoRun, KindFits, StartKnows, EndKnows, EndState, Stored,
             Dated, Present, Unfinished, Terminal, Starting, Purging, Ending, Indexed, Saving,
             Retaining, MicStep
    <2> QED
      BY <2>1, <2>2, <2>3, <2>4 DEF Held
  <1> QED
    BY <1>1, <1>2, <1>3, <1>4, <1>5, <1>6, <1>7, <1>8, <1>9, <1>10, WorkKeeps DEF AtWork, Step, Sub

\* A purge ends by lifting its tombstone.
LEMMA PurgeCloseKeeps ==
    ASSUME CaptureAssumption, CaptureInv, PurgeClose
    PROVE  CaptureInv'
  <1>1. PICK s \in Session : s = Sub("gate")
    BY DEF CaptureInv, Knows, KindFits, Sub, At, Thread, PurgeClose, PurgeEnds
  <1>2. op["gate"].pc = "purge_close" /\ op["gate"].s = s /\ "gate" \in Thread
    BY <1>1 DEF Sub, At, Thread, PurgeClose, PurgeEnds
  <1>3. /\ Typed("gate", s) /\ Stored(s) /\ Held("gate", s)
        /\ KindFits(op["gate"]) /\ StartKnows(op["gate"]) /\ PurgeKnows(op["gate"])
        /\ EndKnows(op["gate"]) /\ AudioKnows(op["gate"])
        /\ "gate" = "mic" => op["gate"].pc \in MicStep /\ op["gate"].kind \in {"interrupt", "teardown"}
    BY <1>1, <1>2, HereHolds DEF AtWork, Step
  <1>4. /\ UNCHANGED <<run, rec, index, text, disk, active, detached, ui, col, accepted, past>>
        /\ tomb' \in {tomb, tomb \ {s}}
        /\ Rests("gate") \/ (op["gate"].kind = "startup" /\ Walks("gate", "purges"))
    BY <1>1, <1>2, <1>3, GotoWalks, FailedFailsOn DEF Typed, KindFits, Saving, Indexed, Rests, Step,
       Idle, At, Goto, Become, Sub, Fine, Fault, memVars, PurgeClose, PurgeEnds
  <1>5. Writes(s)
    BY <1>1, <1>2, <1>3 DEF Typed, Past, Writes, At, Goto, Become, Sub, Fine, Fault, memVars,
       PurgeClose, PurgeEnds
  <1>6. Fits(s)
    BY <1>2, <1>3, <1>4 DEF Typed, Fits, RunRow, RecRow, IndexRow, Files, NoFile, Unfinished,
       Terminal, Health
  <1>7. Moves("gate") /\ GoesOn("gate")
    BY <1>2, <1>3, <1>4, BlankFits DEF Typed, Moves, GoesOn, Walks, OpIs, Rests, KindFits, At, Goto,
       Become, Sub, Fine, Fault, memVars, PurgeClose, PurgeEnds, Starting, Purging, Ending, Indexed,
       Saving, Retaining, MicStep
  <1>8. Knows(op["gate"])'
    BY <1>2, <1>3, <1>4 DEF Typed, Knows, Walks, OpIs, Rests, Idle, KindFits, StartKnows, Stored,
       Dated, Starting, PurgeKnows, Present, NoFiles, Purging, EndKnows, EndState, Unfinished,
       Ending, Saving, Indexed, Retaining, AudioKnows, Survives, Kept, NoFile, MicStep
  <1>9. Stored(s)'
    BY <1>2, <1>3, <1>4 DEF Typed, Stored, Walks, OpIs, Rests, Idle, KindFits, StartKnows, EndKnows,
       AudioKnows, EndState, Survives, Dated, Kept, Present, NoFile, Backed, PurgeKnows, Final,
       NoFiles, NoIndex, NoRec, Unfinished, Buried, Starting, Purging, Ending, Indexed, Saving,
       Retaining, MicStep
  <1>10. Held("gate", s)'
    BY <1>2, <1>3, <1>4 DEF Typed, Held, Handing, Sub, Walks, OpIs, Rests, Idle, KindFits,
       StartKnows, EndKnows, EndState, Stored, Dated, Present, Unfinished, Terminal, RunRow, Past,
       Starting, Purging, Ending, Indexed, Saving, Retaining, MicStep
  <1> QED
    BY <1>1, <1>2, <1>3, <1>4, <1>5, <1>6, <1>7, <1>8, <1>9, <1>10, WorkKeeps DEF AtWork, Step, Sub

\* stop_capture applies the retention of the source audio.
LEMMA RetainFilesKeeps ==
    ASSUME CaptureAssumption, CaptureInv, RetainFiles
    PROVE  CaptureInv'
  <1>1. PICK s \in Session : s = Sub("gate")
    BY DEF CaptureInv, Knows, KindFits, Sub, At, Thread, RetainFiles, Retained
  <1>2. op["gate"].pc = "retain_files" /\ op["gate"].s = s /\ "gate" \in Thread
    BY <1>1 DEF Sub, At, Thread, RetainFiles, Retained
  <1>3. /\ Typed("gate", s) /\ Stored(s) /\ Held("gate", s)
        /\ KindFits(op["gate"]) /\ StartKnows(op["gate"]) /\ PurgeKnows(op["gate"])
        /\ EndKnows(op["gate"]) /\ AudioKnows(op["gate"])
        /\ "gate" = "mic" => op["gate"].pc \in MicStep /\ op["gate"].kind \in {"interrupt", "teardown"}
    BY <1>1, <1>2, HereHolds DEF AtWork, Step
  <1>4. /\ UNCHANGED <<run, rec, text, tomb, active, detached, ui, col, accepted>>
        /\ \/ Rests("gate") /\ UNCHANGED <<disk, index, past>>
           \/ /\ Walks("gate", "retain_key")
              /\ text[s] = {"facts"}
              /\ past'.created = past.created /\ past'.started = past.started
              /\ past'.erased = past.erased \cup {s} /\ past'.retained = past.retained \cup {s}
              /\ past'.outlived = past.outlived
              /\ disk'[s] \in Files /\ index'[s] \in IndexRow
           \/ /\ Rests("gate")
              /\ text[s] = {"facts"}
              /\ past'.created = past.created /\ past'.started = past.started
              /\ past'.erased = past.erased \cup {s} /\ past'.retained = past.retained \cup {s}
              /\ past'.outlived = past.outlived
              /\ disk'[s] \in Files /\ index'[s] \in IndexRow
    <2>1. CASE Become("gate", Idle) /\ UNCHANGED <<disk, index, past>>
      BY <1>1, <1>2, <1>3, <2>1, GotoWalks, FailedFailsOn DEF Typed, KindFits, Saving, Indexed,
         Rests, Step, Idle, At, Become, Sub, Fine, Fault, memVars, RetainFiles, Retained
    <2>2. CASE Shredded(s) /\ Retained(s) /\ RetentionApplies(s)
               /\ Become("gate", [op["gate"] EXCEPT !.pc = "retain_key", !.named = index[s].path])
      <3>1. Walks("gate", "retain_key")
        BY <1>1, <1>2, <1>3, <2>2, SetWalks DEF Typed, Become, Step
      <3>2. text[s] = {"facts"}
        BY <1>1, <1>2, <1>3, <2>2 DEF Typed, memVars, RetainFiles, Retained, RetentionApplies, Past
      <3>3. past'.created = past.created /\ past'.started = past.started
        BY <1>1, <1>2, <1>3, <2>2 DEF Typed, memVars, RetainFiles, Retained, RetentionApplies, Past
      <3>4. /\ past'.erased = past.erased \cup {s} /\ past'.retained = past.retained \cup {s}
            /\ past'.outlived = past.outlived
        BY <1>1, <1>2, <1>3, <2>2 DEF Typed, memVars, RetainFiles, Retained, RetentionApplies, Past
      <3>5. disk'[s] \in Files /\ index'[s] \in IndexRow
        BY <1>1, <1>2, <1>3, <2>2, ShredWrites DEF Typed, DiskIs, IndexIs
      <3> QED
        BY <1>1, <1>2, <1>3, <2>2, <3>1, <3>2, <3>3, <3>4, <3>5 DEF At, Become, Sub, Fine, Fault,
           memVars, RetainFiles, Retained
    <2>3. CASE PartlyShredded(s) /\ Retained(s) /\ RetentionApplies(s) /\ Become("gate", Idle)
      <3>1. Rests("gate")
        BY <1>1, <1>2, <1>3, <2>3, GotoWalks, FailedFailsOn DEF Typed, KindFits, Saving, Indexed,
           Rests, Step, Idle, Become, RetainFiles, Retained, RetentionApplies, Past
      <3>2. text[s] = {"facts"}
        BY <1>1, <1>2, <1>3, <2>3 DEF Typed, memVars, RetainFiles, Retained, RetentionApplies, Past
      <3>3. past'.created = past.created /\ past'.started = past.started
        BY <1>1, <1>2, <1>3, <2>3 DEF Typed, memVars, RetainFiles, Retained, RetentionApplies, Past
      <3>4. /\ past'.erased = past.erased \cup {s} /\ past'.retained = past.retained \cup {s}
            /\ past'.outlived = past.outlived
        BY <1>1, <1>2, <1>3, <2>3 DEF Typed, memVars, RetainFiles, Retained, RetentionApplies, Past
      <3>5. disk'[s] \in Files /\ index'[s] \in IndexRow
        BY <1>1, <1>2, <1>3, <2>3, ShredWrites DEF Typed, DiskIs, IndexIs
      <3> QED
        BY <1>1, <1>2, <1>3, <2>3, <3>1, <3>2, <3>3, <3>4, <3>5 DEF At, Become, Sub, Fine, Fault,
           memVars, RetainFiles, Retained
    <2> QED
      BY <1>1, <1>2, <2>1, <2>2, <2>3 DEF At, Become, Sub, Fine, Fault, memVars, RetainFiles,
         Retained
  <1>5. Writes(s)
    <2>1. run' = run \/ run' = [run EXCEPT ![s] = run'[s]]
      BY <1>1, <1>2, <1>3, <1>4 DEF Typed, At, Become, Sub, Fine, Fault, memVars, RetainFiles,
         Retained
    <2>2. rec' = rec \/ rec' = [rec EXCEPT ![s] = rec'[s]]
      BY <1>1, <1>2, <1>3, <1>4 DEF Typed, At, Become, Sub, Fine, Fault, memVars, RetainFiles,
         Retained
    <2>3. index' = index \/ index' = [index EXCEPT ![s] = index'[s]]
      BY <1>1, <1>2, <1>3, ShredWrites DEF Typed, RetainFiles, Sub
    <2>4. disk' = disk \/ disk' = [disk EXCEPT ![s] = disk'[s]]
      BY <1>1, <1>2, <1>3, ShredWrites DEF Typed, RetainFiles, Sub
    <2>5. text' = text \/ text' = [text EXCEPT ![s] = text'[s]]
      BY <1>1, <1>2, <1>3, <1>4 DEF Typed, At, Become, Sub, Fine, Fault, memVars, RetainFiles,
         Retained
    <2>6. /\ past' \in Past /\ past'.created \in {past.created, past.created \cup {s}}
          /\ past'.started \in {past.started, past.started \cup {s}}
          /\ past'.erased \in {past.erased, past.erased \cup {s}}
          /\ past'.retained \in {past.retained, past.retained \cup {s}}
          /\ past'.outlived \in {past.outlived, past.outlived \cup {s}}
      <3>1. CASE past' = past
        BY <1>3, <3>1 DEF Typed
      <3>2. CASE Retained(s)
        BY <1>1, <1>3, <3>2 DEF Typed, Past, Retained
      <3> QED
        BY <1>1, <3>1, <3>2 DEF RetainFiles, Sub
    <2> QED
      BY <1>1, <1>2, <2>1, <2>2, <2>3, <2>4, <2>5, <2>6 DEF Writes, At, Become, Sub, Fine, Fault,
         memVars, RetainFiles, Retained
  <1>6. Fits(s)
    BY <1>2, <1>3, <1>4 DEF Typed, Fits, RunRow, RecRow, IndexRow, Files, NoFile, Unfinished,
       Terminal, Health
  <1>7. Moves("gate") /\ GoesOn("gate")
    BY <1>2, <1>3, <1>4, BlankFits DEF Typed, Moves, GoesOn, Walks, OpIs, Rests, KindFits, At,
       Become, Sub, Fine, Fault, memVars, RetainFiles, Retained, Starting, Purging, Ending, Indexed,
       Saving, Retaining, MicStep
  <1>8. Knows(op["gate"])'
    <2>1. KindFits(op["gate"])'
      BY <1>2, <1>3, <1>4 DEF Typed, Walks, OpIs, Rests, Idle, KindFits, Starting, Purging, Ending,
         Indexed, Saving, Retaining, MicStep
    <2>2. StartKnows(op["gate"])'
      BY <1>2, <1>3, <1>4 DEF Typed, Walks, OpIs, Rests, Idle, KindFits, StartKnows, Stored, Dated,
         Starting
    <2>3. PurgeKnows(op["gate"])'
      BY <1>2, <1>3, <1>4 DEF Typed, Walks, OpIs, Rests, Idle, KindFits, StartKnows, PurgeKnows,
         Stored, Dated, Starting, Present, NoFiles, Purging
    <2>4. EndKnows(op["gate"])'
      BY <1>2, <1>3, <1>4 DEF Typed, Walks, OpIs, Rests, Idle, KindFits, EndKnows, EndState,
         Present, Unfinished, Purging, Ending, Saving, Indexed, Retaining
    <2>5. AudioKnows(op["gate"])'
      BY <1>2, <1>3, <1>4 DEF Typed, Walks, OpIs, Rests, Idle, KindFits, StartKnows, EndKnows,
         AudioKnows, EndState, Stored, Survives, Kept, NoFile, Ending, Saving, Indexed, Retaining,
         Starting
    <2> QED
      BY <2>1, <2>2, <2>3, <2>4, <2>5 DEF Knows
  <1>9. Stored(s)'
    <2>1. Survives(s)'
      BY <1>2, <1>3, <1>4 DEF Typed, Stored, Walks, OpIs, Rests, Idle, KindFits, StartKnows,
         EndKnows, AudioKnows, EndState, Survives, Dated, Kept, Present, NoFile, Starting, Purging,
         Ending, Indexed, Saving, Retaining, MicStep
    <2>2. Backed(s)'
      BY <1>2, <1>3, <1>4 DEF Typed, Stored, Walks, OpIs, Rests, Idle, KindFits, StartKnows,
         AudioKnows, Backed, Dated, Survives, Kept, NoFile, Starting, Purging, Ending, Indexed,
         Saving, Retaining, MicStep
    <2>3. Final(s)'
      BY <1>2, <1>3, <1>4 DEF Typed, Stored, Walks, OpIs, Rests, Idle, KindFits, StartKnows,
         PurgeKnows, EndKnows, EndState, Final, Dated, Present, NoFiles, NoIndex, NoRec, Unfinished,
         Starting, Purging, Ending, Indexed, Saving, Retaining, MicStep
    <2>4. Dated(s)'
      <3>1. Present(s)
        BY <1>2, <1>3 DEF EndKnows, EndState, Retaining, Present
      <3>2. s \in past.created
        BY <1>3, <3>1 DEF Stored, Dated
      <3>3. Dated(s) /\ text'[s] = text[s] /\ Present(s)' /\ accepted' = accepted
        BY <1>3, <1>4, <3>1 DEF Stored, Present
      <3>4. (s \in past.retained => "facts" \in text[s] \/ ~Present(s))'
        BY <1>4, <3>1, <3>3 DEF Dated
      <3>5. past'.started = past.started
        BY <1>4
      <3> QED
        BY <3>2, <3>3, <3>4, <3>5, <1>4 DEF Dated
    <2>5. Buried(s)'
      BY <1>2, <1>3, <1>4 DEF Typed, Stored, Walks, OpIs, Rests, Idle, KindFits, StartKnows,
         PurgeKnows, EndKnows, EndState, Buried, Unfinished, Starting, Purging, Ending, Indexed,
         Saving, Retaining, MicStep
    <2> QED
      BY <2>1, <2>2, <2>3, <2>4, <2>5 DEF Stored
  <1>10. Held("gate", s)'
    BY <1>2, <1>3, <1>4 DEF Typed, Held, Handing, Sub, Walks, OpIs, Rests, Idle, KindFits,
       StartKnows, EndKnows, EndState, Stored, Dated, Present, Unfinished, Terminal, RunRow, Past,
       Starting, Purging, Ending, Indexed, Saving, Retaining, MicStep
  <1> QED
    BY <1>1, <1>2, <1>3, <1>4, <1>5, <1>6, <1>7, <1>8, <1>9, <1>10, WorkKeeps DEF AtWork, Step, Sub

\* stop_capture destroys the key of audio it may not retain.
LEMMA RetainKeyKeeps ==
    ASSUME CaptureAssumption, CaptureInv, RetainKey
    PROVE  CaptureInv'
  <1>1. PICK s \in Session : s = Sub("gate")
    BY DEF CaptureInv, Knows, KindFits, Sub, At, Thread, RetainKey
  <1>2. op["gate"].pc = "retain_key" /\ op["gate"].s = s /\ "gate" \in Thread
    BY <1>1 DEF Sub, At, Thread, RetainKey
  <1>3. /\ Typed("gate", s) /\ Stored(s) /\ Held("gate", s)
        /\ KindFits(op["gate"]) /\ StartKnows(op["gate"]) /\ PurgeKnows(op["gate"])
        /\ EndKnows(op["gate"]) /\ AudioKnows(op["gate"])
        /\ "gate" = "mic" => op["gate"].pc \in MicStep /\ op["gate"].kind \in {"interrupt", "teardown"}
    BY <1>1, <1>2, HereHolds DEF AtWork, Step
  <1>4. /\ UNCHANGED <<rec, text, tomb, active, detached, ui, col, accepted, past>>
        /\ \/ /\ disk'[s] \in Files /\ index'[s] \in IndexRow
              /\ Rests("gate")
              /\ RunIs(s, run[s].state, run[s].health, run'[s].path, run[s].frames)
    <2>1. disk' = disk \/ \E k \in BOOLEAN : disk' = [disk EXCEPT ![s].key = k]
      BY <1>1, <1>2, <1>3 DEF RetainKey, Sub, Typed
    <2>2. index' = index \/ index' = [index EXCEPT ![s].path = FALSE]
      BY <1>1, <1>2, <1>3 DEF RetainKey, Sub
    <2>3. run' = run \/ run' = [run EXCEPT ![s] = [run[s] EXCEPT !.path = FALSE]]
      BY <1>1, <1>2, <1>3 DEF RetainKey, Sub, Row
    <2>4. disk'[s] \in Files
      BY <1>3, <2>1 DEF Typed, Files
    <2>5. index'[s] = index[s] \/ index'[s] = [index[s] EXCEPT !.path = FALSE]
      BY <1>3, <2>2 DEF Typed
    <2>6. index'[s] \in IndexRow
      BY <1>3, <2>5 DEF Typed, IndexRow
    <2>7. run'[s] = run[s] \/ run'[s] = [run[s] EXCEPT !.path = FALSE]
      BY <1>3, <2>3 DEF Typed
    <2>8. RunIs(s, run[s].state, run[s].health, run'[s].path, run[s].frames)
      BY <1>3, <2>7 DEF Typed, RunRow, RunIs
    <2>9. Rests("gate")
      BY <1>1, <1>2, <1>3 DEF RetainKey, Rests, Become, Typed
    <2> QED
      BY <2>4, <2>6, <2>8, <2>9 DEF RetainKey, memVars
  <1>5. Writes(s)
    BY <1>1, <1>2, <1>3 DEF Typed, Past, Writes, At, Become, Row, Sub, Fine, Fault, memVars,
       RetainKey
  <1>6. Fits(s)
    BY <1>2, <1>3, <1>4 DEF Typed, Fits, RunIs, RunRow, RecRow, IndexRow, Files, NoFile, Unfinished,
       Terminal, Health
  <1>7. Moves("gate") /\ GoesOn("gate")
    BY <1>2, <1>3, <1>4, BlankFits DEF Typed, Moves, GoesOn, Rests, KindFits, At, Become, Row, Sub,
       Fine, Fault, memVars, RetainKey, Starting, Purging, Ending, Indexed, Saving, Retaining,
       MicStep
  <1>8. Knows(op["gate"])'
    BY <1>2, <1>3, <1>4 DEF Typed, Knows, Rests, Idle, RunIs, KindFits, StartKnows, Stored, Dated,
       Starting, PurgeKnows, Present, NoFiles, Purging, EndKnows, EndState, Unfinished, Ending,
       Saving, Indexed, Retaining, AudioKnows, Survives, Kept, NoFile, MicStep
  <1>9. Stored(s)'
    BY <1>2, <1>3, <1>4 DEF Typed, Stored, Rests, Idle, RunIs, KindFits, StartKnows, EndKnows,
       AudioKnows, EndState, Survives, Dated, Kept, Present, NoFile, Backed, PurgeKnows, Final,
       NoFiles, NoIndex, NoRec, Unfinished, Buried, Starting, Purging, Ending, Indexed, Saving,
       Retaining, MicStep
  <1>10. Held("gate", s)'
    BY <1>2, <1>3, <1>4 DEF Typed, Held, Handing, Sub, Rests, Idle, RunIs, KindFits, StartKnows,
       EndKnows, EndState, Stored, Dated, Present, Unfinished, Terminal, RunRow, Past, Starting,
       Purging, Ending, Indexed, Saving, Retaining, MicStep
  <1> QED
    BY <1>1, <1>2, <1>3, <1>4, <1>5, <1>6, <1>7, <1>8, <1>9, <1>10, WorkKeeps DEF AtWork, Step, Sub

\* interrupt_local_persistence, in a stop that could not complete.
LEMMA InterruptLocalKeeps ==
    ASSUME CaptureAssumption, CaptureInv, InterruptLocal
    PROVE  CaptureInv'
  <1>1. PICK s \in Session : s = Sub("gate")
    BY DEF CaptureInv, Knows, KindFits, Sub, At, Thread, InterruptLocal
  <1>2. op["gate"].pc = "interrupt_local" /\ op["gate"].s = s /\ "gate" \in Thread
    BY <1>1 DEF Sub, At, Thread, InterruptLocal
  <1>3. /\ Typed("gate", s) /\ Stored(s) /\ Held("gate", s)
        /\ KindFits(op["gate"]) /\ StartKnows(op["gate"]) /\ PurgeKnows(op["gate"])
        /\ EndKnows(op["gate"]) /\ AudioKnows(op["gate"])
        /\ "gate" = "mic" => op["gate"].pc \in MicStep /\ op["gate"].kind \in {"interrupt", "teardown"}
    BY <1>1, <1>2, HereHolds DEF AtWork, Step
  <1>4. /\ UNCHANGED <<rec, index, text, tomb, disk, active, detached, ui, col, accepted, past>>
        /\ \/ /\ run[s].state = "draining"
              /\ RunIs(s, "interrupted", "off", run[s].path, run[s].frames)
              /\ OpIs("gate", "pick", "recover", NoSession, {s}, FALSE)
           \/ Rests("gate") /\ UNCHANGED run
    <2>1. CASE run[s].state = "draining" /\ Row(s, Blamed(Interrupted(run[s]), "off"))
               /\ Become("gate", [Idle EXCEPT !.pc = "pick", !.kind = "recover", !.todo = {s}])
      <3>1. run[s].state = "draining"
        BY <1>1, <1>2, <1>3, <2>1 DEF Typed, RunIs, Row, memVars, OnlyOp, InterruptLocal, Blamed,
           Interrupted
      <3>2. RunIs(s, "interrupted", "off", run[s].path, run[s].frames)
        BY <1>1, <1>2, <1>3, <2>1 DEF Typed, RunIs, RunRow, Unfinished, Terminal, Health, Row,
           memVars, OnlyOp, InterruptLocal, Blamed, Interrupted
      <3>3. OpIs("gate", "pick", "recover", NoSession, {s}, FALSE)
        <4>1. op'["gate"] = [Idle EXCEPT !.pc = "pick", !.kind = "recover", !.todo = {s}]
          BY <1>2, <1>3, <2>1 DEF Typed, Become
        <4>2. op'["gate"] \in Op
          <5>1. {s} \in SUBSET Session
            OBVIOUS
          <5>2. "pick" \in Step /\ "recover" \in Kind
            BY DEF Step, Kind
          <5>3. [Idle EXCEPT !.pc = "pick", !.kind = "recover", !.todo = {s}] \in Op
            BY <5>1, <5>2, FreshFits
          <5> QED
            BY <4>1, <5>3
        <4> QED
          BY <4>1, <4>2 DEF Idle, OpIs
      <3> QED
        BY <1>1, <1>2, <1>3, <2>1, <3>1, <3>2, <3>3 DEF At, Become, Row, Sub, Fine, Fault, Errs,
           OnlyOp, memVars, InterruptLocal
    <2>2. CASE UNCHANGED run /\ Become("gate", Idle)
      BY <1>1, <1>2, <1>3, <2>2, GotoWalks, FailedFailsOn DEF Typed, KindFits, Saving, Indexed,
         Rests, OpIs, RunIs, Step, Idle, At, Become, Row, Sub, Fine, Fault, Errs, OnlyOp, memVars,
         InterruptLocal
    <2> QED
      BY <1>1, <1>2, <2>1, <2>2 DEF At, Become, Row, Sub, Fine, Fault, Errs, OnlyOp, memVars,
         InterruptLocal
  <1>5. Writes(s)
    BY <1>1, <1>2, <1>3 DEF Typed, Past, Writes, At, Become, Row, Sub, Fine, Fault, Errs, OnlyOp,
       memVars, InterruptLocal
  <1>6. Fits(s)
    <2>1. run'[s] \in RunRow
      BY <1>2, <1>3, <1>4, BlankFits DEF Typed, RunIs, RunRow, NoRun, Unfinished, Terminal, Health
    <2>2. disk'[s] \in Files
      BY <1>2, <1>3, <1>4, BlankFits DEF Typed, RunIs, Files, NoFile, NoFiles
    <2>3. rec'[s] \in RecRow /\ index'[s] \in IndexRow
      BY <1>2, <1>3, <1>4, BlankFits DEF Typed, RunIs, RecRow, NoRec, IndexRow, NoIndex
    <2>4. /\ text'[s] \subseteq {"facts", "gap"}
          /\ col'[s] \in {"none", "running", "late"} /\ accepted'[s] \in 0..MaxFrames
      BY <1>2, <1>3, <1>4, BlankFits DEF Typed, RunIs
    <2> QED
      BY <2>1, <2>2, <2>3, <2>4 DEF Fits
  <1>7. Moves("gate") /\ GoesOn("gate")
    BY <1>2, <1>3, <1>4, BlankFits DEF Typed, Moves, GoesOn, OpIs, Rests, KindFits, At, Become, Row,
       Sub, Fine, Fault, Errs, OnlyOp, memVars, InterruptLocal, Starting, Purging, Ending, Indexed,
       Saving, Retaining, MicStep
  <1>8. Knows(op["gate"])'
    BY <1>2, <1>3, <1>4 DEF Typed, Knows, OpIs, Rests, Idle, RunIs, KindFits, StartKnows, Stored,
       Dated, Starting, PurgeKnows, Present, NoFiles, Purging, EndKnows, EndState, Unfinished,
       Ending, Saving, Indexed, Retaining, AudioKnows, Survives, Kept, NoFile, MicStep
  <1>9. Stored(s)'
    BY <1>2, <1>3, <1>4 DEF Typed, Stored, OpIs, Rests, Idle, RunIs, KindFits, StartKnows, EndKnows,
       AudioKnows, EndState, Survives, Dated, Kept, Present, NoFile, Backed, PurgeKnows, Final,
       NoFiles, NoIndex, NoRec, Unfinished, Buried, Starting, Purging, Ending, Indexed, Saving,
       Retaining, MicStep
  <1>10. Held("gate", s)'
    BY <1>2, <1>3, <1>4 DEF Typed, Held, Handing, Sub, OpIs, Rests, Idle, RunIs, KindFits,
       StartKnows, EndKnows, EndState, Stored, Dated, Present, Unfinished, Terminal, RunRow, Past,
       Starting, Purging, Ending, Indexed, Saving, Retaining, MicStep
  <1> QED
    BY <1>1, <1>2, <1>3, <1>4, <1>5, <1>6, <1>7, <1>8, <1>9, <1>10, WorkKeeps DEF AtWork, Step, Sub

\* recover_detached_unfinished_run: the row of a detached capture.
LEMMA RecoverRowKeeps ==
    ASSUME CaptureAssumption, CaptureInv, RecoverRow
    PROVE  CaptureInv'
  <1>1. PICK s \in Session : s = Sub("gate")
    BY DEF CaptureInv, Knows, KindFits, Sub, At, Thread, RecoverRow, RecoveryFails, DetachedRow
  <1>2. op["gate"].pc = "detach" /\ op["gate"].s = s /\ "gate" \in Thread
    BY <1>1 DEF Sub, At, Thread, RecoverRow, RecoveryFails, DetachedRow
  <1>3. /\ Typed("gate", s) /\ Stored(s) /\ Held("gate", s)
        /\ KindFits(op["gate"]) /\ StartKnows(op["gate"]) /\ PurgeKnows(op["gate"])
        /\ EndKnows(op["gate"]) /\ AudioKnows(op["gate"])
        /\ "gate" = "mic" => op["gate"].pc \in MicStep /\ op["gate"].kind \in {"interrupt", "teardown"}
    BY <1>1, <1>2, HereHolds DEF AtWork, Step
  <1>4. /\ UNCHANGED <<rec, index, text, tomb, disk, active, ui, col, accepted, past>>
        /\ \/ /\ Walks("gate", "load") /\ UNCHANGED detached
              /\ run'[s].state = "interrupted"
              /\ \/ run'[s] = run[s]
                 \/ run[s].state \in Unfinished /\ RunIs(s, "interrupted", "off", run[s].path, run[s].frames)
           \/ /\ Walks("gate", "pick") /\ detached' = detached \ {s}
              /\ run'[s] = run[s] /\ run[s].state \notin Unfinished
           \/ Rests("gate") /\ UNCHANGED <<run, detached>>
    <2>1. CASE Row(s, DetachedRow(run[s])) /\ DetachedRow(run[s]).state = "interrupted"
               /\ Goto("gate", "load") /\ UNCHANGED detached
      BY <1>1, <1>2, <1>3, <2>1, GotoWalks, FailedFailsOn DEF Typed, KindFits, Saving, Indexed,
         Rests, RunIs, RunRow, Unfinished, Terminal, Health, Step, Idle, At, Goto, Become, Row, Sub,
         Fine, Fault, RecoverRow, RecoveryFails, DetachedRow, Interrupted
    <2>2. CASE Row(s, DetachedRow(run[s])) /\ DetachedRow(run[s]).state # "interrupted"
               /\ Goto("gate", "pick") /\ detached' = detached \ {s}
      BY <1>1, <1>2, <1>3, <2>2, GotoWalks, FailedFailsOn DEF Typed, KindFits, Saving, Indexed,
         Rests, RunIs, Step, Idle, At, Goto, Become, Row, Sub, Fine, Fault, RecoverRow,
         RecoveryFails, DetachedRow, Interrupted, RunRow, Unfinished
    <2>3. CASE RecoveryFails /\ UNCHANGED <<run, detached>>
      BY <1>1, <1>2, <1>3, <2>3, GotoWalks, FailedFailsOn DEF Typed, KindFits, Saving, Indexed,
         Rests, RunIs, Step, Idle, At, Goto, Become, Row, Sub, Fine, Fault, RecoverRow,
         RecoveryFails, DetachedRow
    <2> QED
      BY <1>1, <1>2, <2>1, <2>2, <2>3 DEF At, Goto, Become, Row, Sub, Fine, Fault, RecoverRow,
         RecoveryFails, DetachedRow
  <1>5. Writes(s)
    BY <1>1, <1>2, <1>3 DEF Typed, Past, Writes, At, Goto, Become, Row, Sub, Fine, Fault,
       RecoverRow, RecoveryFails, DetachedRow
  <1>6. Fits(s)
    BY <1>2, <1>3, <1>4 DEF Typed, Fits, RunIs, RunRow, RecRow, IndexRow, Files, NoFile, Unfinished,
       Terminal, Health
  <1>7. Moves("gate") /\ GoesOn("gate")
    BY <1>2, <1>3, <1>4, BlankFits DEF Typed, Moves, GoesOn, Walks, OpIs, Rests, KindFits, At, Goto,
       Become, Row, Sub, Fine, Fault, RecoverRow, RecoveryFails, DetachedRow, Starting, Purging,
       Ending, Indexed, Saving, Retaining, MicStep
  <1>8. Knows(op["gate"])'
    BY <1>2, <1>3, <1>4 DEF Typed, Knows, Walks, OpIs, Rests, Idle, RunIs, KindFits, StartKnows,
       Stored, Dated, Starting, PurgeKnows, Present, NoFiles, Purging, EndKnows, EndState,
       Unfinished, Ending, Saving, Indexed, Retaining, AudioKnows, Survives, Kept, NoFile, MicStep
  <1>9. Stored(s)'
    BY <1>2, <1>3, <1>4 DEF Typed, Stored, Walks, OpIs, Rests, Idle, RunIs, KindFits, StartKnows,
       EndKnows, AudioKnows, EndState, Survives, Dated, Kept, Present, NoFile, Backed, PurgeKnows,
       Final, NoFiles, NoIndex, NoRec, Unfinished, Buried, Starting, Purging, Ending, Indexed,
       Saving, Retaining, MicStep
  <1>10. Held("gate", s)'
    BY <1>2, <1>3, <1>4 DEF Typed, Held, Handing, Sub, Walks, OpIs, Rests, Idle, RunIs, KindFits,
       StartKnows, EndKnows, EndState, Stored, Dated, Present, Unfinished, Terminal, RunRow, Past,
       Starting, Purging, Ending, Indexed, Saving, Retaining, MicStep
  <1> QED
    BY <1>1, <1>2, <1>3, <1>4, <1>5, <1>6, <1>7, <1>8, <1>9, <1>10, WorkKeeps DEF AtWork, Step, Sub

\* A recovery loads the session whose audio it is to finalize.
LEMMA RecoverAudioKeeps ==
    ASSUME CaptureAssumption, CaptureInv, RecoverAudio
    PROVE  CaptureInv'
  <1>1. PICK s \in Session : s = Sub("gate")
    BY DEF CaptureInv, Knows, KindFits, Sub, At, Thread, RecoverAudio, ChunksWritten, ChunksPartly
  <1>2. op["gate"].pc = "load" /\ op["gate"].s = s /\ "gate" \in Thread
    BY <1>1 DEF Sub, At, Thread, RecoverAudio, ChunksWritten, ChunksPartly
  <1>3. /\ Typed("gate", s) /\ Stored(s) /\ Held("gate", s)
        /\ KindFits(op["gate"]) /\ StartKnows(op["gate"]) /\ PurgeKnows(op["gate"])
        /\ EndKnows(op["gate"]) /\ AudioKnows(op["gate"])
        /\ "gate" = "mic" => op["gate"].pc \in MicStep /\ op["gate"].kind \in {"interrupt", "teardown"}
    BY <1>1, <1>2, HereHolds DEF AtWork, Step
  <1>4. /\ UNCHANGED <<run, rec, index, text, tomb, active, detached, ui, col, accepted, past>>
        /\ \/ /\ Walks("gate", "finalize")
              /\ disk[s].journal # NoFile /\ disk[s].key
              /\ DiskIs(s, disk[s].journal, disk[s].journal, disk[s].key)
           \/ /\ Walks("gate", "pick")
              /\ disk[s].journal # NoFile
              /\ DiskIs(s, disk[s].journal, disk'[s].chunks, disk[s].key)
           \/ /\ Walks("gate", "meta") /\ UNCHANGED disk
              /\ disk[s].journal = NoFile
           \/ Walks("gate", "pick") /\ UNCHANGED disk
    <2>1. CASE disk[s].journal # NoFile /\ disk[s].key /\ ChunksWritten(s)
               /\ Goto("gate", "finalize")
      BY <1>1, <1>2, <1>3, <2>1, GotoWalks, FailedFailsOn DEF Typed, KindFits, Saving, Indexed,
         DiskIs, Files, NoFile, Step, At, Goto, Become, Sub, Fine, Fault, dbVars, memVars,
         RecoverAudio, ChunksWritten, ChunksPartly
    <2>2. CASE disk[s].journal # NoFile /\ ChunksPartly(s) /\ Goto("gate", "pick")
      <3>1. Walks("gate", "pick")
        BY <1>1, <1>2, <1>3, <2>2, GotoWalks, FailedFailsOn DEF Typed, KindFits, Saving, Indexed,
           Step, Goto, Become, RecoverAudio, ChunksWritten, ChunksPartly, Files
      <3>2. disk[s].journal # NoFile
        BY <1>1, <1>2, <1>3, <2>2 DEF Typed, DiskIs, dbVars, memVars, RecoverAudio, ChunksWritten,
           ChunksPartly, Files
      <3>3. DiskIs(s, disk[s].journal, disk'[s].chunks, disk[s].key)
        BY <1>1, <1>2, <1>3, <2>2 DEF Typed, DiskIs, Files, NoFile, dbVars, memVars, RecoverAudio,
           ChunksWritten, ChunksPartly
      <3> QED
        BY <1>1, <1>2, <1>3, <2>2, <3>1, <3>2, <3>3 DEF At, Goto, Become, Sub, Fine, Fault, dbVars,
           memVars, RecoverAudio, ChunksWritten, ChunksPartly
    <2>3. CASE disk[s].journal = NoFile /\ run[s].path /\ disk[s].chunks = run[s].frames
               /\ UNCHANGED disk /\ Goto("gate", "meta")
      BY <1>1, <1>2, <1>3, <2>3, GotoWalks, FailedFailsOn DEF Typed, KindFits, Saving, Indexed,
         DiskIs, Step, At, Goto, Become, Sub, Fine, Fault, dbVars, memVars, RecoverAudio,
         ChunksWritten, ChunksPartly
    <2>4. CASE UNCHANGED disk /\ Goto("gate", "pick")
      BY <1>1, <1>2, <1>3, <2>4, GotoWalks, FailedFailsOn DEF Typed, KindFits, Saving, Indexed,
         DiskIs, Step, At, Goto, Become, Sub, Fine, Fault, dbVars, memVars, RecoverAudio,
         ChunksWritten, ChunksPartly
    <2> QED
      BY <1>1, <1>2, <2>1, <2>2, <2>3, <2>4 DEF At, Goto, Become, Sub, Fine, Fault, dbVars, memVars,
         RecoverAudio, ChunksWritten, ChunksPartly
  <1>5. Writes(s)
    BY <1>1, <1>2, <1>3 DEF Typed, Past, Writes, At, Goto, Become, Sub, Fine, Fault, dbVars,
       memVars, RecoverAudio, ChunksWritten, ChunksPartly
  <1>6. Fits(s)
    BY <1>2, <1>3, <1>4 DEF Typed, Fits, DiskIs, RunRow, RecRow, IndexRow, Files, NoFile,
       Unfinished, Terminal, Health
  <1>7. Moves("gate") /\ GoesOn("gate")
    BY <1>2, <1>3, <1>4, BlankFits DEF Typed, Moves, GoesOn, Walks, OpIs, KindFits, At, Goto,
       Become, Sub, Fine, Fault, dbVars, memVars, RecoverAudio, ChunksWritten, ChunksPartly,
       Starting, Purging, Ending, Indexed, Saving, Retaining, MicStep
  <1>8. Knows(op["gate"])'
    BY <1>2, <1>3, <1>4 DEF Typed, Knows, Walks, OpIs, DiskIs, KindFits, StartKnows, Stored, Dated,
       Starting, PurgeKnows, Present, NoFiles, Purging, EndKnows, EndState, Unfinished, Ending,
       Saving, Indexed, Retaining, AudioKnows, Survives, Kept, NoFile, MicStep
  <1>9. Stored(s)'
    <2>1. Survives(s)'
      BY <1>2, <1>3, <1>4 DEF Typed, Stored, Walks, OpIs, DiskIs, KindFits, StartKnows, EndKnows,
         AudioKnows, EndState, Survives, Dated, Kept, Present, NoFile, Starting, Purging, Ending,
         Indexed, Saving, Retaining, MicStep
    <2>2. Backed(s)'
      BY <1>2, <1>3, <1>4 DEF Typed, Stored, Walks, OpIs, DiskIs, KindFits, StartKnows, AudioKnows,
         Backed, Dated, Survives, Kept, NoFile, Starting, Purging, Ending, Indexed, Saving,
         Retaining, MicStep
    <2>3. Final(s)'
      BY <1>2, <1>3, <1>4 DEF Typed, Stored, Walks, OpIs, DiskIs, KindFits, StartKnows, PurgeKnows,
         EndKnows, EndState, Final, Dated, Present, NoFiles, NoIndex, NoRec, Unfinished, Starting,
         Purging, Ending, Indexed, Saving, Retaining, MicStep
    <2>4. Dated(s)'
      BY <1>2, <1>3, <1>4 DEF Typed, Stored, Walks, OpIs, DiskIs, KindFits, StartKnows, EndKnows,
         Dated, Present, Starting, Purging, Ending, Indexed, Saving, Retaining, MicStep
    <2>5. Buried(s)'
      BY <1>2, <1>3, <1>4 DEF Typed, Stored, Walks, OpIs, DiskIs, KindFits, StartKnows, PurgeKnows,
         EndKnows, EndState, Buried, Unfinished, Starting, Purging, Ending, Indexed, Saving,
         Retaining, MicStep
    <2> QED
      BY <2>1, <2>2, <2>3, <2>4, <2>5 DEF Stored
  <1>10. Held("gate", s)'
    BY <1>2, <1>3, <1>4 DEF Typed, Held, Handing, Sub, Walks, OpIs, DiskIs, KindFits, StartKnows,
       EndKnows, EndState, Stored, Dated, Present, Unfinished, Terminal, RunRow, Past, Starting,
       Purging, Ending, Indexed, Saving, Retaining, MicStep
  <1> QED
    BY <1>1, <1>2, <1>3, <1>4, <1>5, <1>6, <1>7, <1>8, <1>9, <1>10, WorkKeeps DEF AtWork, Step, Sub

\* The provider's streams are shut and joined.
LEMMA ShutRemoteKeeps ==
    ASSUME CaptureAssumption, CaptureInv, NEW th \in Thread, ShutRemote(th)
    PROVE  CaptureInv'
  <1>1. PICK s \in Session : s = Sub(th)
    BY DEF CaptureInv, Knows, KindFits, Sub, At, Thread, ShutRemote, Joined, ShutdownRows
  <1>2. op[th].pc = "shut" /\ op[th].s = s /\ th \in Thread
    BY <1>1 DEF Sub, At, Thread, ShutRemote, Joined, ShutdownRows
  <1>3. /\ Typed(th, s) /\ Stored(s) /\ Held(th, s)
        /\ KindFits(op[th]) /\ StartKnows(op[th]) /\ PurgeKnows(op[th])
        /\ EndKnows(op[th]) /\ AudioKnows(op[th])
        /\ th = "mic" => op[th].pc \in MicStep /\ op[th].kind \in {"interrupt", "teardown"}
    BY <1>1, <1>2, HereHolds DEF AtWork, Step
  <1>4. /\ UNCHANGED <<rec, index, text, tomb, disk, active, detached, ui, accepted>>
        /\ col'[s] \in {"none", "late"} /\ (s \notin past'.outlived => col'[s] = "none")
        /\ past'.created = past.created /\ past'.started = past.started
        /\ past'.erased = past.erased /\ past'.retained = past.retained
        /\ past.outlived \subseteq past'.outlived
        /\ \/ /\ op[th].kind = "stop" /\ Walks(th, "stop_journal")
              /\ RunIs(s, run[s].state, run'[s].health, run[s].path, run[s].frames)
           \/ op[th].kind # "stop" /\ UNCHANGED run /\ Walks(th, "mark")
    <2>0. /\ col'[s] \in {"none", "late"} /\ (s \notin past'.outlived => col'[s] = "none")
          /\ past'.created = past.created /\ past'.started = past.started
          /\ past'.erased = past.erased /\ past'.retained = past.retained
          /\ past.outlived \subseteq past'.outlived
      BY <1>2, <1>3 DEF Typed, Past, ShutRemote, Joined, Remember
    <2>1. CASE op[th].kind = "stop" /\ Goto(th, "stop_journal") /\ (UNCHANGED run \/ \E r \in ShutdownRows(run[s]) : Row(s, r))
      <3>1. op[th].kind = "stop" /\ Walks(th, "stop_journal")
        BY <1>1, <1>2, <1>3, <2>1, GotoWalks, FailedFailsOn DEF Typed, KindFits, Saving, Indexed,
           Step, Goto, Become, ShutRemote, Joined, ShutdownRows, Blamed
      <3>2. RunIs(s, run[s].state, run'[s].health, run[s].path, run[s].frames)
        <4>1. \/ run'[s] = run[s]
              \/ \E h \in Health : run'[s] = [run[s] EXCEPT !.health = h, !.cause = TRUE]
          BY <1>3, <2>1 DEF Typed, ShutdownRows, Blamed, Health, Row
        <4>2. CASE run'[s] = run[s]
          BY <1>3, <4>2 DEF Typed, RunIs
        <4>3. CASE \E h \in Health : run'[s] = [run[s] EXCEPT !.health = h, !.cause = TRUE]
          <5>1. PICK h \in Health : run'[s] = [run[s] EXCEPT !.health = h, !.cause = TRUE]
            BY <4>3
          <5> QED
            BY <1>3, <5>1 DEF Typed, RunIs, RunRow
        <4> QED
          BY <4>1, <4>2, <4>3
      <3> QED
        BY <1>1, <1>2, <1>3, <2>0, <2>1, <3>1, <3>2 DEF memVars, ShutRemote
    <2>2. CASE op[th].kind # "stop" /\ UNCHANGED run /\ Goto(th, "mark")
      <3>1. op[th].kind # "stop" /\ UNCHANGED run /\ Walks(th, "mark")
        BY <1>1, <1>2, <1>3, <2>2, GotoWalks, FailedFailsOn DEF Typed, KindFits, Saving, Indexed,
           Step, Goto, Become, ShutRemote, Joined, ShutdownRows
      <3> QED
        BY <1>1, <1>2, <1>3, <2>0, <2>2, <3>1 DEF memVars, ShutRemote
    <2> QED
      BY <1>1, <1>2, <2>1, <2>2 DEF At, Goto, Become, Row, Sub, memVars, ShutRemote, Joined,
         ShutdownRows
  <1>5. Writes(s)
    <2>1. run' = run \/ run' = [run EXCEPT ![s] = run'[s]]
      BY <1>1, <1>2, <1>3, <1>4 DEF Typed, At, Goto, Become, Row, Sub, memVars, ShutRemote, Joined,
         ShutdownRows
    <2>2. rec' = rec \/ rec' = [rec EXCEPT ![s] = rec'[s]]
      BY <1>1, <1>2, <1>3, <1>4 DEF Typed, At, Goto, Become, Row, Sub, memVars, ShutRemote, Joined,
         ShutdownRows
    <2>3. index' = index \/ index' = [index EXCEPT ![s] = index'[s]]
      BY <1>1, <1>2, <1>3, <1>4 DEF Typed, At, Goto, Become, Row, Sub, memVars, ShutRemote, Joined,
         ShutdownRows
    <2>4. disk' = disk \/ disk' = [disk EXCEPT ![s] = disk'[s]]
      BY <1>1, <1>2, <1>3, <1>4 DEF Typed, At, Goto, Become, Row, Sub, memVars, ShutRemote, Joined,
         ShutdownRows
    <2>5. text' = text \/ text' = [text EXCEPT ![s] = text'[s]]
      BY <1>1, <1>2, <1>3, <1>4 DEF Typed, At, Goto, Become, Row, Sub, memVars, ShutRemote, Joined,
         ShutdownRows
    <2>6. /\ past' \in Past /\ past'.created \in {past.created, past.created \cup {s}}
          /\ past'.started \in {past.started, past.started \cup {s}}
          /\ past'.erased \in {past.erased, past.erased \cup {s}}
          /\ past'.retained \in {past.retained, past.retained \cup {s}}
          /\ past'.outlived \in {past.outlived, past.outlived \cup {s}}
      BY <1>2, <1>3 DEF Typed, Past, ShutRemote, Joined, Remember
    <2> QED
      BY <1>1, <1>2, <2>1, <2>2, <2>3, <2>4, <2>5, <2>6 DEF Writes, At, Goto, Become, Row, Sub,
         memVars, ShutRemote, Joined, ShutdownRows
  <1>6. Fits(s)
    BY <1>2, <1>3, <1>4 DEF Typed, Fits, RunIs, RunRow, RecRow, IndexRow, Files, NoFile, Unfinished,
       Terminal, Health
  <1>7. Moves(th) /\ GoesOn(th)
    BY <1>2, <1>3, <1>4, BlankFits DEF Typed, Moves, GoesOn, Walks, OpIs, KindFits, At, Goto,
       Become, Row, Fine, Fault, memVars, ShutRemote, Joined, ShutdownRows, Starting, Purging, Ending, Indexed,
       Saving, Retaining, MicStep
  <1>8. Knows(op[th])'
    BY <1>2, <1>3, <1>4 DEF Typed, Knows, Walks, OpIs, RunIs, KindFits, StartKnows, Stored, Dated,
       Starting, PurgeKnows, Present, NoFiles, Purging, EndKnows, EndState, Unfinished, Ending,
       Saving, Indexed, Retaining, AudioKnows, Survives, Kept, NoFile, MicStep
  <1>9. Stored(s)'
    BY <1>2, <1>3, <1>4 DEF Typed, Stored, Walks, OpIs, RunIs, KindFits, StartKnows, EndKnows,
       AudioKnows, EndState, Survives, Dated, Kept, Present, NoFile, Backed, PurgeKnows, Final,
       NoFiles, NoIndex, NoRec, Unfinished, Buried, Starting, Purging, Ending, Indexed, Saving,
       Retaining, MicStep
  <1>10. Held(th, s)'
    BY <1>2, <1>3, <1>4 DEF Typed, Held, Handing, Sub, Walks, OpIs, RunIs, KindFits, StartKnows,
       EndKnows, EndState, Stored, Dated, Present, Unfinished, Terminal, RunRow, Past, Starting,
       Purging, Ending, Indexed, Saving, Retaining, MicStep
  <1> QED
    BY <1>1, <1>2, <1>3, <1>4, <1>5, <1>6, <1>7, <1>8, <1>9, <1>10, WorkKeeps DEF AtWork, Step, Sub

\* interrupt_capture marks the row.
LEMMA MarkInterruptedKeeps ==
    ASSUME CaptureAssumption, CaptureInv, NEW th \in Thread, MarkInterrupted(th)
    PROVE  CaptureInv'
  <1>1. PICK s \in Session : s = Sub(th)
    BY DEF CaptureInv, Knows, KindFits, Sub, At, Thread, MarkInterrupted
  <1>2. op[th].pc = "mark" /\ op[th].s = s /\ th \in Thread
    BY <1>1 DEF Sub, At, Thread, MarkInterrupted
  <1>3. /\ Typed(th, s) /\ Stored(s) /\ Held(th, s)
        /\ KindFits(op[th]) /\ StartKnows(op[th]) /\ PurgeKnows(op[th])
        /\ EndKnows(op[th]) /\ AudioKnows(op[th])
        /\ th = "mic" => op[th].pc \in MicStep /\ op[th].kind \in {"interrupt", "teardown"}
    BY <1>1, <1>2, HereHolds DEF AtWork, Step
  <1>4. /\ UNCHANGED <<rec, index, text, tomb, disk, active, detached, ui, col, accepted, past>>
        /\ \/ /\ Walks(th, "stop_journal")
              /\ RunIs(s, "interrupted", "off", run[s].path, run[s].frames)
           \/ Walks(th, "teardown") /\ UNCHANGED run
    <2>1. CASE Row(s, Blamed(Interrupted(run[s]), "off")) /\ Goto(th, "stop_journal")
      BY <1>1, <1>2, <1>3, <2>1, GotoWalks, FailedFailsOn DEF Typed, KindFits, Saving, Indexed,
         RunIs, RunRow, Unfinished, Terminal, Health, Step, At, Goto, Become, Row, Sub, Fine, Fault,
         Errs, memVars, MarkInterrupted, Blamed, Interrupted
    <2>2. CASE UNCHANGED run /\ Goto(th, "teardown")
      BY <1>1, <1>2, <1>3, <2>2, GotoWalks, FailedFailsOn DEF Typed, KindFits, Saving, Indexed,
         RunIs, Step, At, Goto, Become, Row, Sub, Fine, Fault, Errs, memVars, MarkInterrupted
    <2> QED
      BY <1>1, <1>2, <2>1, <2>2 DEF At, Goto, Become, Row, Sub, Fine, Fault, Errs, memVars,
         MarkInterrupted
  <1>5. Writes(s)
    BY <1>1, <1>2, <1>3 DEF Typed, Past, Writes, At, Goto, Become, Row, Sub, Fine, Fault, Errs,
       memVars, MarkInterrupted
  <1>6. Fits(s)
    BY <1>2, <1>3, <1>4 DEF Typed, Fits, RunIs, RunRow, RecRow, IndexRow, Files, NoFile, Unfinished,
       Terminal, Health
  <1>7. Moves(th) /\ GoesOn(th)
    BY <1>2, <1>3, <1>4, BlankFits DEF Typed, Moves, GoesOn, Walks, OpIs, KindFits, At, Goto,
       Become, Row, Fine, Fault, Errs, memVars, MarkInterrupted, Starting, Purging, Ending, Indexed,
       Saving, Retaining, MicStep
  <1>8. Knows(op[th])'
    BY <1>2, <1>3, <1>4 DEF Typed, Knows, Walks, OpIs, RunIs, KindFits, StartKnows, Stored, Dated,
       Starting, PurgeKnows, Present, NoFiles, Purging, EndKnows, EndState, Unfinished, Ending,
       Saving, Indexed, Retaining, AudioKnows, Survives, Kept, NoFile, MicStep
  <1>9. Stored(s)'
    BY <1>2, <1>3, <1>4 DEF Typed, Stored, Walks, OpIs, RunIs, KindFits, StartKnows, EndKnows,
       AudioKnows, EndState, Survives, Dated, Kept, Present, NoFile, Backed, PurgeKnows, Final,
       NoFiles, NoIndex, NoRec, Unfinished, Buried, Starting, Purging, Ending, Indexed, Saving,
       Retaining, MicStep
  <1>10. Held(th, s)'
    BY <1>2, <1>3, <1>4 DEF Typed, Held, Handing, Sub, Walks, OpIs, RunIs, KindFits, StartKnows,
       EndKnows, EndState, Stored, Dated, Present, Unfinished, Terminal, RunRow, Past, Starting,
       Purging, Ending, Indexed, Saving, Retaining, MicStep
  <1> QED
    BY <1>1, <1>2, <1>3, <1>4, <1>5, <1>6, <1>7, <1>8, <1>9, <1>10, WorkKeeps DEF AtWork, Step, Sub

\* CaptureAudioJournal::stop writes the chunks.
LEMMA StopJournalKeeps ==
    ASSUME CaptureAssumption, CaptureInv, NEW th \in Thread, StopJournal(th)
    PROVE  CaptureInv'
  <1>1. PICK s \in Session : s = Sub(th)
    BY DEF CaptureInv, Knows, KindFits, Sub, At, Thread, StopJournal, ChunksWritten, ChunksPartly
  <1>2. op[th].pc = "stop_journal" /\ op[th].s = s /\ th \in Thread
    BY <1>1 DEF Sub, At, Thread, StopJournal, ChunksWritten, ChunksPartly
  <1>3. /\ Typed(th, s) /\ Stored(s) /\ Held(th, s)
        /\ KindFits(op[th]) /\ StartKnows(op[th]) /\ PurgeKnows(op[th])
        /\ EndKnows(op[th]) /\ AudioKnows(op[th])
        /\ th = "mic" => op[th].pc \in MicStep /\ op[th].kind \in {"interrupt", "teardown"}
    BY <1>1, <1>2, HereHolds DEF AtWork, Step
  <1>4. /\ UNCHANGED <<run, rec, index, text, tomb, active, detached, ui, col, accepted, past>>
        /\ \/ /\ Walks(th, "finalize")
              /\ DiskIs(s, disk[s].journal, disk[s].journal, disk[s].key)
           \/ /\ FailsOn(th)
              /\ DiskIs(s, disk[s].journal, disk'[s].chunks, disk[s].key)
    <2>1. CASE ChunksWritten(s) /\ Goto(th, "finalize")
      BY <1>1, <1>2, <1>3, <2>1, GotoWalks, FailedFailsOn DEF Typed, KindFits, Saving, Indexed,
         DiskIs, Files, NoFile, Step, At, Goto, Become, Sub, Fine, Fault, dbVars, memVars,
         StopJournal, ChunksWritten, ChunksPartly
    <2>2. CASE ChunksPartly(s) /\ Become(th, Failed(op[th]))
      <3>1. FailsOn(th)
        BY <1>1, <1>2, <1>3, <2>2, GotoWalks, FailedFailsOn DEF Typed, KindFits, Saving, Indexed,
           Step, Goto, Become, StopJournal, ChunksWritten, ChunksPartly, Files
      <3>2. DiskIs(s, disk[s].journal, disk'[s].chunks, disk[s].key)
        BY <1>1, <1>2, <1>3, <2>2 DEF Typed, DiskIs, Files, NoFile, dbVars, memVars, StopJournal,
           ChunksWritten, ChunksPartly
      <3> QED
        BY <1>1, <1>2, <1>3, <2>2, <3>1, <3>2 DEF At, Goto, Become, Sub, Fine, Fault, dbVars,
           memVars, StopJournal, ChunksWritten, ChunksPartly
    <2> QED
      BY <1>1, <1>2, <2>1, <2>2 DEF At, Goto, Become, Sub, Fine, Fault, dbVars, memVars,
         StopJournal, ChunksWritten, ChunksPartly
  <1>5. Writes(s)
    BY <1>1, <1>2, <1>3 DEF Typed, Past, Writes, At, Goto, Become, Sub, Fine, Fault, dbVars,
       memVars, StopJournal, ChunksWritten, ChunksPartly
  <1>6. Fits(s)
    BY <1>2, <1>3, <1>4 DEF Typed, Fits, DiskIs, RunRow, RecRow, IndexRow, Files, NoFile,
       Unfinished, Terminal, Health
  <1>7. Moves(th) /\ GoesOn(th)
    BY <1>2, <1>3, <1>4, BlankFits DEF Typed, Moves, GoesOn, Walks, OpIs, Rests, FailsOn, KindFits,
       At, Goto, Become, Fine, Fault, dbVars, memVars, StopJournal, ChunksWritten, ChunksPartly,
       Starting, Purging, Ending, Indexed, Saving, Retaining, MicStep
  <1>8. Knows(op[th])'
    BY <1>2, <1>3, <1>4 DEF Typed, Knows, Walks, OpIs, Rests, FailsOn, Idle, DiskIs, KindFits,
       StartKnows, Stored, Dated, Starting, PurgeKnows, Present, NoFiles, Purging, EndKnows,
       EndState, Unfinished, Ending, Saving, Indexed, Retaining, AudioKnows, Survives, Kept, NoFile,
       MicStep
  <1>9. Stored(s)'
    BY <1>2, <1>3, <1>4 DEF Typed, Stored, Walks, OpIs, Rests, FailsOn, Idle, DiskIs, KindFits,
       StartKnows, EndKnows, AudioKnows, EndState, Survives, Dated, Kept, Present, NoFile, Backed,
       PurgeKnows, Final, NoFiles, NoIndex, NoRec, Unfinished, Buried, Starting, Purging, Ending,
       Indexed, Saving, Retaining, MicStep
  <1>10. Held(th, s)'
    BY <1>2, <1>3, <1>4 DEF Typed, Held, Handing, Sub, Walks, OpIs, Rests, FailsOn, Idle, DiskIs,
       KindFits, StartKnows, EndKnows, EndState, Stored, Dated, Present, Unfinished, Terminal,
       RunRow, Past, Starting, Purging, Ending, Indexed, Saving, Retaining, MicStep
  <1> QED
    BY <1>1, <1>2, <1>3, <1>4, <1>5, <1>6, <1>7, <1>8, <1>9, <1>10, WorkKeeps DEF AtWork, Step, Sub

\* teardown_after_interrupt_persistence_failure closes the journal.
LEMMA TeardownJournalKeeps ==
    ASSUME CaptureAssumption, CaptureInv, NEW th \in Thread, TeardownJournal(th)
    PROVE  CaptureInv'
  <1>1. PICK s \in Session : s = Sub(th)
    BY DEF CaptureInv, Knows, KindFits, Sub, At, Thread, TeardownJournal, ChunksWritten,
           ChunksPartly, RegisterDetached
  <1>2. op[th].pc = "teardown" /\ op[th].s = s /\ th \in Thread
    BY <1>1 DEF Sub, At, Thread, TeardownJournal, ChunksWritten, ChunksPartly, RegisterDetached
  <1>3. /\ Typed(th, s) /\ Stored(s) /\ Held(th, s)
        /\ KindFits(op[th]) /\ StartKnows(op[th]) /\ PurgeKnows(op[th])
        /\ EndKnows(op[th]) /\ AudioKnows(op[th])
        /\ th = "mic" => op[th].pc \in MicStep /\ op[th].kind \in {"interrupt", "teardown"}
    BY <1>1, <1>2, HereHolds DEF AtWork, Step
  <1>4. /\ UNCHANGED <<run, rec, index, text, tomb, active, ui, col, accepted, past>>
        /\ detached' = detached \cup {s}
        /\ \/ /\ OpIs(th, "redetach", op[th].kind, op[th].s, op[th].todo, TRUE)
              /\ DiskIs(s, disk[s].journal, disk[s].journal, disk[s].key)
           \/ /\ Walks(th, "redetach")
              /\ DiskIs(s, disk[s].journal, disk'[s].chunks, disk[s].key)
    <2>1. CASE ChunksWritten(s) /\ Become(th, [op[th] EXCEPT !.pc = "redetach", !.finalized = TRUE])
      <3>1. OpIs(th, "redetach", op[th].kind, op[th].s, op[th].todo, TRUE)
        <4>1. op' = [op EXCEPT ![th] = [op[th] EXCEPT !.pc = "redetach", !.finalized = TRUE]]
          BY <2>1 DEF Become
        <4>2. "redetach" \in Step
          BY DEF Step
        <4> QED
          BY <1>2, <1>3, <4>1, <4>2, ClosedWalks DEF Typed
      <3>2. DiskIs(s, disk[s].journal, disk[s].journal, disk[s].key)
        BY <1>1, <1>2, <1>3, <2>1 DEF Typed, DiskIs, Files, NoFile, dbVars, TeardownJournal,
           ChunksWritten, ChunksPartly, RegisterDetached
      <3>3. detached' = detached \cup {s}
        BY <1>1, <1>2, <1>3, <2>1 DEF Typed, DiskIs, dbVars, TeardownJournal, ChunksWritten,
           ChunksPartly, RegisterDetached
      <3> QED
        BY <1>1, <1>2, <1>3, <2>1, <3>1, <3>2, <3>3 DEF At, Goto, Become, Sub, Fine, Fault, dbVars,
           TeardownJournal, ChunksWritten, ChunksPartly, RegisterDetached
    <2>2. CASE ChunksPartly(s) /\ Goto(th, "redetach")
      <3>1. Walks(th, "redetach")
        BY <1>1, <1>2, <1>3, <2>2, GotoWalks, FailedFailsOn DEF Typed, KindFits, Saving, Indexed,
           OpIs, Step, Goto, Become, TeardownJournal, ChunksWritten, ChunksPartly, RegisterDetached,
           Files
      <3>2. DiskIs(s, disk[s].journal, disk'[s].chunks, disk[s].key)
        BY <1>1, <1>2, <1>3, <2>2 DEF Typed, DiskIs, Files, NoFile, dbVars, TeardownJournal,
           ChunksWritten, ChunksPartly, RegisterDetached
      <3>3. detached' = detached \cup {s}
        BY <1>1, <1>2, <1>3, <2>2 DEF Typed, DiskIs, dbVars, TeardownJournal, ChunksWritten,
           ChunksPartly, RegisterDetached, Files
      <3> QED
        BY <1>1, <1>2, <1>3, <2>2, <3>1, <3>2, <3>3 DEF At, Goto, Become, Sub, Fine, Fault, dbVars,
           TeardownJournal, ChunksWritten, ChunksPartly, RegisterDetached
    <2> QED
      BY <1>1, <1>2, <2>1, <2>2 DEF At, Goto, Become, Sub, Fine, Fault, dbVars, TeardownJournal,
         ChunksWritten, ChunksPartly, RegisterDetached
  <1>5. Writes(s)
    BY <1>1, <1>2, <1>3 DEF Typed, Past, Writes, At, Goto, Become, Sub, Fine, Fault, dbVars,
       TeardownJournal, ChunksWritten, ChunksPartly, RegisterDetached
  <1>6. Fits(s)
    <2>1. run'[s] \in RunRow
      BY <1>2, <1>3, <1>4, BlankFits DEF Typed, DiskIs, RunRow, NoRun, Unfinished, Terminal, Health
    <2>2. disk'[s] \in Files
      BY <1>2, <1>3, <1>4, BlankFits DEF Typed, DiskIs, Files, NoFile, NoFiles
    <2>3. rec'[s] \in RecRow /\ index'[s] \in IndexRow
      BY <1>2, <1>3, <1>4, BlankFits DEF Typed, DiskIs, RecRow, NoRec, IndexRow, NoIndex
    <2>4. /\ text'[s] \subseteq {"facts", "gap"}
          /\ col'[s] \in {"none", "running", "late"} /\ accepted'[s] \in 0..MaxFrames
      BY <1>2, <1>3, <1>4, BlankFits DEF Typed, DiskIs
    <2> QED
      BY <2>1, <2>2, <2>3, <2>4 DEF Fits
  <1>7. Moves(th) /\ GoesOn(th)
    BY <1>2, <1>3, <1>4, BlankFits DEF Typed, Moves, GoesOn, Walks, OpIs, KindFits, At, Goto,
       Become, Sub, Fine, Fault, dbVars, TeardownJournal, ChunksWritten, ChunksPartly,
       RegisterDetached, Starting, Purging, Ending, Indexed, Saving, Retaining, MicStep
  <1>8. Knows(op[th])'
    BY <1>2, <1>3, <1>4 DEF Typed, Knows, Walks, OpIs, DiskIs, KindFits, StartKnows, Stored, Dated,
       Starting, PurgeKnows, Present, NoFiles, Purging, EndKnows, EndState, Unfinished, Ending,
       Saving, Indexed, Retaining, AudioKnows, Survives, Kept, NoFile, MicStep
  <1>9. Stored(s)'
    BY <1>2, <1>3, <1>4 DEF Typed, Stored, Walks, OpIs, DiskIs, KindFits, StartKnows, EndKnows,
       AudioKnows, EndState, Survives, Dated, Kept, Present, NoFile, Backed, PurgeKnows, Final,
       NoFiles, NoIndex, NoRec, Unfinished, Buried, Starting, Purging, Ending, Indexed, Saving,
       Retaining, MicStep
  <1>10. Held(th, s)'
    BY <1>2, <1>3, <1>4 DEF Typed, Held, Handing, Sub, Walks, OpIs, DiskIs, KindFits, StartKnows,
       EndKnows, EndState, Stored, Dated, Present, Unfinished, Terminal, RunRow, Past, Starting,
       Purging, Ending, Indexed, Saving, Retaining, MicStep
  <1> QED
    BY <1>1, <1>2, <1>3, <1>4, <1>5, <1>6, <1>7, <1>8, <1>9, <1>10, WorkKeeps DEF AtWork, Step, Sub

\* teardown_after_interrupt_persistence_failure registers the run as detached.
LEMMA TeardownRowKeeps ==
    ASSUME CaptureAssumption, CaptureInv, NEW th \in Thread, TeardownRow(th)
    PROVE  CaptureInv'
  <1>1. PICK s \in Session : s = Sub(th)
    BY DEF CaptureInv, Knows, KindFits, Sub, At, Thread, TeardownRow, DetachedRow
  <1>2. op[th].pc = "redetach" /\ op[th].s = s /\ th \in Thread
    BY <1>1 DEF Sub, At, Thread, TeardownRow, DetachedRow
  <1>3. /\ Typed(th, s) /\ Stored(s) /\ Held(th, s)
        /\ KindFits(op[th]) /\ StartKnows(op[th]) /\ PurgeKnows(op[th])
        /\ EndKnows(op[th]) /\ AudioKnows(op[th])
        /\ th = "mic" => op[th].pc \in MicStep /\ op[th].kind \in {"interrupt", "teardown"}
    BY <1>1, <1>2, HereHolds DEF AtWork, Step
  <1>4. /\ UNCHANGED <<rec, index, text, tomb, disk, active, ui, col, accepted, past>>
        /\ \/ /\ Rests(th) \/ (op[th].finalized /\ OpIs(th, "finalize", "teardown", op[th].s, op[th].todo, TRUE))
              /\ detached' = detached \ {s}
              /\ \/ run'[s] = run[s] /\ run[s].state \notin Unfinished
                 \/ run[s].state \in Unfinished /\ RunIs(s, "interrupted", "off", run[s].path, run[s].frames)
           \/ Rests(th) /\ UNCHANGED <<run, detached>>
    <2>1. CASE Row(s, DetachedRow(run[s])) /\ detached' = detached \ {s}
               /\ Become(th, IF op[th].finalized THEN [op[th] EXCEPT !.pc = "finalize", !.kind = "teardown"] ELSE Idle)
      <3>1. Rests(th) \/ (op[th].finalized /\ OpIs(th, "finalize", "teardown", op[th].s, op[th].todo, TRUE))
        <4>1. "finalize" \in Step
          BY DEF Step
        <4>2. CASE op[th].finalized
          <5>1. op' = [op EXCEPT ![th] = [op[th] EXCEPT !.pc = "finalize", !.kind = "teardown"]]
            BY <2>1, <4>2 DEF Become
          <5>2. op[th].finalized = TRUE
            BY <1>3, <4>2 DEF Typed, Op
          <5> QED
            BY <1>2, <1>3, <4>1, <4>2, <5>1, <5>2, TeardownWalks DEF Typed
        <4>3. CASE ~op[th].finalized
          BY <1>2, <1>3, <2>1, <4>3 DEF Typed, Become, Rests
        <4> QED
          BY <4>2, <4>3
      <3>2. detached' = detached \ {s}
        BY <1>1, <1>2, <1>3, <2>1 DEF Typed, RunIs, Row, TeardownRow, DetachedRow, Interrupted
      <3>3. \/ run'[s] = run[s] /\ run[s].state \notin Unfinished
            \/ run[s].state \in Unfinished /\ RunIs(s, "interrupted", "off", run[s].path, run[s].frames)
        BY <1>1, <1>2, <1>3, <2>1 DEF Typed, RunIs, RunRow, Unfinished, Terminal, Health, Row,
           TeardownRow, DetachedRow, Interrupted
      <3> QED
        BY <1>1, <1>2, <1>3, <2>1, <3>1, <3>2, <3>3 DEF At, Become, Row, Sub, Fine, Fault,
           TeardownRow, DetachedRow
    <2>2. CASE UNCHANGED <<run, detached>> /\ Become(th, Idle)
      BY <1>1, <1>2, <1>3, <2>2, GotoWalks, FailedFailsOn DEF Typed, KindFits, Saving, Indexed,
         Rests, OpIs, RunIs, Step, Idle, At, Become, Row, Sub, Fine, Fault, TeardownRow, DetachedRow
    <2> QED
      BY <1>1, <1>2, <2>1, <2>2 DEF At, Become, Row, Sub, Fine, Fault, TeardownRow, DetachedRow
  <1>5. Writes(s)
    BY <1>1, <1>2, <1>3 DEF Typed, Past, Writes, At, Become, Row, Sub, Fine, Fault, TeardownRow,
       DetachedRow
  <1>6. Fits(s)
    <2>1. run'[s] \in RunRow
      BY <1>2, <1>3, <1>4, BlankFits DEF Typed, RunIs, RunRow, NoRun, Unfinished, Terminal, Health
    <2>2. disk'[s] \in Files
      BY <1>2, <1>3, <1>4, BlankFits DEF Typed, RunIs, Files, NoFile, NoFiles
    <2>3. rec'[s] \in RecRow /\ index'[s] \in IndexRow
      BY <1>2, <1>3, <1>4, BlankFits DEF Typed, RunIs, RecRow, NoRec, IndexRow, NoIndex
    <2>4. /\ text'[s] \subseteq {"facts", "gap"}
          /\ col'[s] \in {"none", "running", "late"} /\ accepted'[s] \in 0..MaxFrames
      BY <1>2, <1>3, <1>4, BlankFits DEF Typed, RunIs
    <2> QED
      BY <2>1, <2>2, <2>3, <2>4 DEF Fits
  <1>7. Moves(th) /\ GoesOn(th)
    BY <1>2, <1>3, <1>4, BlankFits DEF Typed, Moves, GoesOn, OpIs, Rests, KindFits, At, Become, Row,
       Fine, Fault, TeardownRow, DetachedRow, Starting, Purging, Ending, Indexed, Saving, Retaining,
       MicStep
  <1>8. Knows(op[th])'
    BY <1>2, <1>3, <1>4 DEF Typed, Knows, OpIs, Rests, Idle, RunIs, KindFits, StartKnows, Stored,
       Dated, Starting, PurgeKnows, Present, NoFiles, Purging, EndKnows, EndState, Unfinished,
       Ending, Saving, Indexed, Retaining, AudioKnows, Survives, Kept, NoFile, MicStep
  <1>9. Stored(s)'
    BY <1>2, <1>3, <1>4 DEF Typed, Stored, OpIs, Rests, Idle, RunIs, KindFits, StartKnows, EndKnows,
       AudioKnows, EndState, Survives, Dated, Kept, Present, NoFile, Backed, PurgeKnows, Final,
       NoFiles, NoIndex, NoRec, Unfinished, Buried, Starting, Purging, Ending, Indexed, Saving,
       Retaining, MicStep
  <1>10. Held(th, s)'
    BY <1>2, <1>3, <1>4 DEF Typed, Held, Handing, Sub, OpIs, Rests, Idle, RunIs, KindFits,
       StartKnows, EndKnows, EndState, Stored, Dated, Present, Unfinished, Terminal, RunRow, Past,
       Starting, Purging, Ending, Indexed, Saving, Retaining, MicStep
  <1> QED
    BY <1>1, <1>2, <1>3, <1>4, <1>5, <1>6, <1>7, <1>8, <1>9, <1>10, WorkKeeps DEF AtWork, Step, Sub

\* finalize_audio and finalize_interrupted_audio.
LEMMA FinalizeAudioKeeps ==
    ASSUME CaptureAssumption, CaptureInv, NEW th \in Thread, FinalizeAudio(th)
    PROVE  CaptureInv'
  <1>1. PICK s \in Session : s = Sub(th)
    BY DEF CaptureInv, Knows, KindFits, Sub, At, Thread, FinalizeAudio
  <1>2. op[th].pc = "finalize" /\ op[th].s = s /\ th \in Thread
    BY <1>1 DEF Sub, At, Thread, FinalizeAudio
  <1>3. /\ Typed(th, s) /\ Stored(s) /\ Held(th, s)
        /\ KindFits(op[th]) /\ StartKnows(op[th]) /\ PurgeKnows(op[th])
        /\ EndKnows(op[th]) /\ AudioKnows(op[th])
        /\ th = "mic" => op[th].pc \in MicStep /\ op[th].kind \in {"interrupt", "teardown"}
    BY <1>1, <1>2, HereHolds DEF AtWork, Step
  <1>4. /\ UNCHANGED <<rec, index, text, tomb, disk, active, detached, ui, col, accepted, past>>
        /\ \/ /\ Walks(th, "meta")
              /\ run[s].state = IF op[th].kind = "stop" THEN "draining" ELSE "interrupted"
              /\ run'[s].frames \in {disk[s].journal, accepted[s]} /\ run[s].frames <= run'[s].frames
              /\ RunIs(s, run[s].state, run[s].health, TRUE, run'[s].frames)
           \/ FailsOn(th) /\ UNCHANGED run
    <2>1. CASE \E n \in {disk[s].journal, accepted[s]} :
             /\ run[s].state = IF op[th].kind = "stop" THEN "draining" ELSE "interrupted"
             /\ run[s].frames <= n /\ Row(s, [run[s] EXCEPT !.path = TRUE, !.frames = n])
             /\ Goto(th, "meta")
      <3>1. PICK n \in {disk[s].journal, accepted[s]} :
             /\ run[s].state = IF op[th].kind = "stop" THEN "draining" ELSE "interrupted"
             /\ run[s].frames <= n /\ Row(s, [run[s] EXCEPT !.path = TRUE, !.frames = n])
        BY <2>1
      <3>2. run'[s] = [run[s] EXCEPT !.path = TRUE, !.frames = n]
        BY <1>3, <3>1 DEF Typed, Row
      <3>3. n \in 0..MaxFrames
        BY <1>3, <3>1 DEF Typed, NoFile
      <3>4. RunIs(s, run[s].state, run[s].health, TRUE, n)
        BY <1>3, <3>2, <3>3 DEF Typed, RunIs, RunRow
      <3>5. Walks(th, "meta")
        BY <1>2, <1>3, <2>1, GotoWalks DEF Typed, Goto, Become, Step
      <3> QED
        BY <1>1, <3>1, <3>4, <3>5 DEF FinalizeAudio, OnlyOp, RunIs, memVars
    <2>2. CASE UNCHANGED run /\ Become(th, Failed(op[th]))
      BY <1>1, <1>2, <1>3, <2>2, FailedFailsOn DEF Typed, KindFits, Saving, Indexed, Become,
         FinalizeAudio,
             OnlyOp, memVars
    <2> QED
      BY <1>1, <1>2, <2>1, <2>2 DEF FinalizeAudio, Sub
  <1>5. Writes(s)
    BY <1>1, <1>2, <1>3 DEF Typed, Past, Writes, At, Goto, Become, Row, Sub, Fine, Fault, Errs,
       OnlyOp, memVars, FinalizeAudio
  <1>6. Fits(s)
    BY <1>2, <1>3, <1>4 DEF Typed, Fits, RunIs, RunRow, RecRow, IndexRow, Files, NoFile, Unfinished,
       Terminal, Health
  <1>7. Moves(th) /\ GoesOn(th)
    <2>1. op' = [op EXCEPT ![th] = op'[th]]
      <3>1. \E o : op' = [op EXCEPT ![th] = o]
        BY <1>2 DEF At, Goto, Become, Row, Fine, Fault, Errs, OnlyOp, memVars, FinalizeAudio
      <3> QED
        BY <1>2, <1>3, <3>1 DEF Typed
    <2>2. op'[th] \in Op /\ (op'[th].pc = "idle" => op'[th] = Idle)
      BY <1>2, <1>3, <1>4, BlankFits DEF Typed, Walks, OpIs, Rests, FailsOn
    <2>3. budget' \in [fault : 0..MaxFault, crash : 0..MaxCrash]
      BY <1>2, <1>3 DEF Typed, At, Goto, Become, Row, Fine, Fault, Errs, OnlyOp, memVars,
         FinalizeAudio
    <2>4. GoesOn(th)
      BY <1>2, <1>3, <1>4 DEF GoesOn, Walks, OpIs, Rests, FailsOn, Idle, RunIs, KindFits, Starting,
         Purging, Ending, Indexed, Saving, Retaining, MicStep
    <2> QED
      BY <2>1, <2>2, <2>3, <2>4 DEF Moves
  <1>8. Knows(op[th])'
    <2>1. KindFits(op[th])'
      BY <1>2, <1>3, <1>4 DEF Typed, Walks, OpIs, Rests, FailsOn, Idle, RunIs, KindFits, Starting,
         Purging, Ending, Indexed, Saving, Retaining, MicStep
    <2>2. StartKnows(op[th])'
      BY <1>2, <1>3, <1>4 DEF Typed, Walks, OpIs, Rests, FailsOn, Idle, RunIs, KindFits, StartKnows,
         Stored, Dated, Starting
    <2>3. PurgeKnows(op[th])'
      BY <1>2, <1>3, <1>4 DEF Typed, Walks, OpIs, Rests, FailsOn, Idle, RunIs, KindFits, StartKnows,
         PurgeKnows, Stored, Dated, Starting, Present, NoFiles, Purging
    <2>4. EndKnows(op[th])'
      <3>1. \A t \in Session \ {s} : run'[t] = run[t]
        BY <1>3, <1>5 DEF Typed, Writes
      <3>2. run'[s].state = run[s].state
        BY <1>4 DEF RunIs
      <3>3. \A t \in Session : run'[t].state = run[t].state
        BY <3>1, <3>2
      <3>4. \/ Walks(th, "meta") /\ (op[th].kind # "stop" => run[s].state = "interrupted")
            \/ FailsOn(th)
        BY <1>4
      <3>5. op[th].todo \subseteq Session
        BY <1>3 DEF Typed
      <3> QED
        BY <1>2, <1>3, <3>3, <3>4, <3>5 DEF Walks, OpIs, Rests, FailsOn, Idle, EndKnows, EndState,
           KindFits, Present, Purging, Ending, Saving, Indexed, Retaining
    <2>5. AudioKnows(op[th])'
      BY <1>2, <1>3, <1>4 DEF Typed, Walks, OpIs, Rests, FailsOn, Idle, RunIs, KindFits, StartKnows,
         EndKnows, AudioKnows, EndState, Stored, Survives, Kept, NoFile, Ending, Saving, Indexed,
         Retaining, Starting
    <2> QED
      BY <2>1, <2>2, <2>3, <2>4, <2>5 DEF Knows
  <1>9. Stored(s)'
    BY <1>2, <1>3, <1>4 DEF Typed, Stored, Walks, OpIs, Rests, FailsOn, Idle, RunIs, KindFits,
       StartKnows, EndKnows, AudioKnows, EndState, Survives, Dated, Kept, Present, NoFile, Backed,
       PurgeKnows, Final, NoFiles, NoIndex, NoRec, Unfinished, Buried, Starting, Purging, Ending,
       Indexed, Saving, Retaining, MicStep
  <1>10. Held(th, s)'
    BY <1>2, <1>3, <1>4 DEF Typed, Held, Handing, Sub, Walks, OpIs, Rests, FailsOn, Idle, RunIs,
       KindFits, StartKnows, EndKnows, EndState, Stored, Dated, Present, Unfinished, Terminal,
       RunRow, Past, Starting, Purging, Ending, Indexed, Saving, Retaining, MicStep
  <1> QED
    BY <1>1, <1>2, <1>3, <1>4, <1>5, <1>6, <1>7, <1>8, <1>9, <1>10, WorkKeeps DEF AtWork, Step, Sub

\* The path, the key id and the format are indexed.
LEMMA IndexMetaKeeps ==
    ASSUME CaptureAssumption, CaptureInv, NEW th \in Thread, IndexMeta(th)
    PROVE  CaptureInv'
  <1>1. PICK s \in Session : s = Sub(th)
    BY DEF CaptureInv, Knows, KindFits, Sub, At, Thread, IndexMeta, Indexing
  <1>2. op[th].pc = "meta" /\ op[th].s = s /\ th \in Thread
    BY <1>1 DEF Sub, At, Thread, IndexMeta, Indexing
  <1>3. /\ Typed(th, s) /\ Stored(s) /\ Held(th, s)
        /\ KindFits(op[th]) /\ StartKnows(op[th]) /\ PurgeKnows(op[th])
        /\ EndKnows(op[th]) /\ AudioKnows(op[th])
        /\ th = "mic" => op[th].pc \in MicStep /\ op[th].kind \in {"interrupt", "teardown"}
    BY <1>1, <1>2, HereHolds DEF AtWork, Step
  <1>4. /\ UNCHANGED <<run, rec, text, tomb, disk, active, detached, ui, col, accepted, past>>
        /\ \/ /\ Walks(th, "ledger")
              /\ IndexIs(s, TRUE, index[s].ledger)
           \/ FailsOn(th) /\ UNCHANGED index
    <2>1. CASE index' = [index EXCEPT ![s].path = TRUE] /\ Goto(th, "ledger")
      BY <1>1, <1>2, <1>3, <2>1, GotoWalks, FailedFailsOn DEF Typed, KindFits, Saving, Indexed,
         IndexIs, IndexRow, Step, At, Goto, Become, Sub, Fine, Fault, memVars, IndexMeta, Indexing
    <2>2. CASE UNCHANGED index /\ Become(th, Failed(op[th]))
      BY <1>1, <1>2, <1>3, <2>2, GotoWalks, FailedFailsOn DEF Typed, KindFits, Saving, Indexed,
         IndexIs, Step, At, Goto, Become, Sub, Fine, Fault, memVars, IndexMeta, Indexing
    <2> QED
      BY <1>1, <1>2, <2>1, <2>2 DEF At, Goto, Become, Sub, Fine, Fault, memVars, IndexMeta, Indexing
  <1>5. Writes(s)
    BY <1>1, <1>2, <1>3 DEF Typed, Past, Writes, At, Goto, Become, Sub, Fine, Fault, memVars,
       IndexMeta, Indexing
  <1>6. Fits(s)
    BY <1>2, <1>3, <1>4 DEF Typed, Fits, IndexIs, RunRow, RecRow, IndexRow, Files, NoFile,
       Unfinished, Terminal, Health
  <1>7. Moves(th) /\ GoesOn(th)
    <2>1. op' = [op EXCEPT ![th] = op'[th]]
      <3>1. \E o : op' = [op EXCEPT ![th] = o]
        BY <1>2 DEF At, Goto, Become, Sub, Fine, Fault, memVars, IndexMeta, Indexing
      <3> QED
        BY <1>2, <1>3, <3>1 DEF Typed
    <2>2. op'[th] \in Op /\ (op'[th].pc = "idle" => op'[th] = Idle)
      BY <1>2, <1>3, <1>4, BlankFits DEF Typed, Walks, OpIs, Rests, FailsOn
    <2>3. budget' \in [fault : 0..MaxFault, crash : 0..MaxCrash]
      BY <1>2, <1>3 DEF Typed, At, Goto, Become, Sub, Fine, Fault, memVars, IndexMeta, Indexing
    <2>4. GoesOn(th)
      BY <1>2, <1>3, <1>4 DEF GoesOn, Walks, OpIs, Rests, FailsOn, Idle, IndexIs, KindFits,
         Starting, Purging, Ending, Indexed, Saving, Retaining, MicStep
    <2> QED
      BY <2>1, <2>2, <2>3, <2>4 DEF Moves
  <1>8. Knows(op[th])'
    BY <1>2, <1>3, <1>4 DEF Typed, Knows, Walks, OpIs, Rests, FailsOn, Idle, IndexIs, KindFits,
       StartKnows, Stored, Dated, Starting, PurgeKnows, Present, NoFiles, Purging, EndKnows,
       EndState, Unfinished, Ending, Saving, Indexed, Retaining, AudioKnows, Survives, Kept, NoFile,
       MicStep
  <1>9. Stored(s)'
    BY <1>2, <1>3, <1>4 DEF Typed, Stored, Walks, OpIs, Rests, FailsOn, Idle, IndexIs, KindFits,
       StartKnows, EndKnows, AudioKnows, EndState, Survives, Dated, Kept, Present, NoFile, Backed,
       PurgeKnows, Final, NoFiles, NoIndex, NoRec, Unfinished, Buried, Starting, Purging, Ending,
       Indexed, Saving, Retaining, MicStep
  <1>10. Held(th, s)'
    BY <1>2, <1>3, <1>4 DEF Typed, Held, Handing, Sub, Walks, OpIs, Rests, FailsOn, Idle, IndexIs,
       KindFits, StartKnows, EndKnows, EndState, Stored, Dated, Present, Unfinished, Terminal,
       RunRow, Past, Starting, Purging, Ending, Indexed, Saving, Retaining, MicStep
  <1> QED
    BY <1>1, <1>2, <1>3, <1>4, <1>5, <1>6, <1>7, <1>8, <1>9, <1>10, WorkKeeps DEF AtWork, Step, Sub

\* record_source_audio_retention_chunks_strict.
LEMMA IndexLedgerKeeps ==
    ASSUME CaptureAssumption, CaptureInv, NEW th \in Thread, IndexLedger(th)
    PROVE  CaptureInv'
  <1>1. PICK s \in Session : s = Sub(th)
    BY DEF CaptureInv, Knows, KindFits, Sub, At, Thread, IndexLedger, Indexing
  <1>2. op[th].pc = "ledger" /\ op[th].s = s /\ th \in Thread
    BY <1>1 DEF Sub, At, Thread, IndexLedger, Indexing
  <1>3. /\ Typed(th, s) /\ Stored(s) /\ Held(th, s)
        /\ KindFits(op[th]) /\ StartKnows(op[th]) /\ PurgeKnows(op[th])
        /\ EndKnows(op[th]) /\ AudioKnows(op[th])
        /\ th = "mic" => op[th].pc \in MicStep /\ op[th].kind \in {"interrupt", "teardown"}
    BY <1>1, <1>2, HereHolds DEF AtWork, Step
  <1>4. /\ UNCHANGED <<run, rec, text, tomb, disk, active, detached, ui, col, accepted, past>>
        /\ \/ /\ Walks(th, "read")
              /\ IndexIs(s, index[s].path, "kept")
           \/ FailsOn(th) /\ UNCHANGED index
    <2>1. CASE index' = [index EXCEPT ![s].ledger = "kept"] /\ Goto(th, "read")
      BY <1>1, <1>2, <1>3, <2>1, GotoWalks, FailedFailsOn DEF Typed, KindFits, Saving, Indexed,
         IndexIs, IndexRow, Step, At, Goto, Become, Sub, Fine, Fault, memVars, IndexLedger, Indexing
    <2>2. CASE UNCHANGED index /\ Become(th, Failed(op[th]))
      BY <1>1, <1>2, <1>3, <2>2, GotoWalks, FailedFailsOn DEF Typed, KindFits, Saving, Indexed,
         IndexIs, Step, At, Goto, Become, Sub, Fine, Fault, memVars, IndexLedger, Indexing
    <2> QED
      BY <1>1, <1>2, <2>1, <2>2 DEF At, Goto, Become, Sub, Fine, Fault, memVars, IndexLedger,
         Indexing
  <1>5. Writes(s)
    BY <1>1, <1>2, <1>3 DEF Typed, Past, Writes, At, Goto, Become, Sub, Fine, Fault, memVars,
       IndexLedger, Indexing
  <1>6. Fits(s)
    BY <1>2, <1>3, <1>4 DEF Typed, Fits, IndexIs, RunRow, RecRow, IndexRow, Files, NoFile,
       Unfinished, Terminal, Health
  <1>7. Moves(th) /\ GoesOn(th)
    BY <1>2, <1>3, <1>4, BlankFits DEF Typed, Moves, GoesOn, Walks, OpIs, Rests, FailsOn, KindFits,
       At, Goto, Become, Sub, Fine, Fault, memVars, IndexLedger, Indexing, Starting, Purging,
       Ending, Indexed, Saving, Retaining, MicStep
  <1>8. Knows(op[th])'
    BY <1>2, <1>3, <1>4 DEF Typed, Knows, Walks, OpIs, Rests, FailsOn, Idle, IndexIs, KindFits,
       StartKnows, Stored, Dated, Starting, PurgeKnows, Present, NoFiles, Purging, EndKnows,
       EndState, Unfinished, Ending, Saving, Indexed, Retaining, AudioKnows, Survives, Kept, NoFile,
       MicStep
  <1>9. Stored(s)'
    BY <1>2, <1>3, <1>4 DEF Typed, Stored, Walks, OpIs, Rests, FailsOn, Idle, IndexIs, KindFits,
       StartKnows, EndKnows, AudioKnows, EndState, Survives, Dated, Kept, Present, NoFile, Backed,
       PurgeKnows, Final, NoFiles, NoIndex, NoRec, Unfinished, Buried, Starting, Purging, Ending,
       Indexed, Saving, Retaining, MicStep
  <1>10. Held(th, s)'
    BY <1>2, <1>3, <1>4 DEF Typed, Held, Handing, Sub, Walks, OpIs, Rests, FailsOn, Idle, IndexIs,
       KindFits, StartKnows, EndKnows, EndState, Stored, Dated, Present, Unfinished, Terminal,
       RunRow, Past, Starting, Purging, Ending, Indexed, Saving, Retaining, MicStep
  <1> QED
    BY <1>1, <1>2, <1>3, <1>4, <1>5, <1>6, <1>7, <1>8, <1>9, <1>10, WorkKeeps DEF AtWork, Step, Sub

\* get_session: the catalogue row is read.
LEMMA ReadRecordKeeps ==
    ASSUME CaptureAssumption, CaptureInv, NEW th \in Thread, ReadRecord(th)
    PROVE  CaptureInv'
  <1>1. PICK s \in Session : s = Sub(th)
    BY DEF CaptureInv, Knows, KindFits, Sub, At, Thread, ReadRecord
  <1>2. op[th].pc = "read" /\ op[th].s = s /\ th \in Thread
    BY <1>1 DEF Sub, At, Thread, ReadRecord
  <1>3. /\ Typed(th, s) /\ Stored(s) /\ Held(th, s)
        /\ KindFits(op[th]) /\ StartKnows(op[th]) /\ PurgeKnows(op[th])
        /\ EndKnows(op[th]) /\ AudioKnows(op[th])
        /\ th = "mic" => op[th].pc \in MicStep /\ op[th].kind \in {"interrupt", "teardown"}
    BY <1>1, <1>2, HereHolds DEF AtWork, Step
  <1>4. /\ UNCHANGED <<run, rec, index, text, tomb, disk, active, detached, ui, col, accepted, past>>
        /\ \/ Walks(th, "write")
           \/ FailsOn(th)
    <2>1. CASE Become(th, [op[th] EXCEPT !.pc = "write", !.trashed = rec[s].trashed])
      <3>1. Walks(th, "write")
        <4>1. rec[s].trashed \in BOOLEAN
          BY <1>3 DEF Typed, RecRow
        <4> QED
          BY <1>1, <1>2, <1>3, <2>1, <4>1, SetWalks DEF Typed, Become, Step
      <3> QED
        BY <1>1, <1>2, <1>3, <2>1, <3>1 DEF At, Become, Sub, Fine, Fault, OnlyOp, memVars,
           ReadRecord
    <2>2. CASE Become(th, Failed(op[th]))
      BY <1>1, <1>2, <1>3, <2>2, GotoWalks, FailedFailsOn DEF Typed, KindFits, Saving, Indexed,
         Step, At, Become, Sub, Fine, Fault, OnlyOp, memVars, ReadRecord
    <2> QED
      BY <1>1, <1>2, <2>1, <2>2 DEF At, Become, Sub, Fine, Fault, OnlyOp, memVars, ReadRecord
  <1>5. Writes(s)
    BY <1>1, <1>2, <1>3 DEF Typed, Past, Writes, At, Become, Sub, Fine, Fault, OnlyOp, memVars,
       ReadRecord
  <1>6. Fits(s)
    BY <1>2, <1>3, <1>4 DEF Typed, Fits, RunRow, RecRow, IndexRow, Files, NoFile, Unfinished,
       Terminal, Health
  <1>7. Moves(th) /\ GoesOn(th)
    BY <1>2, <1>3, <1>4, BlankFits DEF Typed, Moves, GoesOn, Walks, OpIs, Rests, FailsOn, KindFits,
       At, Become, Sub, Fine, Fault, OnlyOp, memVars, ReadRecord, Starting, Purging, Ending,
       Indexed, Saving, Retaining, MicStep
  <1>8. Knows(op[th])'
    BY <1>2, <1>3, <1>4 DEF Typed, Knows, Walks, OpIs, Rests, FailsOn, Idle, KindFits, StartKnows,
       Stored, Dated, Starting, PurgeKnows, Present, NoFiles, Purging, EndKnows, EndState,
       Unfinished, Ending, Saving, Indexed, Retaining, AudioKnows, Survives, Kept, NoFile, MicStep
  <1>9. Stored(s)'
    BY <1>2, <1>3, <1>4 DEF Typed, Stored, Walks, OpIs, Rests, FailsOn, Idle, KindFits, StartKnows,
       EndKnows, AudioKnows, EndState, Survives, Dated, Kept, Present, NoFile, Backed, PurgeKnows,
       Final, NoFiles, NoIndex, NoRec, Unfinished, Buried, Starting, Purging, Ending, Indexed,
       Saving, Retaining, MicStep
  <1>10. Held(th, s)'
    BY <1>2, <1>3, <1>4 DEF Typed, Held, Handing, Sub, Walks, OpIs, Rests, FailsOn, Idle, KindFits,
       StartKnows, EndKnows, EndState, Stored, Dated, Present, Unfinished, Terminal, RunRow, Past,
       Starting, Purging, Ending, Indexed, Saving, Retaining, MicStep
  <1> QED
    BY <1>1, <1>2, <1>3, <1>4, <1>5, <1>6, <1>7, <1>8, <1>9, <1>10, WorkKeeps DEF AtWork, Step, Sub

\* insert_session: the whole row is written back.
LEMMA WriteRecordKeeps ==
    ASSUME CaptureAssumption, CaptureInv, NEW th \in Thread, WriteRecord(th)
    PROVE  CaptureInv'
  <1>1. PICK s \in Session : s = Sub(th)
    BY DEF CaptureInv, Knows, KindFits, Sub, At, Thread, WriteRecord
  <1>2. op[th].pc = "write" /\ op[th].s = s /\ th \in Thread
    BY <1>1 DEF Sub, At, Thread, WriteRecord
  <1>3. /\ Typed(th, s) /\ Stored(s) /\ Held(th, s)
        /\ KindFits(op[th]) /\ StartKnows(op[th]) /\ PurgeKnows(op[th])
        /\ EndKnows(op[th]) /\ AudioKnows(op[th])
        /\ th = "mic" => op[th].pc \in MicStep /\ op[th].kind \in {"interrupt", "teardown"}
    BY <1>1, <1>2, HereHolds DEF AtWork, Step
  <1>4. /\ UNCHANGED <<run, index, text, tomb, disk, active, detached, ui, col, accepted, past>>
        /\ \/ /\ Walks(th, IF op[th].kind = "stop" THEN "complete" ELSE "remove_journal")
              /\ rec'[s] \in RecRow /\ rec'[s].status = EndState(op[th])
           \/ FailsOn(th) /\ UNCHANGED rec
    <2>1. CASE Goto(th, IF op[th].kind = "stop" THEN "complete" ELSE "remove_journal")
               /\ rec' = [rec EXCEPT ![s] = [status |-> IF op[th].kind = "stop" THEN "completed"
                                                       ELSE "interrupted",
                                             trashed |-> op[th].trashed]]
      <3>1. Walks(th, IF op[th].kind = "stop" THEN "complete" ELSE "remove_journal")
        BY <1>1, <1>2, <1>3, <2>1, GotoWalks, FailedFailsOn DEF Typed, KindFits, Saving, Indexed,
           Step, Goto, Become, WriteRecord, EndState
      <3>2. rec'[s] \in RecRow /\ rec'[s].status = EndState(op[th])
        BY <1>1, <1>2, <1>3, <2>1 DEF Typed, RecRow, Op, memVars, WriteRecord, EndState
      <3> QED
        BY <1>1, <1>2, <1>3, <2>1, <3>1, <3>2 DEF At, Goto, Become, Sub, Fine, Fault, memVars,
           WriteRecord
    <2>2. CASE UNCHANGED rec /\ Become(th, Failed(op[th]))
      BY <1>1, <1>2, <1>3, <2>2, GotoWalks, FailedFailsOn DEF Typed, KindFits, Saving, Indexed,
         Step, At, Goto, Become, Sub, Fine, Fault, memVars, WriteRecord
    <2> QED
      BY <1>1, <1>2, <2>1, <2>2 DEF At, Goto, Become, Sub, Fine, Fault, memVars, WriteRecord
  <1>5. Writes(s)
    BY <1>1, <1>2, <1>3 DEF Typed, Past, Writes, At, Goto, Become, Sub, Fine, Fault, memVars,
       WriteRecord
  <1>6. Fits(s)
    BY <1>2, <1>3, <1>4 DEF Typed, Fits, RunRow, RecRow, IndexRow, Files, NoFile, Unfinished,
       Terminal, Health
  <1>7. Moves(th) /\ GoesOn(th)
    BY <1>2, <1>3, <1>4, BlankFits DEF Typed, Moves, GoesOn, Walks, OpIs, Rests, FailsOn, KindFits,
       At, Goto, Become, Fine, Fault, memVars, WriteRecord, Starting, Purging, Ending, Indexed,
       Saving, Retaining, MicStep
  <1>8. Knows(op[th])'
    BY <1>2, <1>3, <1>4 DEF Typed, Knows, Walks, OpIs, Rests, FailsOn, Idle, KindFits, StartKnows,
       Stored, Dated, Starting, PurgeKnows, Present, NoFiles, Purging, EndKnows, EndState,
       Unfinished, Ending, Saving, Indexed, Retaining, AudioKnows, Survives, Kept, NoFile, MicStep
  <1>9. Stored(s)'
    BY <1>2, <1>3, <1>4 DEF Typed, Stored, Walks, OpIs, Rests, FailsOn, Idle, KindFits, StartKnows,
       EndKnows, AudioKnows, EndState, Survives, Dated, Kept, Present, NoFile, Backed, PurgeKnows,
       Final, NoFiles, NoIndex, NoRec, Unfinished, Buried, Starting, Purging, Ending, Indexed,
       Saving, Retaining, MicStep
  <1>10. Held(th, s)'
    BY <1>2, <1>3, <1>4 DEF Typed, Held, Handing, Sub, Walks, OpIs, Rests, FailsOn, Idle, KindFits,
       StartKnows, EndKnows, EndState, Stored, Dated, Present, Unfinished, Terminal, RunRow, Past,
       Starting, Purging, Ending, Indexed, Saving, Retaining, MicStep
  <1> QED
    BY <1>1, <1>2, <1>3, <1>4, <1>5, <1>6, <1>7, <1>8, <1>9, <1>10, WorkKeeps DEF AtWork, Step, Sub

\* complete_run.
LEMMA CompleteRunKeeps ==
    ASSUME CaptureAssumption, CaptureInv, NEW th \in Thread, CompleteRun(th)
    PROVE  CaptureInv'
  <1>1. PICK s \in Session : s = Sub(th)
    BY DEF CaptureInv, Knows, KindFits, Sub, At, Thread, CompleteRun
  <1>2. op[th].pc = "complete" /\ op[th].s = s /\ th \in Thread
    BY <1>1 DEF Sub, At, Thread, CompleteRun
  <1>3. /\ Typed(th, s) /\ Stored(s) /\ Held(th, s)
        /\ KindFits(op[th]) /\ StartKnows(op[th]) /\ PurgeKnows(op[th])
        /\ EndKnows(op[th]) /\ AudioKnows(op[th])
        /\ th = "mic" => op[th].pc \in MicStep /\ op[th].kind \in {"interrupt", "teardown"}
    BY <1>1, <1>2, HereHolds DEF AtWork, Step
  <1>4. /\ UNCHANGED <<rec, index, text, tomb, disk, active, detached, ui, col, accepted, past>>
        /\ \/ /\ Walks(th, "remove_journal")
              /\ run[s].state = "draining"
              /\ RunIs(s, "completed", "off", run[s].path, run[s].frames)
           \/ FailsOn(th) /\ UNCHANGED run
    <2>1. CASE run[s].state = "draining"
               /\ Row(s, [run[s] EXCEPT !.state = "completed", !.health = "off"])
               /\ Goto(th, "remove_journal")
      BY <1>1, <1>2, <1>3, <2>1, GotoWalks, FailedFailsOn DEF Typed, KindFits, Saving, Indexed,
         RunIs, RunRow, Unfinished, Terminal, Health, Step, At, Goto, Become, Row, Sub, Fine, Fault,
         Errs, OnlyOp, memVars, CompleteRun
    <2>2. CASE UNCHANGED run /\ Become(th, Failed(op[th]))
      BY <1>1, <1>2, <1>3, <2>2, GotoWalks, FailedFailsOn DEF Typed, KindFits, Saving, Indexed,
         RunIs, Step, At, Goto, Become, Row, Sub, Fine, Fault, Errs, OnlyOp, memVars, CompleteRun
    <2> QED
      BY <1>1, <1>2, <2>1, <2>2 DEF At, Goto, Become, Row, Sub, Fine, Fault, Errs, OnlyOp, memVars,
         CompleteRun
  <1>5. Writes(s)
    BY <1>1, <1>2, <1>3 DEF Typed, Past, Writes, At, Goto, Become, Row, Sub, Fine, Fault, Errs,
       OnlyOp, memVars, CompleteRun
  <1>6. Fits(s)
    BY <1>2, <1>3, <1>4 DEF Typed, Fits, RunIs, RunRow, RecRow, IndexRow, Files, NoFile, Unfinished,
       Terminal, Health
  <1>7. Moves(th) /\ GoesOn(th)
    BY <1>2, <1>3, <1>4, BlankFits DEF Typed, Moves, GoesOn, Walks, OpIs, Rests, FailsOn, KindFits,
       At, Goto, Become, Row, Fine, Fault, Errs, OnlyOp, memVars, CompleteRun, Starting, Purging,
       Ending, Indexed, Saving, Retaining, MicStep
  <1>8. Knows(op[th])'
    BY <1>2, <1>3, <1>4 DEF Typed, Knows, Walks, OpIs, Rests, FailsOn, Idle, RunIs, KindFits,
       StartKnows, Stored, Dated, Starting, PurgeKnows, Present, NoFiles, Purging, EndKnows,
       EndState, Unfinished, Ending, Saving, Indexed, Retaining, AudioKnows, Survives, Kept, NoFile,
       MicStep
  <1>9. Stored(s)'
    BY <1>2, <1>3, <1>4 DEF Typed, Stored, Walks, OpIs, Rests, FailsOn, Idle, RunIs, KindFits,
       StartKnows, EndKnows, AudioKnows, EndState, Survives, Dated, Kept, Present, NoFile, Backed,
       PurgeKnows, Final, NoFiles, NoIndex, NoRec, Unfinished, Buried, Starting, Purging, Ending,
       Indexed, Saving, Retaining, MicStep
  <1>10. Held(th, s)'
    BY <1>2, <1>3, <1>4 DEF Typed, Held, Handing, Sub, Walks, OpIs, Rests, FailsOn, Idle, RunIs,
       KindFits, StartKnows, EndKnows, EndState, Stored, Dated, Present, Unfinished, Terminal,
       RunRow, Past, Starting, Purging, Ending, Indexed, Saving, Retaining, MicStep
  <1> QED
    BY <1>1, <1>2, <1>3, <1>4, <1>5, <1>6, <1>7, <1>8, <1>9, <1>10, WorkKeeps DEF AtWork, Step, Sub

\* The journal goes once its chunks are indexed.
LEMMA RemoveJournalKeeps ==
    ASSUME CaptureAssumption, CaptureInv, NEW th \in Thread, RemoveJournal(th)
    PROVE  CaptureInv'
  <1>1. PICK s \in Session : s = Sub(th)
    BY DEF CaptureInv, Knows, KindFits, Sub, At, Thread, RemoveJournal
  <1>2. op[th].pc = "remove_journal" /\ op[th].s = s /\ th \in Thread
    BY <1>1 DEF Sub, At, Thread, RemoveJournal
  <1>3. /\ Typed(th, s) /\ Stored(s) /\ Held(th, s)
        /\ KindFits(op[th]) /\ StartKnows(op[th]) /\ PurgeKnows(op[th])
        /\ EndKnows(op[th]) /\ AudioKnows(op[th])
        /\ th = "mic" => op[th].pc \in MicStep /\ op[th].kind \in {"interrupt", "teardown"}
    BY <1>1, <1>2, HereHolds DEF AtWork, Step
  <1>4. /\ UNCHANGED <<run, rec, index, text, tomb, active, ui, col, accepted, past>>
        /\ detached' \in {detached, detached \ {s}}
        /\ Rests(th) \/ (op[th].kind = "stop" /\ Walks(th, "retain_files"))
           \/ (op[th].kind \in {"recover", "startup"} /\ Walks(th, "pick"))
        /\ \/ DiskIs(s, NoFile, disk[s].chunks, disk[s].key)
           \/ UNCHANGED disk
    <2>1. CASE disk' = [disk EXCEPT ![s].journal = NoFile]
      <3>1. DiskIs(s, NoFile, disk[s].chunks, disk[s].key)
        BY <1>1, <1>2, <1>3, <2>1 DEF Typed, DiskIs, Files, NoFile, dbVars, RemoveJournal
      <3>2. detached' \in {detached, detached \ {s}}
        BY <1>1, <1>2, <1>3, <2>1 DEF Typed, DiskIs, dbVars, RemoveJournal
      <3>3. Rests(th) \/ (op[th].kind = "stop" /\ Walks(th, "retain_files"))
           \/ (op[th].kind \in {"recover", "startup"} /\ Walks(th, "pick"))
        <4>1. CASE op[th].kind = "stop"
          <5>1. \/ op' = [op EXCEPT ![th] = [op[th] EXCEPT !.pc = "retain_files"]]
                \/ op' = [op EXCEPT ![th] = Idle]
            BY <4>1 DEF RemoveJournal, Become
          <5>2. op \in [Thread -> Op] /\ th \in Thread
            BY <1>2, <1>3 DEF Typed
          <5>3. op'[th] = Idle \/ Walks(th, "retain_files")
            BY <5>1, <5>2, GotoWalks DEF Step
          <5> QED
            BY <4>1, <5>3 DEF Rests
        <4>2. CASE op[th].kind \in {"recover", "startup"}
          BY <1>1, <1>2, <1>3, <2>1, <4>2, GotoWalks DEF Typed, RemoveJournal, Become, Rests, Step
        <4>3. CASE op[th].kind \in {"interrupt", "teardown"}
          <5>1. op' = [op EXCEPT ![th] = Idle]
            BY <4>3 DEF RemoveJournal, Become
          <5>2. op \in [Thread -> Op] /\ th \in Thread
            BY <1>2, <1>3 DEF Typed
          <5>3. op'[th] = Idle
            BY <5>1, <5>2
          <5> QED
            BY <5>3 DEF Rests
        <4> QED
          BY <1>2, <1>3, <4>1, <4>2, <4>3 DEF KindFits, Saving, Indexed
      <3> QED
        BY <1>1, <1>2, <1>3, <2>1, <3>1, <3>2, <3>3 DEF At, Become, Sub, Fine, Fault, dbVars,
           RemoveJournal
    <2>2. CASE UNCHANGED disk
      <3>1. UNCHANGED disk
        BY <1>1, <1>2, <1>3, <2>2 DEF Typed, DiskIs, dbVars, RemoveJournal
      <3>2. detached' \in {detached, detached \ {s}}
        BY <1>1, <1>2, <1>3, <2>2 DEF Typed, DiskIs, dbVars, RemoveJournal
      <3>3. Rests(th) \/ (op[th].kind = "stop" /\ Walks(th, "retain_files"))
           \/ (op[th].kind \in {"recover", "startup"} /\ Walks(th, "pick"))
        <4>1. CASE op[th].kind = "stop"
          <5>1. \/ op' = [op EXCEPT ![th] = [op[th] EXCEPT !.pc = "retain_files"]]
                \/ op' = [op EXCEPT ![th] = Idle]
            BY <4>1 DEF RemoveJournal, Become
          <5>2. op \in [Thread -> Op] /\ th \in Thread
            BY <1>2, <1>3 DEF Typed
          <5>3. op'[th] = Idle \/ Walks(th, "retain_files")
            BY <5>1, <5>2, GotoWalks DEF Step
          <5> QED
            BY <4>1, <5>3 DEF Rests
        <4>2. CASE op[th].kind \in {"recover", "startup"}
          BY <1>1, <1>2, <1>3, <2>2, <4>2, GotoWalks DEF Typed, RemoveJournal, Become, Rests, Step
        <4>3. CASE op[th].kind \in {"interrupt", "teardown"}
          <5>1. op' = [op EXCEPT ![th] = Idle]
            BY <4>3 DEF RemoveJournal, Become
          <5>2. op \in [Thread -> Op] /\ th \in Thread
            BY <1>2, <1>3 DEF Typed
          <5>3. op'[th] = Idle
            BY <5>1, <5>2
          <5> QED
            BY <5>3 DEF Rests
        <4> QED
          BY <1>2, <1>3, <4>1, <4>2, <4>3 DEF KindFits, Saving, Indexed
      <3> QED
        BY <1>1, <1>2, <1>3, <2>2, <3>1, <3>2, <3>3 DEF At, Become, Sub, Fine, Fault, dbVars,
           RemoveJournal
    <2> QED
      BY <1>1, <1>2, <2>1, <2>2 DEF At, Become, Sub, Fine, Fault, dbVars, RemoveJournal
  <1>5. Writes(s)
    BY <1>1, <1>2, <1>3 DEF Typed, Past, Writes, At, Become, Sub, Fine, Fault, dbVars, RemoveJournal
  <1>6. Fits(s)
    BY <1>2, <1>3, <1>4 DEF Typed, Fits, DiskIs, RunRow, RecRow, IndexRow, Files, NoFile,
       Unfinished, Terminal, Health
  <1>7. Moves(th) /\ GoesOn(th)
    BY <1>2, <1>3, <1>4, BlankFits DEF Typed, Moves, GoesOn, Walks, OpIs, Rests, KindFits, At,
       Become, Fine, Fault, dbVars, RemoveJournal, Starting, Purging, Ending, Indexed, Saving,
       Retaining, MicStep
  <1>8. Knows(op[th])'
    BY <1>2, <1>3, <1>4 DEF Typed, Knows, Walks, OpIs, Rests, Idle, DiskIs, KindFits, StartKnows,
       Stored, Dated, Starting, PurgeKnows, Present, NoFiles, Purging, EndKnows, EndState,
       Unfinished, Ending, Saving, Indexed, Retaining, AudioKnows, Survives, Kept, NoFile, MicStep
  <1>9. Stored(s)'
    BY <1>2, <1>3, <1>4 DEF Typed, Stored, Walks, OpIs, Rests, Idle, DiskIs, KindFits, StartKnows,
       EndKnows, AudioKnows, EndState, Survives, Dated, Kept, Present, NoFile, Backed, PurgeKnows,
       Final, NoFiles, NoIndex, NoRec, Unfinished, Buried, Starting, Purging, Ending, Indexed,
       Saving, Retaining, MicStep
  <1>10. Held(th, s)'
    BY <1>2, <1>3, <1>4 DEF Typed, Held, Handing, Sub, Walks, OpIs, Rests, Idle, DiskIs, KindFits,
       StartKnows, EndKnows, EndState, Stored, Dated, Present, Unfinished, Terminal, RunRow, Past,
       Starting, Purging, Ending, Indexed, Saving, Retaining, MicStep
  <1> QED
    BY <1>1, <1>2, <1>3, <1>4, <1>5, <1>6, <1>7, <1>8, <1>9, <1>10, WorkKeeps DEF AtWork, Step, Sub

\* report_capture_interrupt_persistence_failure.
LEMMA ReportFailureKeeps ==
    ASSUME CaptureAssumption, CaptureInv, NEW th \in Thread, ReportFailure(th)
    PROVE  CaptureInv'
  <1>1. PICK s \in Session : s = Sub(th)
    BY DEF CaptureInv, Knows, KindFits, Sub, At, Thread, ReportFailure, RegisterDetached
  <1>2. op[th].pc = "report" /\ op[th].s = s /\ th \in Thread
    BY <1>1 DEF Sub, At, Thread, ReportFailure, RegisterDetached
  <1>3. /\ Typed(th, s) /\ Stored(s) /\ Held(th, s)
        /\ KindFits(op[th]) /\ StartKnows(op[th]) /\ PurgeKnows(op[th])
        /\ EndKnows(op[th]) /\ AudioKnows(op[th])
        /\ th = "mic" => op[th].pc \in MicStep /\ op[th].kind \in {"interrupt", "teardown"}
    BY <1>1, <1>2, HereHolds DEF AtWork, Step
  <1>4. /\ UNCHANGED <<rec, index, text, tomb, disk, active, ui, col, accepted, past>>
        /\ Rests(th)
        /\ \/ RunIs(s, run[s].state, "off", run[s].path, run[s].frames) /\ UNCHANGED detached
           \/ UNCHANGED run /\ detached' = detached \cup {s}
    <2>1. CASE Row(s, Blamed(run[s], "off")) /\ UNCHANGED detached
      BY <1>1, <1>2, <1>3, <2>1, GotoWalks, FailedFailsOn DEF Typed, KindFits, Saving, Indexed,
         Rests, RunIs, RunRow, Unfinished, Terminal, Health, Step, Idle, At, Become, Row, Sub, Fine,
         Fault, ReportFailure, RegisterDetached, Blamed
    <2>2. CASE UNCHANGED run /\ detached' = detached \cup {s}
      BY <1>1, <1>2, <1>3, <2>2, GotoWalks, FailedFailsOn DEF Typed, KindFits, Saving, Indexed,
         Rests, RunIs, Step, Idle, At, Become, Row, Sub, Fine, Fault, ReportFailure,
         RegisterDetached
    <2> QED
      BY <1>1, <1>2, <2>1, <2>2 DEF At, Become, Row, Sub, Fine, Fault, ReportFailure,
         RegisterDetached
  <1>5. Writes(s)
    BY <1>1, <1>2, <1>3 DEF Typed, Past, Writes, At, Become, Row, Sub, Fine, Fault, ReportFailure,
       RegisterDetached
  <1>6. Fits(s)
    BY <1>2, <1>3, <1>4 DEF Typed, Fits, RunIs, RunRow, RecRow, IndexRow, Files, NoFile, Unfinished,
       Terminal, Health
  <1>7. Moves(th) /\ GoesOn(th)
    BY <1>2, <1>3, <1>4, BlankFits DEF Typed, Moves, GoesOn, Rests, KindFits, At, Become, Row, Sub,
       Fine, Fault, ReportFailure, RegisterDetached, Starting, Purging, Ending, Indexed, Saving,
       Retaining, MicStep
  <1>8. Knows(op[th])'
    BY <1>2, <1>3, <1>4 DEF Typed, Knows, Rests, Idle, RunIs, KindFits, StartKnows, Stored, Dated,
       Starting, PurgeKnows, Present, NoFiles, Purging, EndKnows, EndState, Unfinished, Ending,
       Saving, Indexed, Retaining, AudioKnows, Survives, Kept, NoFile, MicStep
  <1>9. Stored(s)'
    BY <1>2, <1>3, <1>4 DEF Typed, Stored, Rests, Idle, RunIs, KindFits, StartKnows, EndKnows,
       AudioKnows, EndState, Survives, Dated, Kept, Present, NoFile, Backed, PurgeKnows, Final,
       NoFiles, NoIndex, NoRec, Unfinished, Buried, Starting, Purging, Ending, Indexed, Saving,
       Retaining, MicStep
  <1>10. Held(th, s)'
    BY <1>2, <1>3, <1>4 DEF Typed, Held, Handing, Sub, Rests, Idle, RunIs, KindFits, StartKnows,
       EndKnows, EndState, Stored, Dated, Present, Unfinished, Terminal, RunRow, Past, Starting,
       Purging, Ending, Indexed, Saving, Retaining, MicStep
  <1> QED
    BY <1>1, <1>2, <1>3, <1>4, <1>5, <1>6, <1>7, <1>8, <1>9, <1>10, WorkKeeps DEF AtWork, Step, Sub

-----------------------------------------------------------------------------
(* The theorems. *)

\* The operations that hold the gate.
LEMMA GateKeeps ==
    ASSUME CaptureAssumption, CaptureInv, GateStep
    PROVE  CaptureInv'
  <1>1. CASE \E s \in Session : CreateRun(s)
    BY <1>1, CreateRunKeeps
  <1>2. CASE StoreKey \/ OpenJournal \/ AttachSession \/ StartRemote \/ Rollback
    BY <1>2, StoreKeyKeeps, OpenJournalKeeps, AttachSessionKeeps, StartRemoteKeeps, RollbackKeeps
  <1>3. CASE BeginPurge \/ PurgeFiles \/ PurgeRows \/ PurgeClose
    BY <1>3, BeginPurgeKeeps, PurgeFilesKeeps, PurgeRowsKeeps, PurgeCloseKeeps
  <1>4. CASE RetainFiles \/ RetainKey \/ InterruptLocal
    BY <1>4, RetainFilesKeeps, RetainKeyKeeps, InterruptLocalKeeps
  <1>5. CASE PickNext \/ RecoverRow \/ RecoverAudio \/ Startup \/ ResumePurges
    BY <1>5, PickNextKeeps, RecoverRowKeeps, RecoverAudioKeeps, StartupKeeps, ResumePurgesKeeps
  <1> QED
    BY <1>1, <1>2, <1>3, <1>4, <1>5 DEF GateStep

\* The steps a gate operation and the mic thread's interruption share.
LEMMA EitherKeeps ==
    ASSUME CaptureAssumption, CaptureInv, NEW th \in Thread, EitherStep(th)
    PROVE  CaptureInv'
  <1>1. CASE \/ ShutRemote(th) \/ MarkInterrupted(th) \/ StopJournal(th)
             \/ TeardownJournal(th) \/ TeardownRow(th)
    BY <1>1, ShutRemoteKeeps, MarkInterruptedKeeps, StopJournalKeeps, TeardownJournalKeeps,
       TeardownRowKeeps
  <1>2. CASE FinalizeAudio(th) \/ IndexMeta(th) \/ IndexLedger(th)
    BY <1>2, FinalizeAudioKeeps, IndexMetaKeeps, IndexLedgerKeeps
  <1>3. CASE \/ ReadRecord(th) \/ WriteRecord(th) \/ CompleteRun(th) \/ RemoveJournal(th)
             \/ ReportFailure(th)
    BY <1>3, ReadRecordKeeps, WriteRecordKeeps, CompleteRunKeeps, RemoveJournalKeeps,
       ReportFailureKeeps
  <1> QED
    BY <1>1, <1>2, <1>3 DEF EitherStep

\* What the screen and the microphone ask for.
LEMMA RequestKeeps ==
    ASSUME CaptureAssumption, CaptureInv, Request
    PROVE  CaptureInv'
  <1>1. CASE StartCapture \/ PushBlock \/ PushNotJournaled \/ PushNotRecorded \/ PushBackpressure
    BY <1>1, StartCaptureKeeps, PushBlockKeeps, PushNotJournaledKeeps, PushNotRecordedKeeps,
       PushBackpressureKeeps
  <1>2. CASE \E kind \in {"pause", "resume"} : PausePreflight(kind)
    BY <1>2, PausePreflightKeeps
  <1>3. CASE \E s \in Session : StopCapture(s) \/ InterruptCapture(s) \/ InterruptOwnerless(s)
    BY <1>3, StopCaptureKeeps, InterruptCaptureKeeps, InterruptOwnerlessKeeps
  <1> QED
    BY <1>1, <1>2, <1>3 DEF Request

\* What the library screen asks for.
LEMMA UserKeeps ==
    ASSUME CaptureAssumption, CaptureInv, UserRequest
    PROVE  CaptureInv'
  <1>1. PICK s \in Session : PurgeForever(s) \/ SoftDelete(s) \/ Restore(s) \/ DestroyFiles(s)
    BY DEF UserRequest
  <1> QED
    BY <1>1, PurgeForeverKeeps, SoftDeleteKeeps, DestroyFilesKeeps

\* A step that changes nothing, or leaves every variable the invariant reads.
LEMMA StutterKeeps ==
    ASSUME CaptureInv, UNCHANGED vars
    PROVE  CaptureInv'
  <1>1. TypeOK'
    BY DEF CaptureInv, TypeOK, vars, At
  <1>2. (OneAtWork /\ OwnerHolds /\ DestroyHolds)'
    BY DEF CaptureInv, OneAtWork, OwnerHolds, DestroyHolds, vars, At, Sub
  <1>3. (\A th \in Thread : Knows(op[th]))'
    BY DEF CaptureInv, Knows, KindFits, StartKnows, PurgeKnows, EndKnows, AudioKnows, Kept, Present,
       vars
  <1>4. (\A s \in Session : SessionOK(s))'
    BY DEF CaptureInv, SessionOK, Survives, Backed, Final, Dated, Buried, Owned, Handing, Watched,
       Kept, Present, At, Sub, vars
  <1> QED
    BY <1>1, <1>2, <1>3, <1>4 DEF CaptureInv

\* Every step of the program.
LEMMA CaptureStep ==
    ASSUME CaptureAssumption, CaptureInv, [Next]_vars
    PROVE  CaptureInv'
  <1>1. CASE GateStep
    BY <1>1, GateKeeps
  <1>2. CASE \E th \in Thread : EitherStep(th)
    BY <1>2, EitherKeeps
  <1>3. CASE PauseStep
    BY <1>3, PauseCommitsKeeps, PauseRefusedKeeps, PauseControlFailsKeeps DEF PauseStep
  <1>4. CASE DestroyKey
    BY <1>4, DestroyKeyKeeps
  <1>5. CASE Request
    BY <1>5, RequestKeeps
  <1>6. CASE UserRequest
    BY <1>6, UserKeeps
  <1>7. CASE Collector
    BY <1>7, CollectorHealthKeeps, CollectorTextKeeps, CollectorEndsKeeps DEF Collector
  <1>8. CASE Crash
    BY <1>8, CrashKeeps
  <1>9. CASE UNCHANGED vars
    BY <1>9, StutterKeeps
  <1> QED
    BY <1>1, <1>2, <1>3, <1>4, <1>5, <1>6, <1>7, <1>8, <1>9 DEF Next

\* CaptureInv holds in every behaviour of the program.
LEMMA CaptureInvIsInvariant == Spec => []CaptureInv
  <1>1. Init => CaptureInv
    BY CaptureAssumption, CaptureInit
  <1>2. CaptureInv /\ [Next]_vars => CaptureInv'
    BY CaptureAssumption, CaptureStep
  <1> QED
    BY <1>1, <1>2, PTL DEF Spec

\* CaptureInv says where the accepted audio is.
LEMMA InvKeepsAudio ==
    ASSUME CaptureAssumption, CaptureInv
    PROVE  TypeOK /\ AcceptedAudioSurvives /\ ProgressIsBacked
  <1>1. TypeOK /\ \A s \in Session : SessionOK(s)
    BY DEF CaptureInv
  <1>2. ASSUME NEW s \in Session, index[s].path, index[s].ledger = "kept"
        PROVE  index[s] = [path |-> TRUE, ledger |-> "kept"]
    <2>1. index[s] \in IndexRow
      BY <1>1 DEF TypeOK
    <2> QED
      BY <1>2, <2>1 DEF IndexRow
  <1>3. AcceptedAudioSurvives
    BY <1>1, <1>2 DEF SessionOK, Survives, AcceptedAudioSurvives
  <1>4. ProgressIsBacked
    <2>1. SUFFICES ASSUME NEW s \in Session, Kept(s), disk[s].journal # NoFile
                   PROVE  run[s].frames <= disk[s].journal
      BY DEF ProgressIsBacked
    <2>2. disk[s].journal = accepted[s] /\ run[s].frames <= accepted[s]
      BY <1>1, <2>1 DEF SessionOK, Survives, Backed
    <2> QED
      BY <2>2
  <1> QED
    BY <1>1, <1>3, <1>4

\* CaptureInv says who has an unfinished capture.
LEMMA InvOwnsEnds ==
    ASSUME CaptureAssumption, CaptureInv
    PROVE  UnfinishedHasOwner
  <1>1. SUFFICES ASSUME NEW s \in Session, Up, s \in past.started, run[s].state \in Unfinished
                 PROVE  \/ active.s = s /\ active.state = run[s].state
                        \/ \E th \in Thread : WorksOn(th, s)
                        \/ s \in detached
    BY DEF UnfinishedHasOwner
  <1>2. Owned(s) /\ ~At("gate", "down")
    BY <1>1 DEF CaptureInv, SessionOK, Up
  <1>3. active.s = s => active.state = run[s].state
    BY DEF CaptureInv, OwnerHolds, CaptureAssumption
  <1>4. \A th \in Thread : Handing(th, s) => WorksOn(th, s)
    BY DEF Handing, WorksOn, At
  <1> QED
    BY <1>1, <1>2, <1>3, <1>4 DEF Owned

\* Whatever fails and whenever the process dies, a block push_notebook_capture_session accepted is
\* in the journal or whole in indexed chunks with its key until somebody asked for
\* its erasure; the row's frame count never exceeds what can be delivered, so that
\* finalize_interrupted_audio cannot refuse a recovery; and an unfinished capture
\* is in the slot, in an operation or in the detached registry.
THEOREM CaptureInvariant ==
    Spec => [](TypeOK /\ AcceptedAudioSurvives /\ ProgressIsBacked /\ UnfinishedHasOwner)
  <1>1. CaptureInv => TypeOK /\ AcceptedAudioSurvives /\ ProgressIsBacked /\ UnfinishedHasOwner
    BY CaptureAssumption, InvKeepsAudio, InvOwnsEnds
  <1> QED
    BY <1>1, CaptureInvIsInvariant, PTL

\* A purge, resumed as often as it takes by resume_pending_purges, lifts its
\* tombstone only when no row, index entry, chunk, journal or key is left.
THEOREM PurgesAreFinal == Spec => []PurgeIsFinal
  <1>1. CaptureInv => PurgeIsFinal
    BY DEF CaptureInv, SessionOK, Final, Present, PurgeIsFinal
  <1> QED
    BY <1>1, CaptureInvIsInvariant, PTL

\* Retention takes the audio of a stopped capture only while text stands in for
\* it, and what that text lacks afterwards is a gap of a collector that outlived
\* its join; what was accepted and not taken is on disk, and the row claims no more.
THEOREM AudioHolds == Spec => []AudioIsKept
  <1>1. CaptureInv => AudioIsKept
    <2>1. CaptureInv => RetentionKeepsGaps
      <3>1. CaptureInv => \A s \in past.retained : s \in Session
        BY DEF CaptureInv, TypeOK, Past
      <3> QED
        BY <3>1 DEF CaptureInv, SessionOK, Watched, Dated, Present, RetentionKeepsGaps
    <2> QED
      BY <2>1, CaptureAssumption, InvKeepsAudio DEF AudioIsKept
  <1> QED
    BY <1>1, CaptureInvIsInvariant, PTL

\* An unfinished capture has its owner, and a terminal row reports its provider
\* off: no collector, cleanup or health write crosses the end of its capture,
\* unless the collector outlives its join.
THEOREM EndsHold == Spec => []EndsAreOwned
  <1>1. CaptureInv => EndsAreOwned
    <2>1. CaptureInv => TerminalIsOff
      BY DEF CaptureInv, SessionOK, Watched, TerminalIsOff
    <2> QED
      BY <2>1, CaptureAssumption, InvOwnsEnds DEF EndsAreOwned
  <1> QED
    BY <1>1, CaptureInvIsInvariant, PTL

=============================================================================
