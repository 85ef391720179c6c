---------------------------- MODULE SonioxStream ----------------------------
(***************************************************************************)
(* One realtime lane: the task that owns a provider WebSocket, forwards    *)
(* PCM blocks to it, reconnects when it drops and replays the audio the    *)
(* provider had not confirmed (vt-stt/src/soniox_stream.rs).  A block is a *)
(* number, its place on the capture timeline; every block lasts one unit.  *)
(* The provider and the collector that settles the words are modelled as   *)
(* far as the lane can observe them.                                       *)
(***************************************************************************)
EXTENDS Integers, Sequences, FiniteSets, SequencesExt

CONSTANTS MaxFrame,    \* bound: blocks the capture produces
          Capacity,    \* AUDIO_CHANNEL_CAPACITY
          MaxAttempt,  \* timeouts.reconnect_max_attempts
          Overlap      \* REPLAY_OVERLAP, in blocks

StreamAssumption ==
    /\ MaxFrame \in Nat /\ Capacity \in Nat \ {0}
    /\ MaxAttempt \in Nat \ {0} /\ Overlap \in Nat

VARIABLES
    input,     \* the FFI side: blocks produced, paused there, stopped, lost lane
    queue,     \* audio_tx: blocks accepted and not yet taken by the lane
    control,   \* control_tx: the command not yet taken, or "none"
    conn,      \* where run_stream stands, its attempt count and the outage
    paused,    \* the lane's own pause flag
    rec,       \* StreamRecoveryState
    wire,      \* blocks the current WebSocket carried to the provider
    prov,      \* what the provider processed of wire, and made final
    suppress,  \* suppress_replay_until_provider_ms
    words,     \* blocks whose words are settled, and those in the open tail
    past       \* history: a block left unrecorded, a replay shorter than its
               \* overlap, blocks given up by a long outage

vars == <<input, queue, control, conn, paused, rec, wire, prov, suppress,
          words, past>>

Frame == 1..MaxFrame
Outage == <<"none", "fast", "paced", "long">>
Command == {"Finalize", "Pause", "Resume", "Finish"}
Rank(o) == CHOOSE i \in DOMAIN Outage : Outage[i] = o

StreamTypeOK ==
    /\ input \in [made : 0..MaxFrame, paused : BOOLEAN, stopped : BOOLEAN,
                  cancelled : BOOLEAN]
    /\ queue \in BoundedSeq(Frame, Capacity)
    /\ control \in Command \union {"none"}
    /\ conn.pc \in {"dial", "catchup", "live", "drain", "wait", "over"}
    /\ conn.attempt \in 0..MaxAttempt
    /\ conn.outage \in ToSet(Outage)
    /\ paused \in BOOLEAN
    /\ rec.acked \in 0..rec.next /\ rec.origin \in 0..rec.next
    /\ rec.next \in 0..MaxFrame
    /\ \A i \in DOMAIN rec.sent : rec.sent[i].frame \in Frame
    /\ \A i \in DOMAIN wire : wire[i] \in Frame
    /\ prov.fin \in 0..prov.proc /\ prov.proc \in 0..Len(wire)
    /\ suppress \in Nat
    /\ words.settled \subseteq Frame /\ words.tail \subseteq Frame

Init ==
    /\ input = [made |-> 0, paused |-> FALSE, stopped |-> FALSE,
                cancelled |-> FALSE]
    /\ queue = <<>> /\ control = "none"
    /\ conn = [pc |-> "dial", attempt |-> 0, outage |-> "none"]
    /\ paused = FALSE
    /\ rec = [next |-> 0, acked |-> 0, origin |-> 0, sent |-> <<>>]
    /\ wire = <<>> /\ prov = [proc |-> 0, fin |-> 0] /\ suppress = 0
    /\ words = [settled |-> {}, tail |-> {}]
    /\ past = [skewed |-> FALSE, hollow |-> FALSE, given |-> {}]

-----------------------------------------------------------------------------
(* The capture side.                                                       *)

(* push: a block reaches the lane's channel, or finds it full and ends the *)
(* lane at the live edge (InputDiscontinuity and lane_cancel).             *)
PushPcm ==
    /\ input.made < MaxFrame /\ ~input.paused /\ ~input.stopped
    /\ ~input.cancelled /\ conn.pc # "over"
    /\ LET f == input.made + 1
       IN  \/ /\ Len(queue) < Capacity
              /\ queue' = Append(queue, f)
              /\ input' = [input EXCEPT !.made = f]
           \/ /\ Len(queue) = Capacity
              /\ input' = [input EXCEPT !.made = f, !.cancelled = TRUE]
              /\ UNCHANGED queue
    /\ UNCHANGED <<control, conn, paused, rec, wire, prov, suppress, words,
                   past>>

(* The FFI calls that reach the control channel, one at a time: pause stops *)
(* the pushes before it is enqueued, stop closes the audio input.           *)
Command_(c, in) ==
    /\ control = "none" /\ conn.pc # "over" /\ ~input.stopped
    /\ control' = c /\ input' = in
    /\ UNCHANGED <<queue, conn, paused, rec, wire, prov, suppress, words, past>>

SendControl ==
    \/ Command_("Finalize", input)
    \/ ~input.paused /\ Command_("Pause", [input EXCEPT !.paused = TRUE])
    \/ input.paused /\ Command_("Resume", [input EXCEPT !.paused = FALSE])
    \/ Command_("Finish", [input EXCEPT !.stopped = TRUE])

Cancel ==
    /\ ~input.cancelled /\ conn.pc # "over"
    /\ input' = [input EXCEPT !.cancelled = TRUE]
    /\ UNCHANGED <<queue, control, conn, paused, rec, wire, prov, suppress,
                   words, past>>

-----------------------------------------------------------------------------
(* StreamRecoveryState.                                                    *)

(* Mutant: the lane clock stays where it was when a block is recorded.     *)
RecordedInPlace(r, f) ==
    [r EXCEPT !.sent = Append(@, [end |-> r.next, frame |-> f])]

(* record_sent: the block takes the next place of the lane's own clock.    *)
Recorded(r, f) ==
    [r EXCEPT !.next = @ + 1,
              !.sent = Append(@, [end |-> r.next + 1, frame |-> f])]

(* The blocks that end after a place: those before it are in front of it,  *)
(* and leave one by one.                                                   *)
Later(sent, place) ==
    LET gone == {n \in 0..Len(sent) : \A i \in 1..n : sent[i].end <= place}
    IN  SubSeq(sent, Max(gone) + 1, Len(sent))

(* Mutant: the provider's total is taken at its word.                      *)
AcknowledgedPast(r, total) ==
    LET acked == IF r.acked > r.origin + total THEN r.acked
                 ELSE r.origin + total
    IN  [r EXCEPT !.acked = acked,
                  !.sent = Later(@, acked - Overlap)]

(* acknowledge: the confirmed position never passes what was recorded and  *)
(* never goes back; blocks more than the overlap behind it are forgotten.  *)
Acknowledged(r, total) ==
    LET seen == IF r.origin + total < r.next THEN r.origin + total ELSE r.next
        acked == IF r.acked > seen THEN r.acked ELSE seen
    IN  [r EXCEPT !.acked = acked,
                  !.sent = Later(@, acked - Overlap)]

(* prepare_replay, and the position a replacement session starts at.       *)
ReplayFrom(r) == IF r.acked > Overlap THEN r.acked - Overlap ELSE 0
Rebased(r, outage) ==
    IF outage = "long"
    THEN [r EXCEPT !.sent = <<>>, !.acked = r.next, !.origin = r.next]
    ELSE [r EXCEPT !.origin = ReplayFrom(r)]
Replay(r, outage) ==
    IF outage = "long" THEN <<>>
    ELSE Later(r.sent, ReplayFrom(r))
FramesOf(s) == [i \in DOMAIN s |-> s[i].frame]

-----------------------------------------------------------------------------
(* How a session ends.                                                     *)

(* What the collector makes of the open tail when the lane drops, fails or *)
(* finishes: it finalizes the utterance it was assembling.                 *)
SettleTail(w) == [settled |-> w.settled \union w.tail, tail |-> {}]

Over == [conn EXCEPT !.pc = "over"]

(* Mutant: every failure starts the attempts over.                         *)
RetryableForever ==
    \/ /\ conn' = [conn EXCEPT !.pc = "wait", !.attempt = 1, !.outage = "none"]
       /\ words' = SettleTail(words)
    \/ conn' = Over /\ words' = SettleTail(words)

(* run_stream on a retryable failure: the attempts start over only when    *)
(* the failed session had been configured, and they are bounded.           *)
Retryable ==
    LET configured == conn.pc # "dial"
        made == IF configured THEN 0 ELSE conn.attempt
    IN  \/ /\ made < MaxAttempt
           /\ conn' = [conn EXCEPT !.pc = "wait", !.attempt = made + 1,
                                   !.outage = IF configured THEN "none" ELSE @]
           /\ words' = SettleTail(words)
        \/ /\ made >= MaxAttempt
           /\ conn' = Over /\ words' = SettleTail(words)

Fatal == conn' = Over /\ words' = SettleTail(words)

(* Any failure the provider or the network can cause: a close code, an     *)
(* error response, a malformed message, a write or read that fails or      *)
(* times out.  Authentication, protocol and quota failures are not retried.*)
Fails == Retryable \/ Fatal

Closed == /\ UNCHANGED <<input, control, paused>>
          /\ wire' = <<>> /\ prov' = [proc |-> 0, fin |-> 0] /\ suppress' = 0

(* The socket drops, between two of the lane's own steps.                  *)
SessionFails ==
    /\ conn.pc \in {"catchup", "live", "drain"}
    /\ Fails
    /\ Closed
    /\ UNCHANGED <<queue, rec, past>>

(* credential_for_connection, connect and the configuration frame.         *)
DialFails ==
    /\ conn.pc = "dial"
    /\ Fails
    /\ UNCHANGED <<input, queue, control, paused, rec, wire, prov, suppress,
                   past>>

(* wait_for_reconnect: Pause and Resume are noted, Finalize is swallowed,  *)
(* Finish gives the failure back and cancel ends the lane in silence.      *)
WaitControl ==
    /\ conn.pc = "wait" /\ ~input.cancelled /\ control # "none"
    /\ control' = "none"
    /\ IF control = "Finish"
       THEN conn' = Over /\ UNCHANGED paused
       ELSE /\ paused' = (IF control = "Pause" THEN TRUE
                          ELSE IF control = "Resume" THEN FALSE ELSE paused)
            /\ UNCHANGED conn
    /\ UNCHANGED <<input, queue, rec, wire, prov, suppress, words, past>>

WaitEnds ==
    /\ conn.pc = "wait" /\ ~input.cancelled
    /\ \E o \in {"fast", "paced", "long"} :
         /\ Rank(o) >= Rank(conn.outage)
         /\ conn' = [conn EXCEPT !.pc = "dial", !.outage = o]
    /\ UNCHANGED <<input, queue, control, paused, rec, wire, prov, suppress,
                   words, past>>

Cancelled ==
    /\ conn.pc \in {"live", "drain", "wait"} /\ input.cancelled
    /\ conn' = Over
    /\ UNCHANGED <<input, queue, control, paused, rec, wire, prov, suppress,
                   words, past>>

-----------------------------------------------------------------------------
(* A session begins.                                                       *)

(* Mutant: a replacement session skips the recovery.                       *)
ConnectFirstAlways ==
    /\ conn.pc = "dial"
    /\ conn' = [conn EXCEPT !.pc = "live"]
    /\ rec' = [rec EXCEPT !.origin = rec.next]
    /\ UNCHANGED <<input, queue, control, paused, wire, prov, suppress, words,
                   past>>

(* The first session: the lane clock starts where the recording stands.    *)
ConnectFirst ==
    /\ conn.pc = "dial" /\ conn.outage = "none"
    /\ conn' = [conn EXCEPT !.pc = "live"]
    /\ rec' = [rec EXCEPT !.origin = rec.next]
    /\ UNCHANGED <<input, queue, control, paused, wire, prov, suppress, words,
                   past>>

(* RecoveryStarted: replay what the provider may not have processed, and   *)
(* after a long outage forget it together with the queued audio.  A write  *)
(* may fail after any number of the replayed blocks.                       *)
ConnectAgain ==
    /\ conn.pc = "dial" /\ conn.outage # "none"
    /\ rec' = Rebased(rec, conn.outage)
    /\ wire' = FramesOf(Replay(rec, conn.outage))
    /\ prov' = [proc |-> 0, fin |-> 0]
    /\ suppress' = rec'.acked - rec'.origin
    /\ IF conn.outage = "long"
       THEN /\ queue' = <<>>
            /\ past' = [past EXCEPT
                 !.skewed = @ \/ queue # <<>>,
                 !.given = @ \union ToSet(queue)
                             \union {rec.sent[i].frame : i \in DOMAIN rec.sent}]
       ELSE /\ past' = [past EXCEPT
                 !.hollow = @ \/ Len(wire') # rec.next - rec'.origin]
            /\ UNCHANGED queue
    /\ conn' = [conn EXCEPT !.pc = "catchup"]
    /\ UNCHANGED <<input, control, paused, words>>

(* The catch-up loop after a paced outage: queued audio is sent, also when *)
(* the lane is paused.  A write that fails has already taken its block.    *)
CatchUp ==
    /\ conn.pc = "catchup"
    /\ IF conn.outage = "paced" /\ queue # <<>>
       THEN /\ queue' = Tail(queue)
            /\ \/ /\ wire' = Append(wire, Head(queue))
                  /\ rec' = Recorded(rec, Head(queue))
                  /\ UNCHANGED <<input, control, paused, conn, prov, suppress,
                                 words, past>>
               \/ /\ Fails /\ Closed
                  /\ past' = [past EXCEPT !.skewed = TRUE]
                  /\ UNCHANGED rec
       ELSE /\ conn' = [conn EXCEPT !.pc = "live"]
            /\ UNCHANGED <<input, control, paused, queue, wire, rec, prov,
                           suppress, words, past>>

-----------------------------------------------------------------------------
(* The select loop, biased: cancel, control, audio, timers, responses.     *)

Listening == conn.pc = "live" /\ ~input.cancelled

(* drain_queued_audio: the fence sends what is queued and records none.    *)
Fence ==
    /\ queue' = <<>> /\ wire' = wire \o queue
    /\ past' = [past EXCEPT !.skewed = @ \/ queue # <<>>]

(* The same fence when one of its writes, or the command after them, fails.*)
FenceFails ==
    /\ \E n \in 0..Len(queue) : queue' = SubSeq(queue, n + 1, Len(queue))
    /\ past' = [past EXCEPT !.skewed = @ \/ queue' # queue]

LiveControl ==
    /\ Listening /\ control # "none"
    /\ \/ /\ control \in {"Finalize", "Pause"} /\ Fence
          /\ paused' = (paused \/ control = "Pause")
          /\ control' = "none"
          /\ UNCHANGED <<input, conn, rec, prov, suppress, words>>
       \/ /\ control = "Resume" /\ paused' = FALSE /\ control' = "none"
          /\ UNCHANGED <<input, queue, conn, rec, wire, prov, suppress, words,
                         past>>
       \/ /\ control = "Finish" /\ Fence
          /\ control' = "none" /\ conn' = [conn EXCEPT !.pc = "drain"]
          /\ UNCHANGED <<input, paused, rec, prov, suppress, words>>
       \/ /\ control # "Resume" /\ FenceFails /\ control' = "none"
          /\ Fails
          /\ wire' = <<>> /\ prov' = [proc |-> 0, fin |-> 0] /\ suppress' = 0
          /\ UNCHANGED <<input, paused, rec>>

(* audio_rx.recv: forwarded and recorded, or dropped while paused.         *)
LiveAudio ==
    /\ Listening /\ control = "none" /\ queue # <<>>
    /\ queue' = Tail(queue)
    /\ \/ /\ ~paused
          /\ wire' = Append(wire, Head(queue))
          /\ rec' = Recorded(rec, Head(queue))
          /\ UNCHANGED <<input, control, paused, conn, prov, suppress, words,
                         past>>
       \/ /\ ~paused /\ Fails /\ Closed
          /\ past' = [past EXCEPT !.skewed = TRUE]
          /\ UNCHANGED rec
       \/ /\ paused
          /\ past' = [past EXCEPT !.skewed = TRUE]
          /\ UNCHANGED <<input, control, paused, conn, wire, rec, prov,
                         suppress, words>>

(* Mutant: the whole response that reaches the overlap's end is withheld.  *)
FreshLate(total, ends) ==
    IF suppress > 0 /\ total <= suppress + 1 THEN {}
    ELSE {e \in ends : e > suppress}

(* Which of the response's source tokens, by where they end on this        *)
(* connection, are not a repetition of the replayed overlap.               *)
Fresh(total, ends) ==
    IF suppress > 0 /\ total <= suppress THEN {}
    ELSE {e \in ends : e > suppress}

(* Final tokens are settled for good; the rest of a response replaces the  *)
(* open tail, unless the response carried no token at all.                 *)
Emitted(w, finals, open) ==
    IF finals \union open = {} THEN w
    ELSE [settled |-> w.settled \union {wire[e] : e \in finals},
          tail |-> {wire[e] : e \in open}]

(* A provider response: progress is acknowledged, the replayed part is     *)
(* withheld until the provider has passed it, the rest is published.       *)
Respond(proc, fin) ==
    /\ prov' = [proc |-> proc, fin |-> fin]
    /\ rec' = Acknowledged(rec, proc)
    /\ suppress' = IF proc >= suppress THEN 0 ELSE suppress
    /\ words' = Emitted(words, Fresh(proc, prov.fin + 1..fin),
                        Fresh(proc, fin + 1..proc))

LiveResponse ==
    /\ Listening /\ control = "none" /\ queue = <<>>
    /\ \E proc \in prov.proc..Len(wire) : \E fin \in prov.fin..proc :
         /\ <<proc, fin>> # <<prov.proc, prov.fin>>
         /\ Respond(proc, fin)
    /\ UNCHANGED <<input, queue, control, conn, paused, wire, past>>

(* After the empty frame the provider sends its tail tokens and finished,  *)
(* or the drain times out, which is not retried.                           *)
DrainResponse ==
    /\ conn.pc = "drain" /\ ~input.cancelled
    /\ \/ /\ Respond(Len(wire), Len(wire))
          /\ conn' = Over
       \/ /\ conn' = Over /\ words' = SettleTail(words)
          /\ UNCHANGED <<rec, prov, suppress>>
    /\ UNCHANGED <<input, queue, control, paused, wire, past>>

-----------------------------------------------------------------------------
Ended == conn.pc = "over" /\ UNCHANGED vars

Stream == \/ ConnectFirst \/ ConnectAgain \/ DialFails \/ CatchUp
          \/ LiveControl \/ LiveAudio \/ LiveResponse \/ DrainResponse
          \/ SessionFails \/ WaitControl \/ WaitEnds \/ Cancelled
Next == PushPcm \/ SendControl \/ Cancel \/ Stream \/ Ended

(* The runtime polls the lane's task, and the backoff's sleep is pinned    *)
(* outside the loop that reads commands, so no command puts it off.        *)
Spec == Init /\ [][Next]_vars /\ WF_vars(Stream) /\ WF_vars(WaitEnds)

-----------------------------------------------------------------------------
(* Properties.                                                             *)

(* Every block that left the queue was recorded, and every replay carried  *)
(* the whole overlap.                                                      *)
Regular == ~past.skewed /\ ~past.hollow

(* While the lane's clock has not been skewed, every block up to the       *)
(* position reported as confirmed has its words with the collector, settled*)
(* or in the open tail, or was given up by a long outage: the retained     *)
(* audio, the replay, the suppression of the overlap and the collector's   *)
(* finalize on Reconnecting lose nothing between them (acknowledge,        *)
(* prepare_replay, the response arm of run_stream_session).                *)
ConfirmedIsPublished ==
    Regular =>
        \A f \in 1..rec.acked :
            \/ f \in words.settled \/ f \in words.tail \/ f \in past.given

(* While no block left the queue without being recorded, a place on the    *)
(* current WebSocket plus connection_origin_ms is the place on the capture *)
(* timeline, across every replay, catch-up and long outage                 *)
(* (connection_origin_ms in emit_response_events).                         *)
ClockIsCapture ==
    (Regular /\ conn.pc \in {"catchup", "live", "drain"}) =>
        \A e \in DOMAIN wire : wire[e] = rec.origin + e

(* Both: no word is lost, and each keeps its place in the capture.         *)
WordsKeepTheirPlace == StreamTypeOK /\ ConfirmedIsPublished /\ ClockIsCapture

(* emit_response_events: "`connection_origin_ms` is where the current      *)
(* WebSocket's own audio clock sits on the capture-wide timeline."  The    *)
(* same, also after a replay that had less to send than its overlap.       *)
OriginIsOnTheTimeline ==
    (~past.skewed /\ conn.pc \in {"catchup", "live", "drain"}) =>
        \A e \in DOMAIN wire : wire[e] = rec.origin + e

(* The lane's events, read as LaneEvents reads them.                       *)
LanePhase ==
    CASE conn.pc \in {"live", "drain"} -> "up"
      [] conn.pc = "catchup" -> "recovering"
      [] conn.pc = "over" -> "over"
      [] OTHER -> IF conn.attempt = 0 THEN "new" ELSE "down"
Protocol == INSTANCE LaneEvents WITH phase <- LanePhase, tries <- conn.attempt,
                                     MaxTry <- MaxAttempt
(* The lane keeps the promise its collector is written against: bounded    *)
(* tries, a recovery announced before each later Connected, nothing after  *)
(* the end (run_stream, run_stream_session).                               *)
EventProtocol == Protocol!LaneSpec

(* A lane that dials, or waits to dial again, does not do so for ever: it  *)
(* configures a session or it ends, whatever commands arrive while it      *)
(* waits (reconnect_max_attempts).                                         *)
Dialing == conn.pc \in {"dial", "wait"}
DialingSettles == []<>~Dialing

(* soniox_stream.rs, SttStreamEvent::Reconnecting: "Audio accepted by      *)
(* `audio_tx` remains queued for the replacement session."  Each accepted  *)
(* block whose words are not settled is queued or retained while the lane  *)
(* reconnects (no pause, no long outage).                                  *)
AcceptedAudioIsKept ==
    (conn.pc \in {"wait", "dial"} /\ ~paused /\ ~input.cancelled) =>
        \A f \in 1..input.made :
            \/ f \in ToSet(queue)
            \/ f \in ToSet(FramesOf(rec.sent))
            \/ f \in words.settled \/ f \in past.given
=============================================================================
