-------------------------- MODULE MCRealtimeStreams --------------------------
(***************************************************************************)
(* The realtime path in its two halves: one lane against its provider, and *)
(* the group of lanes against its collector.  LaneEvents stands between    *)
(* them, so each behaviour is one of either, while the other rests.        *)
(***************************************************************************)
EXTENDS StreamGroup

CONSTANTS MaxFrame, Capacity, MaxAttempt, Overlap          \* of SonioxStream
VARIABLES input, queue, control, conn, paused, rec, wire, prov, suppress, words, past
streamVars == <<input, queue, control, conn, paused, rec, wire, prov, suppress, words, past>>
OneLane == INSTANCE SonioxStream

ASSUME OneLaneAssumption == OneLane!StreamAssumption

VARIABLE part       \* what this behaviour is about

RealtimeInit == part \in {"lane", "group"} /\ Init /\ OneLane!Init

RealtimeNext ==
    \/ part = "lane" /\ OneLane!Next /\ UNCHANGED <<vars, part>>
    \/ part = "group" /\ Next /\ UNCHANGED <<streamVars, part>>

(* The fairness of each half, see there; the half that rests owes no step. *)
RealtimeFairness ==
    /\ WF_streamVars(part = "lane" /\ OneLane!Stream)
    /\ WF_streamVars(part = "lane" /\ OneLane!WaitEnds)
    /\ WF_vars(part = "group" /\ StreamsJoined) /\ WF_vars(part = "group" /\ CollectorJoined)
    /\ WF_vars(part = "group" /\ CleanupEnds) /\ WF_vars(part = "group" /\ StopEnds)

RealtimeSpec ==
    RealtimeInit /\ [][RealtimeNext]_<<vars, streamVars, part>> /\ RealtimeFairness

-----------------------------------------------------------------------------
(* What SonioxStream says of the lane; see there.                          *)
WordsKeepTheirPlace == OneLane!WordsKeepTheirPlace
EventProtocol == OneLane!EventProtocol

(* The same of a lane at work: it does not dial for ever.                  *)
DialingSettles == []<>(part = "lane" => ~OneLane!Dialing)
=============================================================================
