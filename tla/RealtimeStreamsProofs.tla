-------------------------- MODULE RealtimeStreamsProofs -------------------------
(***************************************************************************)
(* The two halves of the realtime path, for any lanes, tries, blocks and   *)
(* queue lengths.                                                          *)
(*                                                                         *)
(* One lane implements LaneEvents, the promise the collector is written    *)
(* against.  The count of tries, which the events carry, and the outage,   *)
(* by which run_stream decides between a first session and a recovery, are *)
(* kept apart; the invariant says that they agree wherever a session       *)
(* begins.  What it retains, replays, withholds and publishes loses no     *)
(* word and keeps each in its place, while its clock is not skewed.        *)
(*                                                                         *)
(* Of the group: what the run's health says of the lanes is so, a dead     *)
(* lane stays dark, and a running group is only cancelled for a cause.  A  *)
(* dead lane is not connected (DeadIsDark): that is what keeps health from *)
(* calling it live again.  A channel may be one over its bound, by the     *)
(* single discontinuity of a lane that was isolated (OneOver).             *)
(***************************************************************************)
EXTENDS MCRealtimeStreams, SequenceTheorems, WellFoundedInduction, TLAPS

LanePc == {"dial", "catchup", "live", "drain", "wait", "over"}

ConnTyped ==
    conn \in [pc : LanePc, attempt : 0..MaxAttempt, outage : {"none", "fast", "paced", "long"}]

\* A lane that waits has counted its failure, and one that dials for the first
\* time has none to count.
TriesAgree ==
    /\ conn.pc = "wait" => conn.attempt # 0
    /\ conn.pc = "dial" => (conn.attempt = 0 <=> conn.outage = "none")

ConnInv == ConnTyped /\ TriesAgree

-----------------------------------------------------------------------------
(* How a step moves a lane's connection, which is all LaneEvents sees of it. *)

Waits == conn.pc = "wait" /\ \E o \in {"fast", "paced", "long"} :
            conn' = [conn EXCEPT !.pc = "dial", !.outage = o]
Begins == conn.pc = "dial" /\ conn.outage = "none" /\ conn' = [conn EXCEPT !.pc = "live"]
BeginsAgain == conn.pc = "dial" /\ conn.outage # "none" /\ conn' = [conn EXCEPT !.pc = "catchup"]
CaughtUp == conn.pc = "catchup" /\ conn' = [conn EXCEPT !.pc = "live"]
Drains == conn.pc = "live" /\ conn' = [conn EXCEPT !.pc = "drain"]
Breaks == /\ conn.pc \in {"dial", "catchup", "live", "drain"}
          /\ LET made == IF conn.pc = "dial" THEN conn.attempt ELSE 0
             IN  /\ made < MaxAttempt
                 /\ \E o \in {"none", conn.outage} :
                       /\ conn.pc # "dial" => o = "none"
                       /\ conn' = [conn EXCEPT !.pc = "wait", !.attempt = made + 1, !.outage = o]
Dies == conn.pc # "over" /\ conn' = OneLane!Over

Travels == Waits \/ Begins \/ BeginsAgain \/ CaughtUp \/ Drains \/ Breaks \/ Dies \/ UNCHANGED conn

LEMMA FailsTravels ==
    ASSUME conn.pc \in {"dial", "catchup", "live", "drain"}, OneLane!Fails
    PROVE  Breaks \/ Dies
  BY DEF OneLane!Fails, OneLane!Retryable, OneLane!Fatal, Breaks, Dies, OneLane!Over

LEMMA StepTravels == [OneLane!Next]_(OneLane!vars) => Travels
  <1> SUFFICES ASSUME [OneLane!Next]_(OneLane!vars) PROVE Travels
    OBVIOUS
  <1>1. CASE OneLane!PushPcm \/ OneLane!SendControl \/ OneLane!Cancel \/ OneLane!Ended
             \/ UNCHANGED OneLane!vars
    BY <1>1 DEF OneLane!PushPcm, OneLane!SendControl, OneLane!Command_,
           OneLane!Cancel, OneLane!Ended, OneLane!vars, Travels
  <1>2. CASE OneLane!ConnectFirst \/ OneLane!ConnectAgain \/ OneLane!WaitEnds
    BY <1>2 DEF OneLane!ConnectFirst, OneLane!ConnectAgain, OneLane!WaitEnds, Travels, Begins, BeginsAgain, Waits
  <1>3. CASE OneLane!DialFails \/ OneLane!SessionFails
    BY <1>3, FailsTravels DEF OneLane!DialFails, OneLane!SessionFails, Travels
  <1>4. CASE OneLane!CatchUp
    BY <1>4, FailsTravels DEF OneLane!CatchUp, Travels, CaughtUp
  <1>5. CASE OneLane!LiveControl
    BY <1>5, FailsTravels DEF OneLane!LiveControl, OneLane!Listening, Travels, Drains
  <1>6. CASE OneLane!LiveAudio \/ OneLane!LiveResponse
    BY <1>6, FailsTravels DEF OneLane!LiveAudio, OneLane!LiveResponse, OneLane!Listening, Travels
  <1>7. CASE OneLane!DrainResponse \/ OneLane!Cancelled
    BY <1>7 DEF OneLane!DrainResponse, OneLane!Cancelled, Travels, Dies
  <1>8. CASE OneLane!WaitControl
    BY <1>8 DEF OneLane!WaitControl, Travels, Dies
  <1> QED
    BY <1>1, <1>2, <1>3, <1>4, <1>5, <1>6, <1>7, <1>8 DEF OneLane!Next, OneLane!Stream

-----------------------------------------------------------------------------
(* The invariant, and what each move of the connection is to LaneEvents.   *)

LEMMA TravelsInv ==
    ASSUME OneLane!StreamAssumption, ConnInv, Travels
    PROVE  ConnInv'
  <1> USE DEF ConnInv, ConnTyped, TriesAgree, LanePc, OneLane!StreamAssumption
  <1>1. CASE Waits
    BY <1>1 DEF Waits
  <1>2. CASE Begins \/ BeginsAgain \/ CaughtUp \/ Drains
    BY <1>2 DEF Begins, BeginsAgain, CaughtUp, Drains
  <1>3. CASE Breaks
    <2>1. PICK m \in 0..MaxAttempt, o \in {"none", conn.outage} :
             /\ m + 1 \in 0..MaxAttempt /\ m + 1 # 0
             /\ conn' = [conn EXCEPT !.pc = "wait", !.attempt = m + 1, !.outage = o]
      <3> DEFINE made == IF conn.pc = "dial" THEN conn.attempt ELSE 0
      <3>1. made \in 0..MaxAttempt /\ made + 1 \in 0..MaxAttempt /\ made + 1 # 0
        BY <1>3 DEF Breaks
      <3>2. PICK o \in {"none", conn.outage} :
               conn' = [conn EXCEPT !.pc = "wait", !.attempt = made + 1, !.outage = o]
        BY <1>3 DEF Breaks
      <3> QED
        BY <3>1, <3>2
    <2>2. conn' = [pc |-> "wait", attempt |-> m + 1, outage |-> o]
      BY <2>1
    <2>3. o \in {"none", "fast", "paced", "long"}
      OBVIOUS
    <2> QED
      BY <2>1, <2>2, <2>3
  <1>4. CASE Dies
    BY <1>4 DEF Dies, OneLane!Over
  <1>5. CASE UNCHANGED conn
    BY <1>5
  <1> QED
    BY <1>1, <1>2, <1>3, <1>4, <1>5 DEF Travels

LEMMA PhaseIs ==
    ASSUME ConnTyped
    PROVE  /\ conn.pc \in {"live", "drain"} => OneLane!LanePhase = "up"
           /\ conn.pc = "catchup" => OneLane!LanePhase = "recovering"
           /\ conn.pc = "over" => OneLane!LanePhase = "over"
           /\ conn.pc \in {"dial", "wait"} =>
                 OneLane!LanePhase = IF conn.attempt = 0 THEN "new" ELSE "down"
  BY DEF ConnTyped, LanePc, OneLane!LanePhase

LEMMA TravelsKeepPromise ==
    ASSUME OneLane!StreamAssumption, ConnInv, ConnInv', Travels
    PROVE  OneLane!Protocol!LaneNext \/ UNCHANGED <<OneLane!LanePhase, conn.attempt>>
  <1> USE DEF ConnInv
  <1>0. /\ conn.pc \in {"live", "drain"} => OneLane!LanePhase = "up"
        /\ conn.pc = "catchup" => OneLane!LanePhase = "recovering"
        /\ conn.pc = "over" => OneLane!LanePhase = "over"
        /\ conn.pc \in {"dial", "wait"} => OneLane!LanePhase = IF conn.attempt = 0 THEN "new" ELSE "down"
    BY PhaseIs
  <1>00. /\ conn'.pc \in {"live", "drain"} => OneLane!LanePhase' = "up"
         /\ conn'.pc = "catchup" => OneLane!LanePhase' = "recovering"
         /\ conn'.pc = "over" => OneLane!LanePhase' = "over"
         /\ conn'.pc \in {"dial", "wait"} => OneLane!LanePhase' = IF conn'.attempt = 0 THEN "new" ELSE "down"
    BY DEF ConnTyped, LanePc, OneLane!LanePhase
  <1>1. CASE Waits
    BY <1>0, <1>00, <1>1 DEF Waits, ConnTyped, TriesAgree
  <1>2. CASE Begins
    <2>1. OneLane!Protocol!Connects
      BY <1>0, <1>00, <1>2 DEF Begins, ConnTyped, TriesAgree, OneLane!Protocol!Connects
    <2> QED
      BY <2>1 DEF OneLane!Protocol!LaneNext
  <1>3. CASE BeginsAgain
    <2>1. OneLane!Protocol!Recovers
      BY <1>0, <1>00, <1>3 DEF BeginsAgain, ConnTyped, TriesAgree, OneLane!Protocol!Recovers
    <2> QED
      BY <2>1 DEF OneLane!Protocol!LaneNext
  <1>4. CASE CaughtUp
    <2>1. OneLane!Protocol!Connects
      BY <1>0, <1>00, <1>4 DEF CaughtUp, ConnTyped, OneLane!Protocol!Connects
    <2> QED
      BY <2>1 DEF OneLane!Protocol!LaneNext
  <1>5. CASE Drains
    BY <1>0, <1>00, <1>5 DEF Drains, ConnTyped
  <1>6. CASE Breaks
    <2>1. /\ conn'.pc = "wait"
          /\ conn'.attempt = (IF conn.pc = "dial" THEN conn.attempt ELSE 0) + 1
          /\ conn'.attempt <= MaxAttempt /\ conn'.attempt # 0
      BY <1>6 DEF Breaks, ConnTyped, TriesAgree, OneLane!StreamAssumption
    <2>2. OneLane!Protocol!Drops
      BY <1>0, <1>00, <1>6, <2>1 DEF Breaks, OneLane!Protocol!Drops
    <2> QED
      BY <2>2 DEF OneLane!Protocol!LaneNext
  <1>7. CASE Dies
    <2>1. OneLane!Protocol!Ends
      BY <1>0, <1>00, <1>7 DEF Dies, OneLane!Over, ConnTyped, LanePc, OneLane!Protocol!Ends
    <2> QED
      BY <2>1 DEF OneLane!Protocol!LaneNext
  <1>8. CASE UNCHANGED conn
    BY <1>8 DEF OneLane!LanePhase
  <1> QED
    BY <1>1, <1>2, <1>3, <1>4, <1>5, <1>6, <1>7, <1>8 DEF Travels

LEMMA ConnStarts ==
    ASSUME OneLane!StreamAssumption, OneLane!Init
    PROVE  ConnInv /\ OneLane!Protocol!LaneInit
  BY DEF OneLane!StreamAssumption, OneLane!Init, ConnInv, ConnTyped, TriesAgree, LanePc, OneLane!LanePhase,
         OneLane!Protocol!LaneInit

(***************************************************************************)
(* Where run_stream stands, its tries and its outage agree at every step   *)
(* of a lane: a session that announces no recovery is the first one.       *)
(***************************************************************************)
THEOREM LaneInvariant == OneLane!Spec => []ConnInv
  <1>1. OneLane!Init => ConnInv
    BY OneLaneAssumption, ConnStarts
  <1>2. ConnInv /\ [OneLane!Next]_(OneLane!vars) => ConnInv'
    BY OneLaneAssumption, StepTravels, TravelsInv
  <1> QED
    BY <1>1, <1>2, PTL DEF OneLane!Spec

(***************************************************************************)
(* Refinement: run_stream and run_stream_session emit Connected,           *)
(* Reconnecting, RecoveryStarted and a last event only as LaneEvents       *)
(* allows, whatever fails, whatever is commanded and whenever the lane is  *)
(* cancelled.                                                              *)
(***************************************************************************)
THEOREM LaneKeepsProtocol == OneLane!Spec => EventProtocol
  <1>1. OneLane!Init => OneLane!Protocol!LaneInit
    BY OneLaneAssumption, ConnStarts
  <1>2. ConnInv /\ ConnInv' /\ [OneLane!Next]_(OneLane!vars)
           => [OneLane!Protocol!LaneNext]_(OneLane!Protocol!laneVars)
    BY OneLaneAssumption, StepTravels, TravelsKeepPromise DEF OneLane!Protocol!laneVars
  <1> QED
    BY <1>1, <1>2, LaneInvariant, PTL
       DEF OneLane!Spec, EventProtocol, OneLane!EventProtocol, OneLane!Protocol!LaneSpec

-----------------------------------------------------------------------------
(* What the lane retains, sends and publishes.  The confirmed position, the *)
(* replay's start, the part of it that is withheld and the collector's open *)
(* tail move apart from each other: WordsInv says how far.                  *)
(* While a session is configured.                                          *)
Configured == conn.pc \in {"catchup", "live", "drain"}

Inputs == [made : 0..MaxFrame, paused : BOOLEAN, stopped : BOOLEAN, cancelled : BOOLEAN]
Places == [end : Nat, frame : OneLane!Frame]
Clocks == [next : Nat, acked : Nat, origin : Nat, sent : Seq(Places)]
Progress == [proc : Nat, fin : Nat]
Collected == [settled : SUBSET OneLane!Frame, tail : SUBSET OneLane!Frame]
Pasts == [skewed : BOOLEAN, hollow : BOOLEAN, given : SUBSET OneLane!Frame]

StreamTyped ==
    /\ input \in Inputs
    /\ queue \in Seq(OneLane!Frame) /\ Len(queue) <= Capacity
    /\ control \in OneLane!Command \union {"none"}
    /\ paused \in BOOLEAN
    /\ rec \in Clocks
    /\ wire \in Seq(OneLane!Frame)
    /\ prov \in Progress
    /\ suppress \in Nat
    /\ words \in Collected
    /\ past \in Pasts

Placed ==
    /\ rec.acked <= rec.next /\ rec.origin <= rec.next
    /\ rec.next + Len(queue) <= input.made
    /\ prov.fin <= prov.proc /\ prov.proc <= Len(wire)

(* Between sessions nothing is left of the last one, and the collector has *)
(* settled its tail.  Before the first, nothing was sent.                  *)
Apart == conn.pc \in {"dial", "wait"} =>
    /\ wire = <<>> /\ prov.proc = 0 /\ prov.fin = 0 /\ suppress = 0
    /\ words.tail = {}
    /\ conn.pc = "dial" /\ conn.outage = "none" => rec.next = 0

(* In one, the open tail holds words the provider may still change, and    *)
(* what is withheld was confirmed on an earlier connection.                *)
Withheld == Configured =>
    /\ \A f \in words.tail : \E e \in prov.fin + 1..prov.proc : f = wire[e]
    /\ suppress > 0 => prov.proc < suppress /\ words.tail = {}
    /\ suppress <= rec.acked - rec.origin

(* While the clock is regular: the queue goes on where the recording ends, *)
(* what is retained ends there and reaches back to the confirmed position, *)
(* and the connection carries everything since its origin.                 *)
Queued ==
    /\ ~input.cancelled => input.made = rec.next + Len(queue)
    /\ \A i \in 1..Len(queue) : queue[i] = rec.next + i

Retained ==
    /\ Len(rec.sent) <= rec.next /\ rec.next - Len(rec.sent) <= rec.acked
    /\ \A i \in 1..Len(rec.sent) : /\ rec.sent[i].end = rec.next - Len(rec.sent) + i
                                   /\ rec.sent[i].frame = rec.next - Len(rec.sent) + i

Carried == Configured =>
    /\ Len(wire) = rec.next - rec.origin
    /\ \A e \in 1..Len(wire) : wire[e] = rec.origin + e
    /\ rec.origin + prov.proc <= rec.acked

Published == \A f \in 1..rec.acked : f \in words.settled \/ f \in words.tail \/ f \in past.given

RegularOK == OneLane!Regular => Queued /\ Retained /\ Carried /\ Published

WordsInv == StreamTyped /\ Placed /\ Apart /\ Withheld /\ RegularOK

-----------------------------------------------------------------------------

LEMMA LaneBounds == MaxFrame \in Nat /\ Capacity \in Nat /\ MaxAttempt \in Nat /\ Overlap \in Nat
  BY OneLaneAssumption DEF OneLane!StreamAssumption

(* Helpers: the least and the greatest of some numbers, and what a lane    *)
(* keeps of the blocks it sent.                                            *)
LEMMA Least ==
  ASSUME NEW S \in SUBSET Nat, S # {}
  PROVE  \E m \in S : \A s \in S : m <= s
<1> DEFINE R == OpToRel(<, Nat)
<1>1. IsWellFoundedOn(R, Nat)
  BY NatLessThanWellFounded
<1>2. \A x, y \in Nat : <<x, y>> \in R <=> x < y
  BY DEF OpToRel
<1> HIDE DEF R
<1>3. \E m \in S : \A s \in S : ~(<<s, m>> \in R)
  BY <1>1, WFMin
<1>4. PICK m \in S : \A s \in S : ~(<<s, m>> \in R)
  BY <1>3
<1>5. ASSUME NEW s \in S PROVE m <= s
  <2>1. s \in Nat /\ m \in Nat /\ ~(<<s, m>> \in R)
    BY <1>4
  <2>2. ~(s < m)
    BY <1>2, <2>1
  <2> QED BY <2>1, <2>2
<1> QED
  BY <1>5

LEMMA Greatest ==
  ASSUME NEW S \in SUBSET Nat, S # {}, NEW b \in Nat, \A s \in S : s <= b
  PROVE  \E m \in S : \A s \in S : s <= m
<1> DEFINE T == {b - s : s \in S}
<1>1. T \in SUBSET Nat /\ T # {}
  <2>1. \A s \in S : b - s \in Nat
    OBVIOUS
  <2>2. PICK s \in S : TRUE
    OBVIOUS
  <2>3. b - s \in T
    OBVIOUS
  <2> QED BY <2>1, <2>3
<1> HIDE DEF T
<1>2. PICK t \in T : \A u \in T : t <= u
  BY <1>1, Least
<1>3. PICK m \in S : t = b - m
  BY DEF T
<1>4. ASSUME NEW s \in S PROVE s <= m
  <2>1. b - s \in T
    BY DEF T
  <2>2. s \in Nat /\ m \in Nat
    OBVIOUS
  <2> QED BY <1>2, <1>3, <2>1, <2>2
<1> QED
  BY <1>4


LEMMA LaterKeeps ==
  ASSUME NEW s \in Seq(Places), NEW place \in Int,
         NEW t, t = OneLane!Later(s, place)
  PROVE  /\ t \in Seq(Places) /\ Len(t) \in Nat /\ Len(s) \in Nat /\ Len(t) <= Len(s)
         /\ \A i \in 1..Len(t) : t[i] = s[Len(s) - Len(t) + i]
         /\ Len(t) < Len(s) => s[Len(s) - Len(t)].end <= place
<1> DEFINE gone == {n \in 0..Len(s) : \A i \in 1..n : s[i].end <= place}
<1>0. Len(s) \in Nat
  BY LenProperties
<1>1. gone \in SUBSET Nat /\ 0 \in gone /\ \A n \in gone : n <= Len(s)
  BY <1>0
<1>2. \A n \in gone : n \in 0..Len(s) /\ \A i \in 1..n : s[i].end <= place
  OBVIOUS
<1>3. t = SubSeq(s, OneLane!Max(gone) + 1, Len(s))
  BY DEF OneLane!Later
<1> HIDE DEF gone
<1>4. \E m \in gone : \A n \in gone : n <= m
  BY <1>0, <1>1, Greatest
<1>5. OneLane!Max(gone) \in gone
  <2>1. \E m \in gone : \A n \in gone : m >= n
    BY <1>1, <1>4
  <2> QED BY <2>1 DEF OneLane!Max
<1>6. PICK k \in 0..Len(s) : /\ t = SubSeq(s, k + 1, Len(s))
                             /\ \A i \in 1..k : s[i].end <= place
  BY <1>2, <1>3, <1>5
<1>7. \A i \in (k + 1)..Len(s) : s[i] \in Places
  <2> SUFFICES ASSUME NEW i \in (k + 1)..Len(s) PROVE s[i] \in Places
    OBVIOUS
  <2>1. i \in 1..Len(s)
    BY <1>0
  <2> QED BY <2>1, ElementOfSeq
<1>8. /\ t \in Seq(Places)
      /\ Len(t) = IF k + 1 <= Len(s) THEN Len(s) - (k + 1) + 1 ELSE 0
      /\ \A i \in 1..Len(s) - (k + 1) + 1 : t[i] = s[(k + 1) + i - 1]
  <2>1. k + 1 \in Int /\ Len(s) \in Int
    BY <1>0
  <2> QED BY <2>1, <1>6, <1>7, SubSeqProperties
<1>9. Len(t) = Len(s) - k
  BY <1>0, <1>8
<1>10. \A i \in 1..Len(t) : t[i] = s[Len(s) - Len(t) + i]
  <2> SUFFICES ASSUME NEW i \in 1..Len(t) PROVE t[i] = s[Len(s) - Len(t) + i]
    OBVIOUS
  <2>1. i \in 1..Len(s) - (k + 1) + 1 /\ (k + 1) + i - 1 = Len(s) - Len(t) + i
    BY <1>0, <1>9
  <2> QED BY <1>8, <2>1
<1>11. ASSUME Len(t) < Len(s) PROVE s[Len(s) - Len(t)].end <= place
  <2>1. Len(s) - Len(t) = k /\ k \in 1..k
    BY <1>0, <1>9, <1>11
  <2> QED BY <1>6, <2>1
<1>12. t \in Seq(Places) /\ Len(t) \in Nat /\ Len(t) <= Len(s)
  BY <1>0, <1>8, <1>9
<1> QED
  BY <1>0, <1>10, <1>11, <1>12

LEMMA SameEnds ==
  ASSUME NEW m \in Nat, NEW n \in Nat, 1..m = 1..n
  PROVE  m = n
<1>1. m # 0 => m \in 1..n
  OBVIOUS
<1>2. n # 0 => n \in 1..m
  OBVIOUS
<1> QED
  BY <1>1, <1>2

LEMMA FramesAre ==
  ASSUME NEW s \in Seq(Places)
  PROVE  /\ OneLane!FramesOf(s) \in Seq(OneLane!Frame) /\ Len(OneLane!FramesOf(s)) = Len(s)
         /\ \A i \in 1..Len(s) : OneLane!FramesOf(s)[i] = s[i].frame
<1>1. Len(s) \in Nat /\ DOMAIN s = 1..Len(s)
  BY LenProperties
<1>2. \A i \in 1..Len(s) : s[i].frame \in OneLane!Frame
  <2> SUFFICES ASSUME NEW i \in 1..Len(s) PROVE s[i].frame \in OneLane!Frame
    OBVIOUS
  <2>1. s[i] \in Places
    BY ElementOfSeq
  <2> QED BY <2>1 DEF Places
<1>3. OneLane!FramesOf(s) = [i \in 1..Len(s) |-> s[i].frame]
  BY <1>1 DEF OneLane!FramesOf
<1>4. OneLane!FramesOf(s) \in [1..Len(s) -> OneLane!Frame]
  BY <1>2, <1>3
<1>5. OneLane!FramesOf(s) \in Seq(OneLane!Frame)
  BY <1>1, <1>4, SeqDef
<1>6. DOMAIN OneLane!FramesOf(s) = 1..Len(OneLane!FramesOf(s)) /\ Len(OneLane!FramesOf(s)) \in Nat
  BY <1>5, LenProperties
<1>7. 1..Len(OneLane!FramesOf(s)) = 1..Len(s)
  BY <1>3, <1>6
<1>8. Len(OneLane!FramesOf(s)) = Len(s)
  BY <1>1, <1>6, <1>7, SameEnds
<1> QED
  BY <1>3, <1>5, <1>8

-----------------------------------------------------------------------------
(* The steps that end a session or leave the words alone.                  *)

LEMMA SettledTail ==
  ASSUME words \in Collected
  PROVE  /\ OneLane!SettleTail(words) \in Collected /\ OneLane!SettleTail(words).tail = {}
         /\ OneLane!SettleTail(words).settled = words.settled \union words.tail
  BY DEF OneLane!SettleTail, Collected

LEMMA FailsEffect ==
  ASSUME ConnTyped, OneLane!Fails
  PROVE  conn'.pc \in {"wait", "over"} /\ words' = OneLane!SettleTail(words)
  BY DEF ConnTyped, LanePc, OneLane!Fails, OneLane!Retryable, OneLane!Fatal, OneLane!Over

LEMMA BreakKeeps ==
  ASSUME ConnTyped, WordsInv, OneLane!Fails, input' = input, rec' = rec,
         wire' = <<>>, prov' = [proc |-> 0, fin |-> 0], suppress' = 0,
         paused' \in BOOLEAN, control' \in OneLane!Command \union {"none"},
         queue' \in Seq(OneLane!Frame), Len(queue') <= Len(queue),
         past' \in Pasts, past'.given = past.given,
         ~past'.skewed /\ ~past'.hollow => OneLane!Regular /\ queue' = queue
  PROVE  WordsInv'
<1>1. conn'.pc \in {"wait", "over"} /\ words' = OneLane!SettleTail(words)
  BY FailsEffect
<1>2. /\ words' \in Collected /\ words'.tail = {}
      /\ words'.settled = words.settled \union words.tail
  BY <1>1, SettledTail DEF WordsInv, StreamTyped
<1>3. <<>> \in Seq(OneLane!Frame) /\ Len(<<>>) = 0
  BY EmptySeq
<1>4. Len(queue) \in Nat /\ Len(queue') \in Nat
  BY LenProperties DEF WordsInv, StreamTyped
<1>5. StreamTyped'
  <2>1. prov' \in Progress
    BY DEF Progress
  <2>2. Len(queue') <= Capacity
    BY <1>4, LaneBounds DEF WordsInv, StreamTyped
  <2> QED
    BY <1>2, <1>3, <2>1, <2>2 DEF WordsInv, StreamTyped
<1>6. Placed'
  <2>1. rec.next \in Nat /\ input.made \in Nat
    BY LaneBounds DEF WordsInv, StreamTyped, Clocks, Inputs
  <2>2. rec'.next + Len(queue') <= input'.made
    BY <1>4, <2>1 DEF WordsInv, Placed
  <2> QED
    BY <1>3, <2>2 DEF WordsInv, Placed
<1>7. Apart'
  BY <1>1, <1>2 DEF Apart
<1>8. ~Configured'
  BY <1>1 DEF Configured
<1>9. ASSUME OneLane!Regular' PROVE (Queued /\ Retained /\ Carried /\ Published)'
  <2>1. OneLane!Regular /\ queue' = queue
    BY <1>9 DEF OneLane!Regular
  <2>2. Queued /\ Retained /\ Published
    BY <2>1 DEF WordsInv, RegularOK
  <2>3. Queued'
    BY <2>1, <2>2 DEF Queued
  <2>4. Retained'
    BY <2>2 DEF Retained
  <2>5. Published'
    BY <1>2, <2>2 DEF Published
  <2> QED
    BY <1>8, <2>3, <2>4, <2>5 DEF Carried
<1> QED
  BY <1>5, <1>6, <1>7, <1>8, <1>9 DEF WordsInv, Withheld, RegularOK

LEMMA QuietKeeps ==
  ASSUME WordsInv, input' \in Inputs, input'.made = input.made,
         input.cancelled => input'.cancelled,
         control' \in OneLane!Command \union {"none"}, paused' \in BOOLEAN,
         queue' = queue, rec' = rec, wire' = wire, prov' = prov, suppress' = suppress,
         words' = words, past' = past,
         \/ conn'.pc = "over"
         \/ conn'.pc \in {"catchup", "live", "drain"} /\ Configured
         \/ /\ conn'.pc \in {"dial", "wait"} /\ conn.pc \in {"dial", "wait"}
            /\ conn'.pc = "dial" /\ conn'.outage = "none" =>
                  conn.pc = "dial" /\ conn.outage = "none"
  PROVE  WordsInv'
<1>1. StreamTyped'
  BY DEF WordsInv, StreamTyped
<1>2. Placed'
  BY DEF WordsInv, Placed
<1>3. Apart'
  BY DEF WordsInv, Apart, Configured
<1>4. Configured' => Configured
  BY DEF Configured
<1>5. Withheld'
  BY <1>4 DEF WordsInv, Withheld
<1>6. ASSUME OneLane!Regular' PROVE (Queued /\ Retained /\ Carried /\ Published)'
  <2>1. Queued /\ Retained /\ Carried /\ Published
    BY <1>6 DEF WordsInv, RegularOK, OneLane!Regular
  <2>2. Queued'
    BY <2>1 DEF Queued
  <2>3. Retained'
    BY <2>1 DEF Retained
  <2>4. Carried'
    BY <1>4, <2>1 DEF Carried
  <2>5. Published'
    BY <2>1 DEF Published
  <2> QED
    BY <2>2, <2>3, <2>4, <2>5
<1> QED
  BY <1>1, <1>2, <1>3, <1>5, <1>6 DEF WordsInv, RegularOK

LEMMA SkewKeeps ==
  ASSUME WordsInv, Configured, conn'.pc \in {"catchup", "live", "drain"},
         input' = input, rec' = rec, prov' = prov, suppress' = suppress, words' = words,
         wire' \in Seq(OneLane!Frame), Len(wire) <= Len(wire'),
         \A e \in 1..Len(wire) : wire'[e] = wire[e],
         queue' \in Seq(OneLane!Frame), Len(queue') <= Len(queue),
         control' \in OneLane!Command \union {"none"}, paused' \in BOOLEAN,
         past' \in Pasts, past'.skewed
  PROVE  WordsInv'
<1>1. /\ Len(queue) \in Nat /\ Len(queue') \in Nat /\ Len(wire) \in Nat /\ Len(wire') \in Nat
      /\ rec.next \in Nat /\ input.made \in Nat /\ prov.proc \in Nat /\ prov.fin \in Nat
  BY LenProperties, LaneBounds DEF WordsInv, StreamTyped, Clocks, Inputs, Progress
<1>2. StreamTyped'
  <2>1. Len(queue') <= Capacity
    BY <1>1, LaneBounds DEF WordsInv, StreamTyped
  <2> QED
    BY <2>1 DEF WordsInv, StreamTyped
<1>3. Placed'
  <2>1. rec'.next + Len(queue') <= input'.made
    BY <1>1 DEF WordsInv, Placed
  <2>2. prov'.proc <= Len(wire')
    BY <1>1 DEF WordsInv, Placed
  <2> QED
    BY <2>1, <2>2 DEF WordsInv, Placed
<1>4. Apart'
  BY DEF Apart
<1>5. Withheld'
  <2>1. \A f \in words.tail : \E e \in prov.fin + 1..prov.proc : f = wire[e]
    BY DEF WordsInv, Withheld
  <2>2. \A e \in prov.fin + 1..prov.proc : wire'[e] = wire[e]
    BY <1>1 DEF WordsInv, Placed
  <2>3. \A f \in words'.tail : \E e \in prov'.fin + 1..prov'.proc : f = wire'[e]
    BY <2>1, <2>2
  <2> QED
    BY <2>3 DEF WordsInv, Withheld
<1> QED
  BY <1>2, <1>3, <1>4, <1>5 DEF WordsInv, RegularOK, OneLane!Regular

-----------------------------------------------------------------------------
(* The capture's steps, and those that begin a session.                    *)

LEMMA PushPcmKeeps ==
  ASSUME WordsInv, OneLane!PushPcm
  PROVE  WordsInv'
<1> DEFINE f == input.made + 1
<1>1. /\ Len(queue) \in Nat /\ rec.next \in Nat /\ input.made \in Nat
      /\ f \in OneLane!Frame /\ input \in Inputs
  BY LenProperties, LaneBounds DEF WordsInv, StreamTyped, Clocks, Inputs, OneLane!Frame, OneLane!PushPcm
<1>2. /\ rec' = rec /\ wire' = wire /\ prov' = prov /\ suppress' = suppress
      /\ words' = words /\ past' = past /\ conn' = conn /\ control' = control
      /\ paused' = paused
  BY DEF OneLane!PushPcm
<1>3. /\ input' \in Inputs /\ input'.made = f /\ ~input.cancelled
      /\ \/ queue' = queue /\ input'.cancelled
         \/ queue' = Append(queue, f) /\ Len(queue) < Capacity
  <2>0. ~input.cancelled /\ f \in 0..MaxFrame
    BY <1>1 DEF OneLane!Frame, OneLane!PushPcm
  <2>1. CASE queue' = Append(queue, f) /\ input' = [input EXCEPT !.made = f] /\ Len(queue) < Capacity
    BY <1>1, <2>0, <2>1 DEF Inputs
  <2>2. CASE queue' = queue /\ input' = [input EXCEPT !.made = f, !.cancelled = TRUE]
    <3> HIDE DEF f
    <3>1. input' \in Inputs /\ input'.made = f /\ input'.cancelled = TRUE
      BY <1>1, <2>0, <2>2 DEF Inputs
    <3> QED
      BY <2>0, <2>2, <3>1
  <2> QED
    BY <1>1, <2>1, <2>2 DEF OneLane!PushPcm
<1> HIDE DEF f
<1>4. /\ queue' \in Seq(OneLane!Frame) /\ Len(queue') \in Nat /\ Len(queue') <= Capacity
      /\ Len(queue') <= Len(queue) + 1
      /\ ~input'.cancelled => Len(queue') = Len(queue) + 1
      /\ \A i \in 1..Len(queue) : queue'[i] = queue[i]
      /\ \A i \in 1..Len(queue') : i <= Len(queue) \/ (i = Len(queue) + 1 /\ queue'[i] = f)
  <2>1. CASE queue' = queue /\ input'.cancelled
    <3>1. \A i \in 1..Len(queue') : i <= Len(queue)
      BY <1>1, <2>1
    <3> QED
      BY <1>1, <2>1, <3>1 DEF WordsInv, StreamTyped
  <2>2. CASE queue' = Append(queue, f) /\ Len(queue) < Capacity
    <3>1. /\ queue' \in Seq(OneLane!Frame) /\ Len(queue') = Len(queue) + 1
          /\ \A i \in 1..Len(queue) : queue'[i] = queue[i]
          /\ queue'[Len(queue) + 1] = f
      BY <1>1, <2>2, AppendProperties DEF WordsInv, StreamTyped
    <3>2. \A i \in 1..Len(queue') : i <= Len(queue) \/ i = Len(queue) + 1
      BY <1>1, <3>1
    <3>3. Len(queue') \in Nat /\ Len(queue') <= Capacity
      BY <1>1, <2>2, <3>1, LaneBounds
    <3> QED
      BY <1>1, <3>1, <3>2, <3>3
  <2> QED
    BY <1>3, <2>1, <2>2
<1>5. StreamTyped'
  BY <1>2, <1>3, <1>4 DEF WordsInv, StreamTyped
<1>6. Placed'
  <2>1. rec'.next + Len(queue') <= input'.made
    BY <1>1, <1>2, <1>3, <1>4 DEF WordsInv, Placed, f
  <2> QED
    BY <1>2, <2>1 DEF WordsInv, Placed
<1>7. Apart'
  BY <1>2 DEF WordsInv, Apart
<1>8. Withheld'
  BY <1>2 DEF WordsInv, Withheld, Configured
<1>9. ASSUME OneLane!Regular' PROVE (Queued /\ Retained /\ Carried /\ Published)'
  <2>1. Queued /\ Retained /\ Carried /\ Published
    BY <1>2, <1>9 DEF WordsInv, RegularOK, OneLane!Regular
  <2>2. f = rec.next + Len(queue) + 1
    BY <1>1, <1>3, <2>1 DEF Queued, f
  <2>3. Queued'
    <3>1. ~input'.cancelled => input'.made = rec'.next + Len(queue')
      BY <1>1, <1>2, <1>3, <1>4, <2>2
    <3>2. ASSUME NEW i \in 1..Len(queue') PROVE queue'[i] = rec'.next + i
      <4>1. CASE i <= Len(queue)
        <5>1. i \in 1..Len(queue)
          BY <1>1, <1>4, <4>1
        <5> QED
          BY <1>2, <1>4, <2>1, <5>1 DEF Queued
      <4>2. CASE i = Len(queue) + 1 /\ queue'[i] = f
        BY <1>1, <1>2, <2>2, <4>2
      <4> QED
        BY <1>4, <4>1, <4>2
    <3> QED
      BY <3>1, <3>2 DEF Queued
  <2>4. Retained'
    BY <1>2, <2>1 DEF Retained
  <2>5. Carried'
    BY <1>2, <2>1 DEF Carried, Configured
  <2>6. Published'
    BY <1>2, <2>1 DEF Published
  <2> QED
    BY <2>3, <2>4, <2>5, <2>6
<1> QED
  BY <1>5, <1>6, <1>7, <1>8, <1>9 DEF WordsInv, RegularOK

LEMMA ConnectFirstKeeps ==
  ASSUME ConnTyped, WordsInv, OneLane!ConnectFirst
  PROVE  WordsInv'
<1>1. /\ rec.next = 0 /\ wire = <<>> /\ prov.proc = 0 /\ prov.fin = 0 /\ suppress = 0
      /\ words.tail = {}
  BY DEF WordsInv, Apart, OneLane!ConnectFirst
<1>2. /\ input' = input /\ queue' = queue /\ control' = control /\ paused' = paused
      /\ wire' = wire /\ prov' = prov /\ suppress' = suppress /\ words' = words
      /\ past' = past
  BY DEF OneLane!ConnectFirst
<1>3. /\ rec' \in Clocks /\ rec'.next = rec.next /\ rec'.acked = rec.acked
      /\ rec'.sent = rec.sent /\ rec'.origin = rec.next
  BY DEF OneLane!ConnectFirst, WordsInv, StreamTyped, Clocks
<1>4. rec.acked = 0 /\ rec.origin = 0
  BY <1>1 DEF WordsInv, StreamTyped, Clocks, Placed
<1>5. conn'.pc = "live"
  BY DEF OneLane!ConnectFirst, ConnTyped
<1>6. StreamTyped'
  BY <1>2, <1>3 DEF WordsInv, StreamTyped
<1>7. Placed'
  BY <1>1, <1>2, <1>3, <1>4 DEF WordsInv, Placed
<1>8. Apart'
  BY <1>5 DEF Apart
<1>9. Withheld'
  BY <1>1, <1>2, <1>3, <1>4 DEF Withheld
<1>10. ASSUME OneLane!Regular' PROVE (Queued /\ Retained /\ Carried /\ Published)'
  <2>1. Queued /\ Retained /\ Published
    BY <1>2, <1>10 DEF WordsInv, RegularOK, OneLane!Regular
  <2>2. Queued'
    BY <1>2, <1>3, <2>1 DEF Queued
  <2>3. Retained'
    BY <1>3, <2>1 DEF Retained
  <2>4. Len(wire') = 0
    BY <1>1, <1>2, EmptySeq
  <2>5. Carried'
    BY <1>1, <1>2, <1>3, <1>4, <2>4 DEF Carried
  <2>6. Published'
    BY <1>2, <1>3, <2>1 DEF Published
  <2> QED
    BY <2>2, <2>3, <2>5, <2>6
<1> QED
  BY <1>6, <1>7, <1>8, <1>9, <1>10 DEF WordsInv, RegularOK

LEMMA ReplayFromIsEarlier ==
  ASSUME rec \in Clocks
  PROVE  OneLane!ReplayFrom(rec) \in Nat /\ OneLane!ReplayFrom(rec) <= rec.acked
  BY LaneBounds DEF OneLane!ReplayFrom, Clocks

(* A replacement session after a long outage: all that was retained, and   *)
(* what was queued, is given up.                                           *)
LEMMA ConnectLongKeeps ==
  ASSUME ConnTyped, WordsInv, OneLane!ConnectAgain, conn.outage = "long"
  PROVE  WordsInv'
<1> DEFINE lost == {rec.sent[i].frame : i \in DOMAIN rec.sent}
<1>1. /\ wire = <<>> /\ words.tail = {} /\ rec \in Clocks /\ rec.next \in Nat /\ rec.acked <= rec.next
      /\ rec.acked \in Nat /\ Len(queue) \in Nat /\ past \in Pasts /\ input.made \in Nat
  BY LenProperties, LaneBounds DEF WordsInv, StreamTyped, Clocks, Inputs, Placed, Apart, OneLane!ConnectAgain
<1>2. /\ input' = input /\ control' = control /\ paused' = paused /\ words' = words
      /\ queue' = <<>> /\ prov' = [proc |-> 0, fin |-> 0]
  BY DEF OneLane!ConnectAgain
<1>3. conn'.pc = "catchup"
  BY DEF OneLane!ConnectAgain, ConnTyped
<1>4. /\ rec' \in Clocks /\ rec'.next = rec.next /\ rec'.acked = rec.next
      /\ rec'.origin = rec.next /\ rec'.sent = <<>>
  <2>1. <<>> \in Seq(Places)
    BY EmptySeq
  <2> QED
    BY <1>1, <2>1 DEF OneLane!ConnectAgain, OneLane!Rebased, Clocks
<1>5. wire' = <<>> /\ wire' \in Seq(OneLane!Frame) /\ Len(wire') = 0
  <2>1. OneLane!Replay(rec, conn.outage) = <<>>
    BY DEF OneLane!Replay
  <2>2. <<>> \in Seq(Places) /\ <<>> \in Seq(OneLane!Frame) /\ Len(<<>>) = 0
    BY EmptySeq
  <2>3. OneLane!FramesOf(<<>>) \in Seq(OneLane!Frame) /\ Len(OneLane!FramesOf(<<>>)) = 0
    BY <2>2, FramesAre
  <2>4. wire' = OneLane!FramesOf(<<>>)
    BY <2>1 DEF OneLane!ConnectAgain
  <2>5. wire' = <<>>
    BY <2>3, <2>4, EmptySeq
  <2> QED
    BY <2>2, <2>5
<1>6. suppress' = 0
  <2>1. suppress' = rec'.acked - rec'.origin
    BY DEF OneLane!ConnectAgain
  <2> QED BY <1>1, <1>4, <2>1
<1>7. lost \subseteq OneLane!Frame
  <2> SUFFICES ASSUME NEW i \in DOMAIN rec.sent PROVE rec.sent[i].frame \in OneLane!Frame
    OBVIOUS
  <2>1. rec.sent \in Seq(Places)
    BY <1>1 DEF Clocks
  <2>2. rec.sent[i] \in Places
    BY <2>1, LenProperties, ElementOfSeq
  <2> QED BY <2>2 DEF Places
<1>8. OneLane!ToSet(queue) \subseteq OneLane!Frame
  BY LenProperties, ElementOfSeq DEF OneLane!ToSet, WordsInv, StreamTyped
<1>9. past' = [past EXCEPT !.skewed = @ \/ queue # <<>>, !.given = @ \union OneLane!ToSet(queue) \union lost]
  BY DEF OneLane!ConnectAgain
<1> HIDE DEF lost
<1>10. /\ past' \in Pasts /\ past'.given = past.given \union OneLane!ToSet(queue) \union lost
       /\ past'.hollow = past.hollow /\ past'.skewed = (past.skewed \/ queue # <<>>)
  BY <1>1, <1>7, <1>8, <1>9 DEF Pasts
<1>11. Len(queue') = 0 /\ queue' \in Seq(OneLane!Frame)
  BY <1>2, EmptySeq
<1>12. StreamTyped'
  <2>1. prov' \in Progress
    BY <1>2 DEF Progress
  <2> QED
    BY <1>2, <1>4, <1>5, <1>6, <1>10, <1>11, <2>1, LaneBounds DEF WordsInv, StreamTyped
<1>13. Placed'
  <2>1. rec.next + Len(queue) <= input.made
    BY DEF WordsInv, Placed
  <2>2. rec'.next + Len(queue') <= input'.made
    BY <1>1, <1>2, <1>4, <1>11, <2>1
  <2> QED
    BY <1>1, <1>2, <1>4, <1>5, <2>2 DEF Placed
<1>14. Apart'
  BY <1>3 DEF Apart
<1>15. Withheld'
  BY <1>1, <1>2, <1>4, <1>6 DEF Withheld
<1>16. ASSUME OneLane!Regular' PROVE (Queued /\ Retained /\ Carried /\ Published)'
  <2>1. OneLane!Regular /\ queue = <<>>
    BY <1>10, <1>16 DEF OneLane!Regular
  <2>2. Queued /\ Retained /\ Published
    BY <2>1 DEF WordsInv, RegularOK
  <2>3. Queued'
    BY <1>2, <1>4, <2>1, <2>2 DEF Queued
  <2>4. Retained'
    <3>1. Len(rec'.sent) = 0
      BY <1>4, EmptySeq
    <3> QED
      BY <1>1, <1>4, <3>1 DEF Retained
  <2>5. Carried'
    BY <1>1, <1>2, <1>4, <1>5 DEF Carried
  <2>6. ASSUME NEW f \in 1..rec.next PROVE f \in words.settled \/ f \in words.tail \/ f \in past'.given
    <3>1. CASE f <= rec.acked
      <4>1. f \in 1..rec.acked
        BY <1>1, <3>1
      <4> QED
        BY <1>10, <2>2, <4>1 DEF Published
    <3>2. CASE ~(f <= rec.acked)
      <4> DEFINE n == Len(rec.sent)
      <4>1. n \in Nat /\ DOMAIN rec.sent = 1..n
        BY <1>1, LenProperties DEF Clocks
      <4>2. f - (rec.next - n) \in 1..n
        BY <1>1, <2>2, <3>2, <4>1 DEF Retained
      <4>3. rec.sent[f - (rec.next - n)].frame = rec.next - n + (f - (rec.next - n))
        BY <2>2, <4>2 DEF Retained
      <4>4. rec.next - n + (f - (rec.next - n)) = f
        BY <1>1, <4>1
      <4>5. f \in lost
        BY <4>1, <4>2, <4>3, <4>4 DEF lost
      <4> QED
        BY <1>10, <4>5
    <3> QED
      BY <3>1, <3>2
  <2>7. Published'
    BY <1>2, <1>4, <2>6 DEF Published
  <2> QED
    BY <2>3, <2>4, <2>5, <2>7
<1> QED
  BY <1>12, <1>13, <1>14, <1>15, <1>16 DEF WordsInv, RegularOK

(* A replacement session after a short outage: the end of what is retained *)
(* starts where its clock does, or the replay was hollow.                  *)
LEMMA ConnectShortKeeps ==
  ASSUME ConnTyped, WordsInv, OneLane!ConnectAgain, conn.outage # "long"
  PROVE  WordsInv'
<1> DEFINE from == OneLane!ReplayFrom(rec)
           kept == OneLane!Later(rec.sent, from)
<1>1. /\ words.tail = {} /\ rec \in Clocks /\ rec.next \in Nat /\ rec.acked <= rec.next
      /\ rec.acked \in Nat /\ past \in Pasts /\ rec.sent \in Seq(Places)
  BY DEF WordsInv, StreamTyped, Clocks, Placed, Apart, OneLane!ConnectAgain
<1>2. /\ input' = input /\ control' = control /\ paused' = paused /\ words' = words
      /\ queue' = queue /\ prov' = [proc |-> 0, fin |-> 0]
  BY DEF OneLane!ConnectAgain
<1>3. conn'.pc = "catchup"
  BY DEF OneLane!ConnectAgain, ConnTyped
<1>4. from \in Nat /\ from <= rec.acked /\ from \in Int
  BY <1>1, ReplayFromIsEarlier
<1>5. rec' = [rec EXCEPT !.origin = from] /\ wire' = OneLane!FramesOf(kept)
  BY DEF OneLane!ConnectAgain, OneLane!Rebased, OneLane!Replay
<1>6. suppress' = rec'.acked - rec'.origin
  BY DEF OneLane!ConnectAgain
<1>7. past' = [past EXCEPT !.hollow = @ \/ Len(wire') # rec.next - rec'.origin]
  BY DEF OneLane!ConnectAgain
<1> HIDE DEF from
<1>8. /\ kept \in Seq(Places) /\ Len(kept) \in Nat /\ Len(rec.sent) \in Nat
      /\ Len(kept) <= Len(rec.sent)
      /\ \A i \in 1..Len(kept) : kept[i] = rec.sent[Len(rec.sent) - Len(kept) + i]
  BY <1>1, <1>4, LaterKeeps
<1> HIDE DEF kept
<1>9. /\ rec' \in Clocks /\ rec'.next = rec.next /\ rec'.acked = rec.acked
      /\ rec'.origin = from /\ rec'.sent = rec.sent
  BY <1>1, <1>4, <1>5 DEF Clocks
<1>10. /\ wire' \in Seq(OneLane!Frame) /\ Len(wire') = Len(kept)
       /\ \A i \in 1..Len(kept) : wire'[i] = kept[i].frame
  BY <1>5, <1>8, FramesAre
<1>11. /\ past' \in Pasts /\ past'.given = past.given /\ past'.skewed = past.skewed
       /\ ~past'.hollow => ~past.hollow /\ Len(wire') = rec.next - rec'.origin
  <2> DEFINE short == Len(wire') # rec.next - rec'.origin
  <2>1. past' = [past EXCEPT !.hollow = @ \/ short]
    BY <1>7
  <2>2. short \in BOOLEAN
    OBVIOUS
  <2> HIDE DEF short
  <2>3. /\ past' \in Pasts /\ past'.given = past.given /\ past'.skewed = past.skewed
        /\ past'.hollow = (past.hollow \/ short)
    BY <1>1, <2>1, <2>2 DEF Pasts
  <2>4. ~past'.hollow => ~past.hollow /\ ~short
    BY <2>3
  <2> QED
    BY <2>3, <2>4 DEF short
<1>12. suppress' \in Nat /\ suppress' = rec.acked - from
  BY <1>1, <1>4, <1>6, <1>9
<1>13. StreamTyped'
  <2>1. prov' \in Progress
    BY <1>2 DEF Progress
  <2> QED
    BY <1>2, <1>9, <1>10, <1>11, <1>12, <2>1 DEF WordsInv, StreamTyped
<1>14. Placed'
  <2>1. rec'.next + Len(queue') <= input'.made
    BY <1>2, <1>9 DEF WordsInv, Placed
  <2>2. rec'.origin <= rec'.next
    BY <1>1, <1>4, <1>9
  <2> QED
    BY <1>1, <1>2, <1>8, <1>9, <1>10, <2>1, <2>2 DEF Placed
<1>15. Apart'
  BY <1>3 DEF Apart
<1>16. Withheld'
  <2>1. suppress' <= rec'.acked - rec'.origin
    BY <1>9, <1>12
  <2>2. suppress' > 0 => prov'.proc < suppress' /\ words'.tail = {}
    BY <1>1, <1>2
  <2> QED
    BY <1>1, <1>2, <2>1, <2>2 DEF Withheld
<1>17. ASSUME OneLane!Regular' PROVE (Queued /\ Retained /\ Carried /\ Published)'
  <2>1. OneLane!Regular /\ Len(wire') = rec.next - from
    BY <1>9, <1>11, <1>17 DEF OneLane!Regular
  <2>2. Queued /\ Retained /\ Published
    BY <2>1 DEF WordsInv, RegularOK
  <2>3. Queued'
    BY <1>2, <1>9, <2>2 DEF Queued
  <2>4. Retained'
    BY <1>9, <2>2 DEF Retained
  <2>5. Published'
    BY <1>2, <1>9, <1>11, <2>2 DEF Published
  <2>6. ASSUME NEW e \in 1..Len(wire') PROVE wire'[e] = from + e
    <3> DEFINE i == Len(rec.sent) - Len(kept) + e
    <3>1. i \in 1..Len(rec.sent) /\ e \in 1..Len(kept)
      BY <1>8, <1>10
    <3>2. wire'[e] = rec.sent[i].frame
      BY <1>8, <1>10, <3>1
    <3>3. rec.sent[i].frame = rec.next - Len(rec.sent) + i
      BY <2>2, <3>1 DEF Retained
    <3>4. rec.next - Len(rec.sent) + i = from + e
      BY <1>1, <1>4, <1>8, <1>10, <2>1, <3>1
    <3> QED
      BY <3>2, <3>3, <3>4
  <2>7. Carried'
    <3>1. rec'.origin + prov'.proc <= rec'.acked
      BY <1>1, <1>2, <1>4, <1>9
    <3> QED
      BY <1>9, <2>1, <2>6, <3>1 DEF Carried
  <2> QED
    BY <2>3, <2>4, <2>5, <2>7
<1> QED
  BY <1>13, <1>14, <1>15, <1>16, <1>17 DEF WordsInv, RegularOK

-----------------------------------------------------------------------------
(* The steps of a session.                                                 *)

LEMMA Regrouped ==
  ASSUME NEW a \in Int, NEW b \in Int
  PROVE  (a + 1) - (b + 1) = a - b /\ a + (b + 1) = (a + 1) + b
  OBVIOUS

(* A block is sent and recorded: its place on this connection is the next. *)
Sent(f) ==
    /\ queue' \in Seq(OneLane!Frame) /\ Len(queue') = Len(queue) - 1
    /\ \A i \in 1..Len(queue') : queue'[i] = queue[i + 1]
    /\ f = queue[1] /\ Len(queue) # 0
Wired(f) ==
    /\ wire' \in Seq(OneLane!Frame) /\ Len(wire') = Len(wire) + 1
    /\ \A e \in 1..Len(wire) : wire'[e] = wire[e]
    /\ wire'[Len(wire) + 1] = f
Noted(f) ==
    /\ rec' \in Clocks /\ rec'.next = rec.next + 1 /\ rec'.acked = rec.acked
    /\ rec'.origin = rec.origin /\ Len(rec'.sent) = Len(rec.sent) + 1
    /\ \A i \in 1..Len(rec.sent) : rec'.sent[i] = rec.sent[i]
    /\ rec'.sent[Len(rec.sent) + 1].end = rec.next + 1
    /\ rec'.sent[Len(rec.sent) + 1].frame = f
SendsRest ==
    /\ input' = input /\ control' = control /\ paused' = paused /\ prov' = prov
    /\ suppress' = suppress /\ words' = words /\ past' = past
    /\ conn'.pc \in {"catchup", "live", "drain"}

LEMMA ForwardedKeeps ==
  ASSUME WordsInv, Configured, NEW f \in OneLane!Frame, Sent(f), Wired(f), Noted(f), SendsRest
  PROVE  WordsInv'
<1>1. /\ rec \in Clocks /\ rec.next \in Nat /\ rec.acked \in Nat /\ rec.origin \in Nat
      /\ rec.sent \in Seq(Places) /\ Len(rec.sent) \in Nat /\ Len(queue) \in Nat
      /\ Len(wire) \in Nat /\ wire \in Seq(OneLane!Frame) /\ queue \in Seq(OneLane!Frame)
      /\ prov.proc \in Nat /\ prov.fin \in Nat /\ input.made \in Nat
  BY LenProperties, LaneBounds DEF WordsInv, StreamTyped, Clocks, Progress, Inputs
<1>2. /\ queue' \in Seq(OneLane!Frame) /\ Len(queue') = Len(queue) - 1 /\ f = queue[1] /\ Len(queue) # 0
      /\ \A i \in 1..Len(queue') : queue'[i] = queue[i + 1]
  BY DEF Sent
<1>3. /\ wire' \in Seq(OneLane!Frame) /\ Len(wire') = Len(wire) + 1
      /\ \A e \in 1..Len(wire) : wire'[e] = wire[e]
      /\ wire'[Len(wire) + 1] = f
  BY DEF Wired
<1>4. /\ rec' \in Clocks /\ rec'.next = rec.next + 1 /\ rec'.acked = rec.acked
      /\ rec'.origin = rec.origin /\ Len(rec'.sent) = Len(rec.sent) + 1
  BY DEF Noted
<1>5. /\ \A i \in 1..Len(rec.sent) : rec'.sent[i] = rec.sent[i]
      /\ rec'.sent[Len(rec.sent) + 1].end = rec.next + 1
      /\ rec'.sent[Len(rec.sent) + 1].frame = f
  BY DEF Noted
<1>6. /\ input' = input /\ control' = control /\ paused' = paused /\ prov' = prov
      /\ suppress' = suppress /\ words' = words /\ past' = past
      /\ conn'.pc \in {"catchup", "live", "drain"}
  BY DEF SendsRest
<1>7. StreamTyped'
  <2>1. Len(queue') <= Capacity
    BY <1>1, <1>2, LaneBounds DEF WordsInv, StreamTyped
  <2> QED
    BY <1>2, <1>3, <1>4, <1>6, <2>1 DEF WordsInv, StreamTyped
<1>8. Placed'
  <2>1. /\ rec.next + Len(queue) <= input.made /\ rec.acked <= rec.next /\ rec.origin <= rec.next
        /\ prov.proc <= Len(wire) /\ prov.fin <= prov.proc
    BY DEF WordsInv, Placed
  <2>2. rec'.next + Len(queue') <= input'.made
    BY <1>1, <1>2, <1>4, <1>6, <2>1
  <2>3. prov'.proc <= Len(wire')
    BY <1>1, <1>3, <1>6, <2>1
  <2>4. rec'.acked <= rec'.next /\ rec'.origin <= rec'.next
    BY <1>1, <1>4, <2>1
  <2> QED
    BY <1>6, <2>1, <2>2, <2>3, <2>4 DEF Placed
<1>9. Apart'
  BY <1>6 DEF Apart
<1>10. Withheld'
  <2>1. \A g \in words.tail : \E e \in prov.fin + 1..prov.proc : g = wire[e]
    BY DEF WordsInv, Withheld
  <2>2. ASSUME NEW e \in prov.fin + 1..prov.proc PROVE wire'[e] = wire[e]
    <3>1. prov.proc <= Len(wire)
      BY DEF WordsInv, Placed
    <3>2. e \in 1..Len(wire)
      BY <1>1, <3>1
    <3> QED BY <1>3, <3>2
  <2>3. \A g \in words'.tail : \E e \in prov'.fin + 1..prov'.proc : g = wire'[e]
    BY <1>6, <2>1, <2>2
  <2> QED
    BY <1>4, <1>6, <2>3 DEF WordsInv, Withheld
<1>11. ASSUME OneLane!Regular' PROVE (Queued /\ Retained /\ Carried /\ Published)'
  <2>1. Queued /\ Retained /\ Carried /\ Published
    BY <1>6, <1>11 DEF WordsInv, RegularOK, OneLane!Regular
  <2>2. f = rec.next + 1
    BY <1>1, <1>2, <2>1 DEF Queued
  <2>3. Queued'
    <3>1. ~input'.cancelled => input'.made = rec'.next + Len(queue')
      BY <1>1, <1>2, <1>4, <1>6, <2>1 DEF Queued
    <3>2. ASSUME NEW i \in 1..Len(queue') PROVE queue'[i] = rec'.next + i
      <4>1. i + 1 \in 1..Len(queue) /\ i \in Nat
        BY <1>1, <1>2
      <4>2. queue[i + 1] = rec.next + (i + 1)
        BY <2>1, <4>1 DEF Queued
      <4>3. queue'[i] = queue[i + 1]
        BY <1>2
      <4>4. rec.next + (i + 1) = (rec.next + 1) + i
        <5>1. rec.next \in Int /\ i \in Int
          BY <1>1, <4>1
        <5> QED
          BY <5>1, Regrouped
      <4> QED
        BY <1>4, <4>2, <4>3, <4>4
    <3> QED
      BY <3>1, <3>2 DEF Queued
  <2>4. Retained'
    <3> DEFINE n == Len(rec.sent)
    <3>1. Len(rec'.sent) = n + 1
      BY <1>4
    <3>2. Len(rec'.sent) <= rec'.next /\ rec'.next - Len(rec'.sent) <= rec'.acked
      BY <1>1, <1>4, <2>1 DEF Retained
    <3>3. ASSUME NEW i \in 1..Len(rec'.sent)
          PROVE  rec'.sent[i].end = rec.next - n + i /\ rec'.sent[i].frame = rec.next - n + i
      <4>1. CASE i \in 1..n
        BY <1>5, <2>1, <4>1 DEF Retained
      <4>2. CASE i = n + 1
        <5>1. rec.next - n + i = rec.next + 1
          BY <1>1, <4>2
        <5> QED
          BY <1>5, <2>2, <4>2, <5>1
      <4>3. i \in 1..n \/ i = n + 1
        BY <1>1, <3>1
      <4> QED
        BY <4>1, <4>2, <4>3
    <3>4. rec'.next - Len(rec'.sent) = rec.next - n
      <4>1. (rec.next + 1) - (n + 1) = rec.next - n
        <5>1. rec.next \in Int /\ n \in Int
          BY <1>1
        <5> HIDE DEF n
        <5> QED
          BY <5>1, Regrouped
      <4> QED
        BY <1>4, <4>1
    <3> QED
      BY <3>2, <3>3, <3>4 DEF Retained
  <2>5. Carried'
    <3>1. /\ Len(wire) = rec.next - rec.origin /\ rec.origin + prov.proc <= rec.acked
          /\ \A e \in 1..Len(wire) : wire[e] = rec.origin + e
      BY <2>1 DEF Carried
    <3>2. Len(wire') = rec'.next - rec'.origin
      BY <1>1, <1>3, <1>4, <3>1
    <3>3. ASSUME NEW e \in 1..Len(wire') PROVE wire'[e] = rec.origin + e
      <4>1. CASE e \in 1..Len(wire)
        BY <1>3, <3>1, <4>1
      <4>2. CASE e = Len(wire) + 1
        <5>1. rec.next + 1 = rec.origin + e
          BY <1>1, <3>1, <4>2
        <5> QED
          BY <1>3, <2>2, <4>2, <5>1
      <4>3. e \in 1..Len(wire) \/ e = Len(wire) + 1
        BY <1>1, <1>3
      <4> QED
        BY <4>1, <4>2, <4>3
    <3> QED
      BY <1>4, <1>6, <3>1, <3>2, <3>3 DEF Carried
  <2>6. Published'
    BY <1>4, <1>6, <2>1 DEF Published
  <2> QED
    BY <2>3, <2>4, <2>5, <2>6
<1> QED
  BY <1>7, <1>8, <1>9, <1>10, <1>11 DEF WordsInv, RegularOK

Forwards ==
    /\ queue # <<>> /\ queue' = Tail(queue)
    /\ wire' = Append(wire, Head(queue))
    /\ rec' = OneLane!Recorded(rec, Head(queue))

LEMMA ForwardKeeps ==
  ASSUME WordsInv, Configured, Forwards, SendsRest
  PROVE  WordsInv'
<1> DEFINE f == Head(queue)
<1>1. /\ rec \in Clocks /\ rec.next \in Nat /\ rec.sent \in Seq(Places)
      /\ Len(rec.sent) \in Nat /\ wire \in Seq(OneLane!Frame) /\ queue \in Seq(OneLane!Frame)
  BY LenProperties DEF WordsInv, StreamTyped, Clocks
<1>2. f \in OneLane!Frame /\ Sent(f)
  <2>1. /\ queue # <<>> /\ queue' = Tail(queue)
    BY DEF Forwards
  <2>2. Len(queue) # 0
    BY <1>1, <2>1, EmptySeq
  <2>3. f = queue[1]
    BY <1>1, <2>1
  <2> QED
    BY <1>1, <2>1, <2>2, <2>3, HeadTailProperties DEF Sent
<1>3. Wired(f)
  BY <1>1, <1>2, AppendProperties DEF Wired, Forwards
<1>4. rec' = OneLane!Recorded(rec, f)
  BY DEF Forwards
<1> HIDE DEF f
<1> DEFINE x == [end |-> rec.next + 1, frame |-> f]
           sent == Append(rec.sent, x)
<1>5. x \in Places /\ x.end = rec.next + 1 /\ x.frame = f
  BY <1>1, <1>2 DEF Places
<1> DEFINE next == rec.next + 1
<1>6. rec' = [rec EXCEPT !.next = next, !.sent = sent] /\ next \in Nat
  BY <1>1, <1>4 DEF OneLane!Recorded
<1> HIDE DEF x
<1>7. /\ sent \in Seq(Places) /\ Len(sent) = Len(rec.sent) + 1
      /\ \A i \in 1..Len(rec.sent) : sent[i] = rec.sent[i]
      /\ sent[Len(rec.sent) + 1] = x
  BY <1>1, <1>5, AppendProperties
<1> HIDE DEF sent
<1> HIDE DEF next
<1>8. /\ rec' \in Clocks /\ rec'.next = next /\ rec'.acked = rec.acked
      /\ rec'.origin = rec.origin /\ rec'.sent = sent
  BY <1>1, <1>6, <1>7 DEF Clocks
<1>9. Noted(f)
  BY <1>5, <1>7, <1>8 DEF Noted, next
<1> QED
  BY <1>2, <1>3, <1>9, ForwardedKeeps

-----------------------------------------------------------------------------
(* A provider's answer.                                                    *)

LEMMA AcknowledgedIs ==
  ASSUME rec \in Clocks, rec.acked <= rec.next, NEW total \in Nat, NEW r, r = OneLane!Acknowledged(rec, total)
  PROVE  /\ r \in Clocks /\ r.next = rec.next /\ r.origin = rec.origin
         /\ rec.acked <= r.acked /\ r.acked <= rec.next
         /\ r.acked = rec.acked \/ r.acked <= rec.origin + total
         /\ rec.origin + total <= rec.next => rec.origin + total <= r.acked
         /\ r.sent = OneLane!Later(rec.sent, r.acked - Overlap)
<1> DEFINE seen == IF rec.origin + total < rec.next THEN rec.origin + total ELSE rec.next
           acked == IF rec.acked > seen THEN rec.acked ELSE seen
           kept == OneLane!Later(rec.sent, acked - Overlap)
<1>1. rec.next \in Nat /\ rec.acked \in Nat /\ rec.origin \in Nat /\ rec.sent \in Seq(Places)
  BY DEF Clocks
<1>2. /\ acked \in Nat /\ rec.acked <= acked /\ acked <= rec.next
      /\ acked = rec.acked \/ acked <= rec.origin + total
      /\ rec.origin + total <= rec.next => rec.origin + total <= acked
  BY <1>1
<1>3. r = [rec EXCEPT !.acked = acked, !.sent = kept]
  BY DEF OneLane!Acknowledged
<1> HIDE DEF acked
<1>4. acked - Overlap \in Int
  BY <1>2, LaneBounds
<1>5. kept \in Seq(Places)
  BY <1>1, <1>4, LaterKeeps
<1> HIDE DEF kept
<1>6. /\ r \in Clocks /\ r.next = rec.next /\ r.origin = rec.origin /\ r.acked = acked
      /\ r.sent = kept
  BY <1>2, <1>3, <1>5 DEF Clocks
<1> QED
  BY <1>2, <1>6 DEF kept

Answered(p, f) ==
    /\ p \in Nat /\ prov.proc <= p /\ p <= Len(wire)
    /\ f \in Nat /\ prov.fin <= f /\ f <= p

(* No word leaves the collector, and each that is not a repetition of the  *)
(* replayed overlap reaches it.                                            *)
LEMMA RespondWords ==
  ASSUME WordsInv, Configured, NEW p, NEW f, Answered(p, f),
         NEW w, w = OneLane!Emitted(words, OneLane!Fresh(p, prov.fin + 1..f), OneLane!Fresh(p, f + 1..p))
  PROVE  /\ w \in Collected
         /\ \A g \in w.tail : \E e \in f + 1..p : g = wire[e]
         /\ \A g \in words.settled \union words.tail : g \in w.settled \union w.tail
         /\ suppress = 0 \/ p > suppress =>
               \A e \in prov.fin + 1..p : e > suppress => wire[e] \in w.settled \union w.tail
         /\ p < suppress => w.tail = {}
<1>1. /\ p \in Nat /\ f \in Nat /\ prov.proc <= p /\ p <= Len(wire) /\ prov.fin <= f /\ f <= p
      /\ prov.proc \in Nat /\ prov.fin \in Nat /\ prov.fin <= prov.proc /\ suppress \in Nat
      /\ wire \in Seq(OneLane!Frame) /\ Len(wire) \in Nat /\ words \in Collected
  BY LenProperties DEF Answered, WordsInv, StreamTyped, Placed, Progress
<1>2. /\ \A g \in words.tail : \E e \in prov.fin + 1..prov.proc : g = wire[e]
      /\ suppress > 0 => prov.proc < suppress /\ words.tail = {}
  BY DEF WordsInv, Withheld
<1>3. CASE suppress > 0 /\ p <= suppress
  <2>1. w = words
    BY <1>3 DEF OneLane!Emitted, OneLane!Fresh
  <2>2. words.tail = {}
    BY <1>2, <1>3
  <2> QED
    BY <1>1, <1>3, <2>1, <2>2
<1>4. CASE ~(suppress > 0 /\ p <= suppress)
  <2> DEFINE A == {e \in prov.fin + 1..f : e > suppress}
             B == {e \in f + 1..p : e > suppress}
  <2>1. w = OneLane!Emitted(words, A, B)
    BY <1>4 DEF OneLane!Fresh
  <2>2. \A e \in A \union B : e \in 1..Len(wire)
    BY <1>1
  <2>3. \A e \in prov.fin + 1..p : e > suppress => e \in A \union B
    BY <1>1
  <2>4. A \subseteq prov.fin + 1..f /\ B \subseteq f + 1..p
    OBVIOUS
  <2> HIDE DEF A, B
  <2>5. \A e \in A \union B : wire[e] \in OneLane!Frame
    BY <1>1, <2>2, ElementOfSeq
  <2>6. ~(p < suppress)
    BY <1>1, <1>4
  <2>7. CASE A \union B = {}
    <3>1. w = words
      BY <2>1, <2>7 DEF OneLane!Emitted
    <3>2. ~(prov.fin < p)
      <4>1. SUFFICES ASSUME prov.fin < p PROVE FALSE
        OBVIOUS
      <4>2. p \in prov.fin + 1..p /\ p > suppress
        BY <1>1, <1>4, <4>1
      <4> QED
        BY <2>3, <2>7, <4>2
    <3>3. words.tail = {}
      BY <1>1, <1>2, <3>2
    <3> QED
      BY <1>1, <2>3, <2>6, <2>7, <3>1, <3>3
  <2>8. CASE A \union B # {}
    <3>1. w = [settled |-> words.settled \union {wire[e] : e \in A}, tail |-> {wire[e] : e \in B}]
      BY <2>1, <2>8 DEF OneLane!Emitted
    <3>2. /\ w.settled = words.settled \union {wire[e] : e \in A}
          /\ w.tail = {wire[e] : e \in B}
      BY <3>1
    <3>3. \A e \in A \union B : wire[e] \in w.settled \union w.tail
      BY <3>2
    <3>4. w \in Collected
      <4>1. w.settled \subseteq OneLane!Frame /\ w.tail \subseteq OneLane!Frame
        BY <1>1, <2>5, <3>2 DEF Collected
      <4> QED
        BY <3>1, <3>2, <4>1 DEF Collected
    <3>5. \A g \in w.tail : \E e \in f + 1..p : g = wire[e]
      BY <2>4, <3>2
    <3>6. ASSUME NEW g \in words.tail PROVE g \in w.settled \union w.tail
      <4>1. PICK e \in prov.fin + 1..prov.proc : g = wire[e]
        BY <1>2
      <4>2. suppress = 0
        BY <1>1, <1>2, <3>6
      <4>3. e \in prov.fin + 1..p /\ e > suppress
        BY <1>1, <4>2
      <4> QED
        BY <2>3, <3>3, <4>1, <4>3
    <3>7. \A g \in words.settled : g \in w.settled
      BY <3>2
    <3> QED
      BY <2>3, <2>6, <3>3, <3>4, <3>5, <3>6, <3>7
  <2> QED
    BY <2>7, <2>8
<1> QED
  BY <1>3, <1>4

(* A place after the confirmed position, on the connection's own clock.    *)
LEMMA Behind ==
  ASSUME NEW g \in Nat, NEW origin \in Nat, NEW acked \in Nat, NEW held \in Nat, NEW total \in Nat,
         NEW proc \in Nat, NEW fin \in Nat, NEW carried \in Nat,
         acked < g, g <= origin + total, held <= acked - origin, origin + proc <= acked,
         fin <= proc, total <= carried
  PROVE  /\ g - origin \in 1..carried /\ g - origin \in fin + 1..total
         /\ g - origin > held /\ total > held /\ origin + (g - origin) = g
  OBVIOUS

RespondsRest ==
    /\ input' = input /\ queue' = queue /\ control' = control /\ paused' = paused
    /\ wire' = wire /\ past' = past
    /\ conn'.pc \in {"catchup", "live", "drain", "over"}

LEMMA RespondKeeps ==
  ASSUME WordsInv, Configured, NEW p, NEW f, Answered(p, f), OneLane!Respond(p, f), RespondsRest
  PROVE  WordsInv'
<1>1. /\ p \in Nat /\ f \in Nat /\ prov.proc <= p /\ p <= Len(wire) /\ prov.fin <= f /\ f <= p
      /\ prov.proc \in Nat /\ prov.fin \in Nat /\ prov.fin <= prov.proc /\ suppress \in Nat
      /\ Len(wire) \in Nat /\ rec \in Clocks /\ rec.sent \in Seq(Places) /\ Len(rec.sent) \in Nat
      /\ rec.next \in Nat /\ rec.acked \in Nat /\ rec.origin \in Nat
      /\ rec.acked <= rec.next /\ rec.origin <= rec.next
  BY LenProperties DEF Answered, WordsInv, StreamTyped, Placed, Progress, Clocks
<1>2. /\ input' = input /\ queue' = queue /\ control' = control /\ paused' = paused
      /\ wire' = wire /\ past' = past
      /\ conn'.pc \in {"catchup", "live", "drain", "over"}
  BY DEF RespondsRest
<1>3. /\ prov'.proc = p /\ prov'.fin = f /\ prov' \in Progress
      /\ suppress' = IF p >= suppress THEN 0 ELSE suppress
  BY <1>1 DEF OneLane!Respond, Progress
<1>4. rec' = OneLane!Acknowledged(rec, p)
  BY DEF OneLane!Respond
<1>5. /\ rec' \in Clocks /\ rec'.next = rec.next /\ rec'.origin = rec.origin
      /\ rec.acked <= rec'.acked /\ rec'.acked <= rec.next
      /\ rec'.acked = rec.acked \/ rec'.acked <= rec.origin + p
      /\ rec.origin + p <= rec.next => rec.origin + p <= rec'.acked
      /\ rec'.sent = OneLane!Later(rec.sent, rec'.acked - Overlap)
  BY <1>1, <1>4, AcknowledgedIs
<1>6. rec'.acked \in Nat /\ rec'.acked - Overlap \in Int /\ rec'.acked - Overlap <= rec'.acked
  BY <1>5, LaneBounds DEF Clocks
<1>7. words' = OneLane!Emitted(words, OneLane!Fresh(p, prov.fin + 1..f), OneLane!Fresh(p, f + 1..p))
  BY DEF OneLane!Respond
<1>8. /\ words' \in Collected
      /\ \A g \in words'.tail : \E e \in f + 1..p : g = wire[e]
      /\ \A g \in words.settled \union words.tail : g \in words'.settled \union words'.tail
      /\ suppress = 0 \/ p > suppress =>
            \A e \in prov.fin + 1..p : e > suppress => wire[e] \in words'.settled \union words'.tail
      /\ p < suppress => words'.tail = {}
  BY <1>7, RespondWords
<1>9. StreamTyped'
  <2>1. suppress' \in Nat
    BY <1>1, <1>3
  <2> QED
    BY <1>2, <1>3, <1>5, <1>8, <2>1 DEF WordsInv, StreamTyped
<1>10. Placed'
  <2>1. rec.next + Len(queue) <= input.made
    BY DEF WordsInv, Placed
  <2> QED
    BY <1>1, <1>2, <1>3, <1>5, <2>1 DEF Placed
<1>11. Apart'
  BY <1>2 DEF Apart
<1>12. Withheld'
  <2>1. suppress <= rec.acked - rec.origin
    BY DEF WordsInv, Withheld
  <2>2. suppress' <= rec'.acked - rec'.origin
    BY <1>1, <1>3, <1>5, <1>6, <2>1
  <2>3. suppress' > 0 => p < suppress
    BY <1>1, <1>3
  <2>4. suppress' > 0 => prov'.proc < suppress' /\ words'.tail = {}
    BY <1>1, <1>3, <1>8, <2>3
  <2>5. \A g \in words'.tail : \E e \in prov'.fin + 1..prov'.proc : g = wire'[e]
    BY <1>2, <1>3, <1>8
  <2> QED
    BY <2>2, <2>4, <2>5 DEF Withheld
<1>13. ASSUME OneLane!Regular' PROVE (Queued /\ Retained /\ Carried /\ Published)'
  <2>1. Queued /\ Retained /\ Carried /\ Published
    BY <1>2, <1>13 DEF WordsInv, RegularOK, OneLane!Regular
  <2>2. /\ Len(wire) = rec.next - rec.origin /\ rec.origin + prov.proc <= rec.acked
        /\ \A e \in 1..Len(wire) : wire[e] = rec.origin + e
    BY <2>1 DEF Carried
  <2>3. Queued'
    BY <1>2, <1>5, <2>1 DEF Queued
  <2>4. Retained'
    <3> DEFINE n == Len(rec.sent)
               m == Len(rec'.sent)
    <3>1. /\ m \in Nat /\ m <= n /\ \A i \in 1..m : rec'.sent[i] = rec.sent[n - m + i]
          /\ m < n => rec.sent[n - m].end <= rec'.acked - Overlap
      BY <1>1, <1>5, <1>6, LaterKeeps
    <3>2. /\ n \in Nat /\ n <= rec.next /\ rec.next - n <= rec.acked
          /\ \A i \in 1..n : rec.sent[i].end = rec.next - n + i /\ rec.sent[i].frame = rec.next - n + i
      BY <1>1, <2>1 DEF Retained
    <3> HIDE DEF n, m
    <3>3. rec.next - m <= rec'.acked
      <4>1. CASE m = n
        BY <1>1, <1>5, <1>6, <3>2, <4>1
      <4>2. CASE m < n
        <5>1. n - m \in 1..n
          BY <3>1, <3>2, <4>2
        <5>2. rec.sent[n - m].end = rec.next - n + (n - m)
          BY <3>2, <5>1
        <5>3. rec.next - n + (n - m) = rec.next - m
          BY <1>1, <3>1, <3>2
        <5>4. rec.next - m <= rec'.acked - Overlap
          BY <3>1, <4>2, <5>2, <5>3
        <5> QED
          BY <1>1, <1>6, <3>1, <5>4, LaneBounds
      <4> QED
        BY <3>1, <3>2, <4>1, <4>2
    <3>4. ASSUME NEW i \in 1..m
          PROVE  rec'.sent[i].end = rec.next - m + i /\ rec'.sent[i].frame = rec.next - m + i
      <4>1. n - m + i \in 1..n
        BY <3>1, <3>2
      <4>2. rec.next - n + (n - m + i) = rec.next - m + i
        BY <1>1, <3>1, <3>2
      <4> QED
        BY <3>1, <3>2, <4>1, <4>2
    <3>5. m <= rec.next
      BY <1>1, <3>1, <3>2
    <3> QED
      BY <1>5, <3>3, <3>4, <3>5 DEF Retained, m
  <2>5. rec.origin + p <= rec.next
    BY <1>1, <2>2
  <2>6. Carried'
    BY <1>2, <1>3, <1>5, <2>2, <2>5 DEF Carried
  <2>7. Published'
    <3>1. ASSUME NEW g \in 1..rec'.acked
          PROVE  g \in words'.settled \/ g \in words'.tail \/ g \in past.given
      <4>1. CASE g <= rec.acked
        <5>1. g \in 1..rec.acked
          BY <1>1, <4>1
        <5> QED
          BY <1>8, <2>1, <5>1 DEF Published
      <4>2. CASE ~(g <= rec.acked)
        <5> DEFINE e == g - rec.origin
        <5>1. suppress <= rec.acked - rec.origin
          BY DEF WordsInv, Withheld
        <5>2. rec'.acked <= rec.origin + p
          BY <1>1, <1>5, <1>6, <4>2
        <5>3. g \in Nat /\ rec.acked < g /\ g <= rec.origin + p
          BY <1>1, <1>6, <4>2, <5>2
        <5>4. /\ e \in 1..Len(wire) /\ e \in prov.fin + 1..p /\ e > suppress /\ p > suppress
              /\ rec.origin + e = g
          <6>1. rec.origin + prov.proc <= rec.acked
            BY <2>2
          <6> DEFINE origin == rec.origin
                     acked == rec.acked
                     proc == prov.proc
                     fin == prov.fin
                     carried == Len(wire)
          <6>2. /\ origin \in Nat /\ acked \in Nat /\ proc \in Nat /\ fin \in Nat /\ carried \in Nat
                /\ suppress \in Nat /\ p \in Nat /\ g \in Nat
                /\ acked < g /\ g <= origin + p /\ suppress <= acked - origin
                /\ origin + proc <= acked /\ fin <= proc /\ p <= carried
            BY <1>1, <5>1, <5>3, <6>1
          <6> HIDE DEF origin, acked, proc, fin, carried
          <6>3. /\ g - origin \in 1..carried /\ g - origin \in fin + 1..p
                /\ g - origin > suppress /\ p > suppress /\ origin + (g - origin) = g
            BY <6>2, Behind
          <6> QED
            BY <6>3 DEF origin, fin, carried
        <5>5. wire[e] = g
          BY <2>2, <5>4
        <5> QED
          BY <1>8, <5>4, <5>5
      <4> QED
        BY <4>1, <4>2
    <3> QED
      BY <1>2, <3>1 DEF Published
  <2> QED
    BY <2>3, <2>4, <2>6, <2>7
<1> QED
  BY <1>9, <1>10, <1>11, <1>12, <1>13 DEF WordsInv, RegularOK

-----------------------------------------------------------------------------
(* Every step of the lane.                                                 *)

Rests == input' = input /\ control' = control /\ paused' = paused

LEMMA WordsTyped ==
  ASSUME WordsInv
  PROVE  /\ input \in Inputs /\ queue \in Seq(OneLane!Frame) /\ Len(queue) \in Nat
         /\ control \in OneLane!Command \union {"none"} /\ paused \in BOOLEAN
         /\ wire \in Seq(OneLane!Frame) /\ Len(wire) \in Nat /\ past \in Pasts /\ words \in Collected
  BY LenProperties DEF WordsInv, StreamTyped

(* The fence: with nothing queued it sends nothing.                        *)
LEMMA FenceKeeps ==
  ASSUME WordsInv, Configured, OneLane!Fence, conn'.pc \in {"catchup", "live", "drain"},
         control' \in OneLane!Command \union {"none"}, paused' \in BOOLEAN,
         input' = input, rec' = rec, prov' = prov, suppress' = suppress, words' = words
  PROVE  WordsInv'
<1>1. /\ input \in Inputs /\ queue \in Seq(OneLane!Frame) /\ Len(queue) \in Nat
      /\ wire \in Seq(OneLane!Frame) /\ Len(wire) \in Nat /\ past \in Pasts
  BY WordsTyped
<1>2. queue' = <<>> /\ wire' = wire \o queue /\ past' = [past EXCEPT !.skewed = @ \/ queue # <<>>]
  BY DEF OneLane!Fence
<1>3. CASE queue = <<>>
  <2>1. wire' = wire
    BY <1>1, <1>2, <1>3, ConcatEmptySeq
  <2>2. past' = past
    BY <1>1, <1>2, <1>3 DEF Pasts
  <2> QED
    BY <1>1, <1>2, <1>3, <2>1, <2>2, QuietKeeps
<1>4. CASE queue # <<>>
  <2>1. past' \in Pasts /\ past'.skewed
    BY <1>1, <1>2, <1>4 DEF Pasts
  <2>2. /\ wire' \in Seq(OneLane!Frame) /\ Len(wire') = Len(wire) + Len(queue)
        /\ \A e \in 1..Len(wire) + Len(queue) :
              wire'[e] = IF e <= Len(wire) THEN wire[e] ELSE queue[e - Len(wire)]
    BY <1>1, <1>2, ConcatProperties
  <2>3. Len(wire) <= Len(wire') /\ \A e \in 1..Len(wire) : wire'[e] = wire[e]
    BY <1>1, <2>2
  <2>4. queue' \in Seq(OneLane!Frame) /\ Len(queue') <= Len(queue)
    BY <1>1, <1>2, EmptySeq
  <2> QED
    BY <2>1, <2>2, <2>3, <2>4, SkewKeeps
<1> QED
  BY <1>3, <1>4

LEMMA OverKeeps ==
  ASSUME WordsInv, conn'.pc = "over", words' = OneLane!SettleTail(words), Rests,
         queue' = queue, rec' = rec, wire' = wire, prov' = prov, suppress' = suppress, past' = past
  PROVE  WordsInv'
<1>1. /\ words' \in Collected /\ words'.tail = {}
      /\ words'.settled = words.settled \union words.tail
  BY WordsTyped, SettledTail
<1>2. StreamTyped' /\ Placed'
  BY <1>1 DEF WordsInv, StreamTyped, Placed, Rests
<1>3. ASSUME OneLane!Regular' PROVE (Queued /\ Retained /\ Published)'
  <2>1. Queued /\ Retained /\ Published
    BY <1>3 DEF WordsInv, RegularOK, OneLane!Regular
  <2>2. Queued'
    BY <2>1 DEF Queued, Rests
  <2>3. Retained'
    BY <2>1 DEF Retained
  <2>4. Published'
    BY <1>1, <2>1 DEF Published
  <2> QED
    BY <2>2, <2>3, <2>4
<1>4. Apart' /\ Withheld' /\ Carried'
  BY DEF Apart, Withheld, Carried, Configured
<1> QED
  BY <1>2, <1>3, <1>4 DEF WordsInv, RegularOK

(* A block that leaves the queue and is not sent, or fails to be.          *)
LEMMA TakenKeeps ==
  ASSUME WordsInv, Configured, queue # <<>>, queue' = Tail(queue), Rests, rec' = rec,
         past' = [past EXCEPT !.skewed = TRUE]
  PROVE  /\ queue' \in Seq(OneLane!Frame) /\ Len(queue') <= Len(queue)
         /\ past' \in Pasts /\ past'.skewed /\ past'.given = past.given
<1>1. queue \in Seq(OneLane!Frame) /\ Len(queue) \in Nat /\ past \in Pasts
  BY WordsTyped
<1>2. queue' \in Seq(OneLane!Frame) /\ Len(queue') = Len(queue) - 1
  BY <1>1, HeadTailProperties
<1>3. past' \in Pasts /\ past'.skewed /\ past'.given = past.given
  BY <1>1 DEF Pasts
<1> QED
  BY <1>1, <1>2, <1>3

LEMMA LostKeeps ==
  ASSUME ConnTyped, WordsInv, Configured, queue # <<>>, queue' = Tail(queue), rec' = rec,
         past' = [past EXCEPT !.skewed = TRUE], OneLane!Fails, OneLane!Closed
  PROVE  WordsInv'
<1>1. Rests /\ wire' = <<>> /\ prov' = [proc |-> 0, fin |-> 0] /\ suppress' = 0
  BY DEF OneLane!Closed, Rests
<1>2. /\ queue' \in Seq(OneLane!Frame) /\ Len(queue') <= Len(queue)
      /\ past' \in Pasts /\ past'.skewed /\ past'.given = past.given
  BY <1>1, TakenKeeps
<1> QED
  BY <1>1, <1>2, WordsTyped, BreakKeeps DEF Rests

LEMMA CatchUpKeeps ==
  ASSUME ConnTyped, WordsInv, OneLane!CatchUp
  PROVE  WordsInv'
<1>1. Configured /\ conn.pc = "catchup"
  BY DEF OneLane!CatchUp, Configured
<1>2. CASE conn.outage = "paced" /\ queue # <<>>
  <2>1. queue' = Tail(queue)
    BY <1>2 DEF OneLane!CatchUp
  <2>2. CASE Forwards /\ conn' = conn /\ UNCHANGED <<input, control, paused, prov, suppress, words, past>>
    BY <1>1, <2>2, ForwardKeeps DEF SendsRest
  <2>3. CASE OneLane!Fails /\ OneLane!Closed /\ past' = [past EXCEPT !.skewed = TRUE] /\ rec' = rec
    BY <1>1, <1>2, <2>1, <2>3, LostKeeps
  <2> QED
    BY <1>2, <2>1, <2>2, <2>3 DEF OneLane!CatchUp, Forwards
<1>3. CASE ~(conn.outage = "paced" /\ queue # <<>>)
  <2>1. /\ conn' = [conn EXCEPT !.pc = "live"]
        /\ UNCHANGED <<input, control, paused, queue, wire, rec, prov, suppress, words, past>>
    BY <1>3 DEF OneLane!CatchUp
  <2>2. conn'.pc = "live"
    BY <2>1 DEF ConnTyped
  <2> QED
    BY <1>1, <2>1, <2>2, WordsTyped, QuietKeeps
<1> QED
  BY <1>2, <1>3

LEMMA LiveAudioKeeps ==
  ASSUME ConnTyped, WordsInv, OneLane!LiveAudio
  PROVE  WordsInv'
<1>1. Configured /\ conn.pc = "live" /\ queue # <<>> /\ queue' = Tail(queue)
  BY DEF OneLane!LiveAudio, OneLane!Listening, Configured
<1>2. CASE Forwards /\ conn' = conn /\ UNCHANGED <<input, control, paused, prov, suppress, words, past>>
  BY <1>1, <1>2, ForwardKeeps DEF SendsRest
<1>3. CASE OneLane!Fails /\ OneLane!Closed /\ past' = [past EXCEPT !.skewed = TRUE] /\ rec' = rec
  BY <1>1, <1>3, LostKeeps
<1>4. CASE /\ past' = [past EXCEPT !.skewed = TRUE]
           /\ UNCHANGED <<input, control, paused, conn, wire, rec, prov, suppress, words>>
  <2>1. Rests /\ rec' = rec
    BY <1>4 DEF Rests
  <2>2. /\ queue' \in Seq(OneLane!Frame) /\ Len(queue') <= Len(queue)
        /\ past' \in Pasts /\ past'.skewed
    BY <1>1, <1>4, <2>1, TakenKeeps
  <2>3. wire' \in Seq(OneLane!Frame) /\ Len(wire) <= Len(wire') /\ \A e \in 1..Len(wire) : wire'[e] = wire[e]
    BY <1>4, WordsTyped
  <2> QED
    BY <1>1, <1>4, <2>2, <2>3, WordsTyped, SkewKeeps
<1> QED
  BY <1>1, <1>2, <1>3, <1>4 DEF OneLane!LiveAudio, Forwards

LEMMA FenceFailsKeeps ==
  ASSUME ConnTyped, WordsInv, OneLane!FenceFails, OneLane!Fails, control' = "none", paused' = paused,
         input' = input, rec' = rec, wire' = <<>>, prov' = [proc |-> 0, fin |-> 0], suppress' = 0
  PROVE  WordsInv'
<1>1. queue \in Seq(OneLane!Frame) /\ Len(queue) \in Nat /\ past \in Pasts /\ paused \in BOOLEAN
  BY WordsTyped
<1>2. PICK n \in 0..Len(queue) : queue' = SubSeq(queue, n + 1, Len(queue))
  BY DEF OneLane!FenceFails
<1>3. \A i \in (n + 1)..Len(queue) : queue[i] \in OneLane!Frame
  <2> SUFFICES ASSUME NEW i \in (n + 1)..Len(queue) PROVE queue[i] \in OneLane!Frame
    OBVIOUS
  <2>1. i \in 1..Len(queue)
    BY <1>1
  <2> QED BY <1>1, <2>1, ElementOfSeq
<1>4. /\ queue' \in Seq(OneLane!Frame)
      /\ Len(queue') = IF n + 1 <= Len(queue) THEN Len(queue) - (n + 1) + 1 ELSE 0
  <2>1. n + 1 \in Int /\ Len(queue) \in Int
    BY <1>1
  <2> QED BY <1>2, <1>3, <2>1, SubSeqProperties
<1>5. Len(queue') <= Len(queue)
  BY <1>1, <1>4
<1> DEFINE fewer == queue' # queue
<1>6. past' = [past EXCEPT !.skewed = @ \/ fewer] /\ fewer \in BOOLEAN
  BY DEF OneLane!FenceFails
<1> HIDE DEF fewer
<1>7. /\ past' \in Pasts /\ past'.given = past.given /\ past'.hollow = past.hollow
      /\ past'.skewed = (past.skewed \/ fewer)
  BY <1>1, <1>6 DEF Pasts
<1>8. ~past'.skewed /\ ~past'.hollow => OneLane!Regular /\ queue' = queue
  BY <1>7 DEF OneLane!Regular, fewer
<1> QED
  BY <1>1, <1>4, <1>5, <1>7, <1>8, BreakKeeps

LEMMA LiveControlKeeps ==
  ASSUME ConnTyped, WordsInv, OneLane!LiveControl
  PROVE  WordsInv'
<1>1. Configured /\ conn.pc = "live"
  BY DEF OneLane!LiveControl, OneLane!Listening, Configured
<1>2. paused \in BOOLEAN /\ input \in Inputs /\ control \in OneLane!Command \union {"none"}
  BY WordsTyped
<1>3. CASE /\ OneLane!Fence /\ paused' = (paused \/ control = "Pause") /\ control' = "none"
           /\ UNCHANGED <<input, conn, rec, prov, suppress, words>>
  <2>1. paused' \in BOOLEAN
    BY <1>2, <1>3
  <2> QED
    BY <1>1, <1>3, <2>1, FenceKeeps
<1>4. CASE /\ paused' = FALSE /\ control' = "none"
           /\ UNCHANGED <<input, conn, queue, rec, wire, prov, suppress, words, past>>
  BY <1>1, <1>2, <1>4, QuietKeeps
<1>5. CASE /\ OneLane!Fence /\ control' = "none" /\ conn' = [conn EXCEPT !.pc = "drain"]
           /\ UNCHANGED <<input, paused, rec, prov, suppress, words>>
  <2>1. conn'.pc = "drain"
    BY <1>5 DEF ConnTyped
  <2> QED
    BY <1>1, <1>2, <1>5, <2>1, FenceKeeps
<1>6. CASE /\ OneLane!FenceFails /\ OneLane!Fails /\ control' = "none" /\ UNCHANGED <<input, paused, rec>>
           /\ wire' = <<>> /\ prov' = [proc |-> 0, fin |-> 0] /\ suppress' = 0
  BY <1>6, FenceFailsKeeps
<1> QED
  BY <1>3, <1>4, <1>5, <1>6 DEF OneLane!LiveControl

LEMMA ResponseKeeps ==
  ASSUME ConnTyped, WordsInv, OneLane!LiveResponse \/ OneLane!DrainResponse
  PROVE  WordsInv'
<1>1. /\ wire \in Seq(OneLane!Frame) /\ Len(wire) \in Nat /\ prov.proc \in Nat /\ prov.fin \in Nat
      /\ prov.fin <= prov.proc /\ prov.proc <= Len(wire)
  BY LenProperties DEF WordsInv, StreamTyped, Placed, Progress
<1>2. CASE OneLane!LiveResponse
  <2>1. Configured /\ conn.pc = "live" /\ RespondsRest
    BY <1>2 DEF OneLane!LiveResponse, OneLane!Listening, Configured, RespondsRest
  <2>2. PICK p \in prov.proc..Len(wire) : \E f \in prov.fin..p : OneLane!Respond(p, f)
    BY <1>2 DEF OneLane!LiveResponse
  <2>3. PICK f \in prov.fin..p : OneLane!Respond(p, f)
    BY <2>2
  <2>4. Answered(p, f)
    BY <1>1 DEF Answered
  <2> QED
    BY <2>1, <2>3, <2>4, RespondKeeps
<1>3. CASE OneLane!DrainResponse
  <2>1. Configured /\ conn.pc = "drain"
    BY <1>3 DEF OneLane!DrainResponse, Configured
  <2>2. conn'.pc = "over"
    BY <1>3 DEF OneLane!DrainResponse, OneLane!Over, ConnTyped
  <2>3. /\ input' = input /\ queue' = queue /\ control' = control /\ paused' = paused
        /\ wire' = wire /\ past' = past
    BY <1>3 DEF OneLane!DrainResponse
  <2>4. CASE OneLane!Respond(Len(wire), Len(wire))
    <3>1. Answered(Len(wire), Len(wire))
      BY <1>1 DEF Answered
    <3>2. RespondsRest
      BY <2>2, <2>3 DEF RespondsRest
    <3> QED
      BY <1>1, <2>1, <2>4, <3>1, <3>2, RespondKeeps
  <2>5. CASE words' = OneLane!SettleTail(words) /\ UNCHANGED <<rec, prov, suppress>>
    BY <2>2, <2>3, <2>5, OverKeeps DEF Rests
  <2> QED
    BY <1>3, <2>4, <2>5 DEF OneLane!DrainResponse
<1> QED
  BY <1>2, <1>3

LEMMA DownKeeps ==
  ASSUME ConnTyped, WordsInv, OneLane!SessionFails \/ OneLane!DialFails
  PROVE  WordsInv'
<1>1. /\ OneLane!Fails /\ Rests /\ queue' = queue /\ rec' = rec /\ past' = past
  BY DEF OneLane!SessionFails, OneLane!DialFails, OneLane!Closed, Rests
<1>2. wire' = <<>> /\ prov' = [proc |-> 0, fin |-> 0] /\ suppress' = 0
  <2>1. CASE OneLane!SessionFails
    BY <2>1 DEF OneLane!SessionFails, OneLane!Closed
  <2>2. CASE OneLane!DialFails
    <3>1. wire = <<>> /\ prov.proc = 0 /\ prov.fin = 0 /\ suppress = 0 /\ prov \in Progress
      BY <2>2 DEF OneLane!DialFails, WordsInv, StreamTyped, Apart
    <3>2. prov = [proc |-> 0, fin |-> 0]
      BY <3>1 DEF Progress
    <3> QED
      BY <2>2, <3>1, <3>2 DEF OneLane!DialFails
  <2> QED
    BY <2>1, <2>2
<1> QED
  BY <1>1, <1>2, WordsTyped, BreakKeeps DEF Rests, OneLane!Regular

LEMMA WaitKeeps ==
  ASSUME ConnTyped, WordsInv, OneLane!WaitControl \/ OneLane!WaitEnds \/ OneLane!Cancelled
  PROVE  WordsInv'
<1>1. /\ paused \in BOOLEAN /\ input \in Inputs /\ control \in OneLane!Command \union {"none"}
  BY WordsTyped
<1>2. /\ input' = input /\ queue' = queue /\ rec' = rec /\ wire' = wire /\ prov' = prov
      /\ suppress' = suppress /\ words' = words /\ past' = past
  BY DEF OneLane!WaitControl, OneLane!WaitEnds, OneLane!Cancelled
<1>3. CASE OneLane!WaitControl
  <2>1. conn.pc = "wait" /\ control' = "none" /\ paused' \in BOOLEAN
    BY <1>1, <1>3 DEF OneLane!WaitControl
  <2>2. conn'.pc = "over" \/ conn'.pc = "wait"
    BY <1>3, <2>1 DEF OneLane!WaitControl, OneLane!Over, ConnTyped
  <2> QED
    BY <1>1, <1>2, <2>1, <2>2, QuietKeeps
<1>4. CASE OneLane!WaitEnds
  <2>1. conn.pc = "wait" /\ control' = control /\ paused' = paused
    BY <1>4 DEF OneLane!WaitEnds
  <2>2. conn'.pc = "dial" /\ conn'.outage # "none"
    BY <1>4 DEF OneLane!WaitEnds, ConnTyped
  <2> QED
    BY <1>1, <1>2, <2>1, <2>2, QuietKeeps
<1>5. CASE OneLane!Cancelled
  <2>1. control' = control /\ paused' = paused /\ conn'.pc = "over"
    BY <1>5 DEF OneLane!Cancelled, OneLane!Over, ConnTyped
  <2> QED
    BY <1>1, <1>2, <2>1, QuietKeeps
<1> QED
  BY <1>3, <1>4, <1>5

LEMMA InputKeeps ==
  ASSUME WordsInv, OneLane!SendControl \/ OneLane!Cancel, conn.pc \in LanePc
  PROVE  WordsInv'
<1>1. /\ paused \in BOOLEAN /\ input \in Inputs /\ control \in OneLane!Command \union {"none"}
  BY WordsTyped
<1>2. /\ queue' = queue /\ rec' = rec /\ wire' = wire /\ prov' = prov /\ conn' = conn
      /\ suppress' = suppress /\ words' = words /\ past' = past /\ paused' = paused
  BY DEF OneLane!SendControl, OneLane!Command_, OneLane!Cancel
<1>3. control' \in OneLane!Command \union {"none"}
  BY <1>1 DEF OneLane!SendControl, OneLane!Command_, OneLane!Cancel, OneLane!Command
<1>4. /\ input' \in Inputs /\ input'.made = input.made
      /\ input.cancelled => input'.cancelled
  <2>1. \/ input' = input
        \/ input' = [input EXCEPT !.paused = TRUE] \/ input' = [input EXCEPT !.paused = FALSE]
        \/ input' = [input EXCEPT !.stopped = TRUE] \/ input' = [input EXCEPT !.cancelled = TRUE]
    BY DEF OneLane!SendControl, OneLane!Command_, OneLane!Cancel
  <2> QED
    BY <1>1, <2>1 DEF Inputs
<1>5. CASE conn.pc = "over"
  BY <1>1, <1>2, <1>3, <1>4, <1>5, QuietKeeps
<1>6. CASE Configured
  BY <1>1, <1>2, <1>3, <1>4, <1>6, QuietKeeps DEF Configured
<1>7. CASE conn.pc \in {"dial", "wait"}
  BY <1>1, <1>2, <1>3, <1>4, <1>7, QuietKeeps
<1> QED
  BY <1>5, <1>6, <1>7 DEF LanePc, Configured

LEMMA EndedKeeps ==
  ASSUME ConnTyped, WordsInv, UNCHANGED OneLane!vars
  PROVE  WordsInv'
<1>1. /\ paused \in BOOLEAN /\ input \in Inputs /\ control \in OneLane!Command \union {"none"}
  BY WordsTyped
<1>2. /\ queue' = queue /\ rec' = rec /\ wire' = wire /\ prov' = prov /\ conn' = conn
      /\ suppress' = suppress /\ words' = words /\ past' = past /\ paused' = paused
      /\ input' = input /\ control' = control
  BY DEF OneLane!vars
<1>3. CASE conn.pc = "over"
  BY <1>1, <1>2, <1>3, QuietKeeps
<1>4. CASE Configured
  BY <1>1, <1>2, <1>4, QuietKeeps DEF Configured
<1>5. CASE conn.pc \in {"dial", "wait"}
  BY <1>1, <1>2, <1>5, QuietKeeps
<1> QED
  BY <1>3, <1>4, <1>5 DEF ConnTyped, LanePc, Configured

LEMMA WordsInit == OneLane!Init => WordsInv
<1> SUFFICES ASSUME OneLane!Init PROVE WordsInv
  OBVIOUS
<1> USE LaneBounds
<1>1. /\ <<>> \in Seq(OneLane!Frame) /\ <<>> \in Seq(Places) /\ Len(<<>>) = 0
  BY EmptySeq
<1>2. StreamTyped
  <2>1. input \in Inputs /\ prov \in Progress /\ words \in Collected /\ past \in Pasts
    BY DEF OneLane!Init, Inputs, Progress, Collected, Pasts
  <2>2. rec \in Clocks
    BY <1>1 DEF OneLane!Init, Clocks
  <2>3. queue = <<>> /\ control = "none" /\ paused = FALSE /\ wire = <<>> /\ suppress = 0
    BY DEF OneLane!Init
  <2>4. Len(queue) <= Capacity
    BY <1>1, <2>3
  <2> QED
    BY <1>1, <2>1, <2>2, <2>3, <2>4 DEF StreamTyped
<1>3. Placed
  BY <1>1 DEF OneLane!Init, Placed
<1>4. Apart
  BY DEF OneLane!Init, Apart
<1>5. Withheld
  BY DEF OneLane!Init, Withheld, Configured
<1>6. Queued /\ Retained /\ Carried /\ Published
  BY <1>1 DEF OneLane!Init, Queued, Retained, Carried, Published, Configured
<1> QED
  BY <1>2, <1>3, <1>4, <1>5, <1>6 DEF WordsInv, RegularOK

LEMMA WordsStep ==
  ASSUME ConnTyped, WordsInv, [OneLane!Next]_(OneLane!vars)
  PROVE  WordsInv'
<1>1. CASE OneLane!PushPcm
  BY <1>1, PushPcmKeeps
<1>2. CASE OneLane!SendControl \/ OneLane!Cancel
  BY <1>2, InputKeeps DEF ConnTyped
<1>3. CASE OneLane!ConnectFirst
  BY <1>3, ConnectFirstKeeps
<1>4. CASE OneLane!ConnectAgain
  BY <1>4, ConnectLongKeeps, ConnectShortKeeps
<1>5. CASE OneLane!SessionFails \/ OneLane!DialFails
  BY <1>5, DownKeeps
<1>6. CASE OneLane!CatchUp
  BY <1>6, CatchUpKeeps
<1>7. CASE OneLane!LiveControl
  BY <1>7, LiveControlKeeps
<1>8. CASE OneLane!LiveAudio
  BY <1>8, LiveAudioKeeps
<1>9. CASE OneLane!LiveResponse \/ OneLane!DrainResponse
  BY <1>9, ResponseKeeps
<1>10. CASE OneLane!WaitControl \/ OneLane!WaitEnds \/ OneLane!Cancelled
  BY <1>10, WaitKeeps
<1>11. CASE OneLane!Ended \/ UNCHANGED OneLane!vars
  BY <1>11, EndedKeeps DEF OneLane!Ended
<1> QED
  BY <1>1, <1>2, <1>3, <1>4, <1>5, <1>6, <1>7, <1>8, <1>9, <1>10, <1>11 DEF OneLane!Next, OneLane!Stream

LEMMA WordsMean ==
  ASSUME ConnTyped, WordsInv
  PROVE  OneLane!WordsKeepTheirPlace
<1>1. /\ rec \in Clocks /\ rec.sent \in Seq(Places) /\ wire \in Seq(OneLane!Frame) /\ queue \in Seq(OneLane!Frame)
      /\ prov \in Progress /\ input \in Inputs /\ words \in Collected
      /\ rec.next \in Nat /\ rec.acked \in Nat /\ rec.origin \in Nat
      /\ prov.fin \in Nat /\ prov.proc \in Nat /\ input.made \in 0..MaxFrame
  BY DEF WordsInv, StreamTyped, Clocks, Progress, Inputs
<1>2. /\ Len(queue) \in Nat /\ Len(queue) <= Capacity /\ queue \in [1..Len(queue) -> OneLane!Frame]
      /\ Len(wire) \in Nat /\ DOMAIN wire = 1..Len(wire)
      /\ Len(rec.sent) \in Nat /\ DOMAIN rec.sent = 1..Len(rec.sent)
  BY <1>1, LenProperties DEF WordsInv, StreamTyped
<1>3. OneLane!StreamTypeOK
  <2>1. queue \in OneLane!BoundedSeq(OneLane!Frame, Capacity)
    <3>1. Len(queue) \in 0..Capacity
      BY <1>2, LaneBounds
    <3> QED
      BY <1>2, <3>1 DEF OneLane!BoundedSeq, OneLane!SeqOf
  <2>2. rec.next <= MaxFrame
    BY <1>1, <1>2, LaneBounds DEF WordsInv, Placed
  <2>3. rec.acked \in 0..rec.next /\ rec.origin \in 0..rec.next /\ rec.next \in 0..MaxFrame
    BY <1>1, <2>2, LaneBounds DEF WordsInv, Placed
  <2>4. \A i \in DOMAIN rec.sent : rec.sent[i].frame \in OneLane!Frame
    <3> SUFFICES ASSUME NEW i \in 1..Len(rec.sent) PROVE rec.sent[i].frame \in OneLane!Frame
      BY <1>2
    <3>1. rec.sent[i] \in Places
      BY <1>1, ElementOfSeq
    <3> QED BY <3>1 DEF Places
  <2>5. \A i \in DOMAIN wire : wire[i] \in OneLane!Frame
    BY <1>1, <1>2, ElementOfSeq
  <2>6. prov.fin \in 0..prov.proc /\ prov.proc \in 0..Len(wire)
    BY <1>1, <1>2 DEF WordsInv, Placed
  <2>7. conn.pc \in LanePc /\ conn.attempt \in 0..MaxAttempt /\ conn.outage \in OneLane!ToSet(OneLane!Outage)
    <3>1. conn.outage \in {"none", "fast", "paced", "long"}
      BY DEF ConnTyped
    <3>2. /\ DOMAIN OneLane!Outage = 1..4 /\ OneLane!Outage[1] = "none" /\ OneLane!Outage[2] = "fast"
          /\ OneLane!Outage[3] = "paced" /\ OneLane!Outage[4] = "long"
      BY DEF OneLane!Outage
    <3>3. conn.outage \in OneLane!ToSet(OneLane!Outage)
      BY <3>1, <3>2 DEF OneLane!ToSet
    <3> QED
      BY <3>3 DEF ConnTyped
  <2>8. input \in [made : 0..MaxFrame, paused : BOOLEAN, stopped : BOOLEAN, cancelled : BOOLEAN]
    BY <1>1 DEF Inputs
  <2>9. words.settled \subseteq OneLane!Frame /\ words.tail \subseteq OneLane!Frame
    BY <1>1 DEF Collected
  <2> QED
    BY <2>1, <2>3, <2>4, <2>5, <2>6, <2>7, <2>8, <2>9 DEF OneLane!StreamTypeOK, WordsInv, StreamTyped, LanePc
<1>4. OneLane!ConfirmedIsPublished
  BY DEF OneLane!ConfirmedIsPublished, WordsInv, RegularOK, Published
<1>5. OneLane!ClockIsCapture
  BY <1>2 DEF OneLane!ClockIsCapture, WordsInv, RegularOK, Carried, Configured
<1> QED
  BY <1>3, <1>4, <1>5 DEF OneLane!WordsKeepTheirPlace

(* Wherever the lane stands, what it retains, what it sent on this          *)
(* connection and what the provider made of it fit together.               *)
THEOREM WordsInvariant == OneLane!Spec => []WordsInv
<1>1. OneLane!Init => WordsInv
  BY WordsInit
<1>2. ConnInv /\ WordsInv /\ [OneLane!Next]_(OneLane!vars) => WordsInv'
  BY WordsStep DEF ConnInv
<1> QED
  BY <1>1, <1>2, LaneInvariant, PTL DEF OneLane!Spec

(* While every block that left the queue was recorded and every replay was *)
(* whole: no word up to the confirmed position is lost, and each keeps its *)
(* place on the capture's timeline, across any replays and outages.        *)
THEOREM WordsHold == OneLane!Spec => []WordsKeepTheirPlace
<1>1. ConnInv /\ WordsInv => WordsKeepTheirPlace
  BY WordsMean DEF ConnInv, WordsKeepTheirPlace
<1> QED
  BY <1>1, LaneInvariant, WordsInvariant, PTL

-----------------------------------------------------------------------------
(* The group of lanes.                                                     *)

LaneRow == [phase : {"new", "up", "down", "recovering", "over"},
            tries : 0..MaxTry, cancelled : BOOLEAN]
Flags == [connected : BOOLEAN, failed : BOOLEAN, accepted : BOOLEAN,
          ever : BOOLEAN, tail : BOOLEAN]
Collector == [pc : {"running", "ended", "failed", "aborted"}, lane : [Lane -> Flags]]
Token == [cancelled : BOOLEAN, refused : BOOLEAN, fault : BOOLEAN]
Run == [health : Health, cause : BOOLEAN, context : BOOLEAN,
        state : {"recording", "paused", "draining", "interrupted"}]
Owner == [owner : BOOLEAN, cleanup : {"none", "running", "done"},
          overlay : BOOLEAN, pc : {"idle", "finish", "drain", "join", "ended"}]

LanesTyped == lane \in [Lane -> LaneRow]
ChannelsTyped == chan \in [Lane -> Seq(Event)]
CollectorTyped == col \in Collector
GroupTyped == group \in Token
RunTyped == run \in Run
OwnerTyped == ffi \in Owner

OneOver == \A l \in Lane : Len(chan[l]) <= MaxQueued
                           \/ (lane[l].cancelled /\ Len(chan[l]) <= MaxQueued + 1)

DeadIsDark == \A l \in Lane : col.lane[l].failed => ~col.lane[l].connected

GroupInv ==
    /\ LanesTyped /\ ChannelsTyped /\ CollectorTyped /\ GroupTyped /\ RunTyped /\ OwnerTyped
    /\ OneOver /\ DeadIsDark /\ LiveIsTrue /\ RoomSurvives

-----------------------------------------------------------------------------
\* A channel is as the type invariant of the module says.
LEMMA Channels ==
    ASSUME ChannelsTyped, OneOver, NEW l \in Lane
    PROVE  chan[l] \in BoundedSeq(Event, MaxQueued + 1)
  <1>1. chan[l] \in Seq(Event) /\ Len(chan[l]) \in 0..(MaxQueued + 1)
    BY GroupAssumption DEF ChannelsTyped, OneOver
  <1> QED
    BY <1>1 DEF BoundedSeq, SeqOf

\* What is put into a channel, at its end or further in front.
LEMMA Inserts ==
    ASSUME NEW s \in Seq(Event), NEW e \in Event, NEW at \in 0..Len(s)
    PROVE  InsertAt(s, at + 1, e) \in Seq(Event) /\ Len(InsertAt(s, at + 1, e)) = Len(s) + 1
  <1>1. SubSeq(s, 1, (at + 1) - 1) \in Seq(Event) /\ Len(SubSeq(s, 1, (at + 1) - 1)) = at
    BY SubSeqProperties, (at + 1) - 1 = at
  <1>2. SubSeq(s, at + 1, Len(s)) \in Seq(Event) /\ Len(SubSeq(s, at + 1, Len(s))) = Len(s) - at
    BY SubSeqProperties
  <1>3. <<e>> \in Seq(Event) /\ Len(<<e>>) = 1
    OBVIOUS
  <1> DEFINE a == SubSeq(s, 1, (at + 1) - 1)
             b == SubSeq(s, at + 1, Len(s))
  <1>4. InsertAt(s, at + 1, e) = (a \o <<e>>) \o b
    BY DEF InsertAt
  <1> HIDE DEF a, b
  <1>5. (a \o <<e>>) \in Seq(Event) /\ Len(a \o <<e>>) = at + 1
    BY <1>1, <1>3, ConcatProperties DEF a
  <1>6. b \in Seq(Event) /\ Len(b) = Len(s) - at
    BY <1>2 DEF b
  <1> DEFINE f == a \o <<e>>
  <1> HIDE DEF f
  <1>7. f \in Seq(Event) /\ Len(f) = at + 1
    BY <1>5 DEF f
  <1>8. f \o b \in Seq(Event) /\ Len(f \o b) = Len(f) + Len(b)
    BY <1>6, <1>7, ConcatProperties
  <1>9. InsertAt(s, at + 1, e) = f \o b
    BY <1>4 DEF f
  <1>10. Len(s) \in Nat
    BY LenProperties
  <1>11. (at + 1) + (Len(s) - at) = Len(s) + 1
    BY <1>10
  <1>12. Len(f \o b) = Len(s) + 1
    BY <1>6, <1>7, <1>8, <1>11
  <1> QED
    BY <1>8, <1>9, <1>12, Zenon

-----------------------------------------------------------------------------
\* Health, as update_remote_health writes it.
LEMMA Healths ==
    ASSUME NEW r \in Run, NEW h \in Health, NEW cause \in BOOLEAN
    PROVE  WithHealth(r, h, cause) \in Run /\ WithHealth(r, h, cause).health = h
  <1> DEFINE c == cause \/ (h # "live" /\ r.cause)
  <1>1. c \in BOOLEAN
    OBVIOUS
  <1>2. WithHealth(r, h, cause) = [r EXCEPT !.health = h, !.cause = c]
    BY Zenon DEF WithHealth
  <1> HIDE DEF c
  <1> QED
    BY <1>1, <1>2 DEF Run

AllUp(c) == \A k \in Lane : c[k].connected /\ ~c[k].failed

LEMMA ConnectedOutcome ==
    ASSUME NEW c \in [Lane -> Flags], NEW r \in Run, NEW l \in Lane
    PROVE  LET o == Connected(l, c, r)
           IN  /\ o.lanes \in [Lane -> Flags] /\ o.run \in Run
               /\ \A k \in Lane : k # l => o.lanes[k] = c[k]
               /\ o.lanes[l].failed = c[l].failed /\ o.lanes[l].tail = c[l].tail
               /\ o.run.health = "live" => AllUp(o.lanes) \/ (r.health = "live" /\ ~AllUp(c))
  <1> DEFINE d == [c EXCEPT ![l].connected = TRUE, ![l].ever = TRUE]
  <1>1. /\ d \in [Lane -> Flags]
        /\ \A k \in Lane : k # l => d[k] = c[k]
        /\ d[l].connected /\ d[l].failed = c[l].failed /\ d[l].tail = c[l].tail
    BY DEF Flags
  <1>2. Connected(l, c, r).lanes = d
        /\ Connected(l, c, r).run = IF Up(d)
              THEN WithHealth(r, IF Dark(d) THEN "degraded" ELSE "live", FALSE) ELSE r
    BY DEF Connected
  <1> HIDE DEF d
  <1>3. CASE Up(d) /\ Dark(d)
    BY <1>1, <1>2, <1>3, Healths DEF Health
  <1>4. CASE Up(d) /\ ~Dark(d)
    BY <1>1, <1>2, <1>4, Healths DEF Health, Up, Dark, AllUp
  <1>5. CASE ~Up(d)
    BY <1>1, <1>2, <1>5 DEF Up, AllUp
  <1> QED
    BY <1>3, <1>4, <1>5

LEMMA ReconnectingOutcome ==
    ASSUME NEW c \in [Lane -> Flags], NEW r \in Run, NEW l \in Lane
    PROVE  LET o == Reconnecting(l, c, r)
           IN  /\ o.lanes \in [Lane -> Flags] /\ o.run \in Run /\ o.run.health # "live"
               /\ \A k \in Lane : k # l => o.lanes[k] = c[k]
               /\ o.lanes[l].failed = c[l].failed /\ ~o.lanes[l].connected
  <1> DEFINE d == [c EXCEPT ![l].connected = FALSE, ![l].tail = FALSE]
  <1>1. /\ d \in [Lane -> Flags]
        /\ \A k \in Lane : k # l => d[k] = c[k]
        /\ ~d[l].connected /\ d[l].failed = c[l].failed
    BY DEF Flags
  <1>2. Reconnecting(l, c, r).lanes = d
        /\ Reconnecting(l, c, r).run
             = WithHealth(r, IF l = Canonical THEN "connecting" ELSE "degraded", FALSE)
    BY DEF Reconnecting
  <1> HIDE DEF d
  <1>3. \A cause \in BOOLEAN, h \in Health : WithHealth(r, h, cause) \in Run /\ WithHealth(r, h, cause).health = h
    BY Healths
  <1> QED
    BY <1>1, <1>2, <1>3 DEF Health

LEMMA RespondedOutcome ==
    ASSUME NEW c \in [Lane -> Flags], NEW r \in Run, NEW l \in Lane, NEW open \in BOOLEAN
    PROVE  LET o == Responded(l, c, r, open)
           IN  /\ o.lanes \in [Lane -> Flags] /\ o.run = r
               /\ \A k \in Lane : k # l => o.lanes[k] = c[k]
               /\ o.lanes[l].failed = c[l].failed /\ o.lanes[l].connected = c[l].connected
  BY DEF Responded, Flags

LEMMA TombstoneOutcome ==
    ASSUME NEW c \in [Lane -> Flags], NEW r \in Run, NEW l \in Lane, NEW e \in Event
    PROVE  LET o == Tombstone(l, c, r, e)
           IN  /\ o.lanes \in [Lane -> Flags] /\ o.run \in Run /\ o.run.health # "live"
               /\ \A k \in Lane : k # l => o.lanes[k] = c[k]
               /\ o.lanes[l].failed /\ ~o.lanes[l].connected
  <1> DEFINE d == [c EXCEPT ![l].connected = FALSE, ![l].failed = TRUE, ![l].tail = FALSE]
  <1>1. /\ d \in [Lane -> Flags]
        /\ \A k \in Lane : k # l => d[k] = c[k]
        /\ ~d[l].connected /\ d[l].failed
    BY DEF Flags
  <1>2. PICK left \in {"degraded", "unavailable"} :
          Tombstone(l, c, r, e).lanes = d /\ Tombstone(l, c, r, e).run = WithHealth(r, left, TRUE)
    BY DEF Tombstone
  <1> HIDE DEF d
  <1>3. \A cause \in BOOLEAN, h \in Health : WithHealth(r, h, cause) \in Run /\ WithHealth(r, h, cause).health = h
    BY Healths
  <1> QED
    BY <1>1, <1>2, <1>3 DEF Health

\* One event that a lane still takes, whatever it is.
LEMMA Outcomes ==
    ASSUME NEW c \in [Lane -> Flags], NEW r \in Run, NEW l \in Lane, NEW e \in Event,
           NEW open \in BOOLEAN, c[l].failed => e = "discontinuity" /\ ~c[l].connected
    PROVE  LET o == Outcome(l, e, c, r, open)
           IN  /\ o.lanes \in [Lane -> Flags] /\ o.run \in Run
               /\ \A k \in Lane : k # l => o.lanes[k] = c[k]
               /\ c[l].failed => o.lanes[l] = c[l]
               /\ e \in {"error", "discontinuity"} => o.lanes[l].failed
               /\ o.lanes[l].failed => ~o.lanes[l].connected
               /\ o.run.health = "live" => AllUp(o.lanes) \/ (r.health = "live" /\ ~AllUp(c))
  <1> DEFINE o == Outcome(l, e, c, r, open)
  <1>1. CASE e = "connected"
    <2>1. o = Connected(l, c, r)
      BY <1>1 DEF Outcome
    <2> QED
      BY <1>1, <2>1, ConnectedOutcome
  <1>2. CASE e = "reconnecting"
    <2>1. o = Reconnecting(l, c, r)
      BY <1>2 DEF Outcome
    <2> QED
      BY <1>2, <2>1, ReconnectingOutcome
  <1>3. CASE e = "recovery"
    <2>1. o = [lanes |-> c, run |-> r]
      BY <1>3 DEF Outcome
    <2> QED
      BY <1>3, <2>1 DEF AllUp
  <1>4. CASE e \in {"response", "finished"}
    <2>1. PICK b \in BOOLEAN : o = Responded(l, c, r, b)
      BY <1>4 DEF Outcome
    <2> QED
      BY <1>4, <2>1, RespondedOutcome DEF AllUp
  <1>5. CASE e \in {"error", "discontinuity"}
    <2>1. o = IF c[l].failed THEN [lanes |-> c, run |-> r] ELSE Tombstone(l, c, r, e)
      BY <1>5 DEF Outcome
    <2> QED
      BY <1>5, <2>1, TombstoneOutcome DEF AllUp
  <1> QED
    BY <1>1, <1>2, <1>3, <1>4, <1>5 DEF Event
-----------------------------------------------------------------------------
\* What each step may change, variable by variable.
PcOnly == \E p \in {"running", "ended", "failed", "aborted"} :
             col' = [col EXCEPT !.pc = p] /\ (p = "running" => col.pc = "running")

LEMMA Frame ==
    ASSUME CollectorTyped, [Next]_vars
    PROVE  /\ UNCHANGED <<lane, chan>> \/ Lanes \/ (FansOut /\ UNCHANGED col)
              \/ (Abort /\ UNCHANGED chan) \/ (UNCHANGED lane /\ \E l \in Lane : Collect(l))
           /\ UNCHANGED col \/ (\E l \in Lane : Collect(l)) \/ PcOnly
           /\ Lanes => OnlyLanes
  <1> USE DEF OnlyLanes
  <1>0. ASSUME col' = [col EXCEPT !.pc = IF Collecting THEN "aborted" ELSE @] PROVE PcOnly
    <2> DEFINE p == IF Collecting THEN "aborted" ELSE col.pc
    <2>1. p \in {"running", "ended", "failed", "aborted"} /\ (p = "running" => col.pc = "running")
      BY DEF CollectorTyped, Collector, Collecting
    <2> QED
      BY <1>0, <2>1 DEF PcOnly
  <1>1. ASSUME NEW l \in Lane,
               LaneConnects(l) \/ LaneDrops(l) \/ LaneRecovers(l) \/ LaneResponds(l)
               \/ LaneEnds(l) \/ LaneSilenced(l)
        PROVE  OnlyLanes
    BY <1>1 DEF LaneConnects, LaneDrops, LaneRecovers, LaneResponds, LaneEnds, LaneSilenced
  <1>2. Lanes => OnlyLanes
    BY <1>1 DEF Lanes
  <1>3. ASSUME NEW l \in Lane, Collect(l) PROVE UNCHANGED lane
    BY <1>3 DEF Collect
  <1>4. CASE CollectorEnds
    BY <1>2, <1>4 DEF CollectorEnds, PcOnly
  <1>5. CASE Push \/ PauseOrResume
    <2>1. UNCHANGED col /\ (UNCHANGED <<lane, chan>> \/ FansOut)
      BY <1>5 DEF Push, PauseOrResume
    <2> QED
      BY <1>2, <2>1
  <1>6. CASE PushFails
    BY <1>2, <1>6 DEF PushFails
  <1>7. CASE CleanupEnds
    BY <1>0, <1>2, <1>7 DEF CleanupEnds
  <1>8. CASE ControlFails
    <2>1. Abort /\ UNCHANGED chan
          /\ col' = [col EXCEPT !.pc = IF Collecting THEN "aborted" ELSE @]
      BY <1>8 DEF ControlFails
    <2> QED
      BY <1>0, <1>2, <2>1
  <1>9. CASE StopBegins \/ StreamsJoined
    <2>1. UNCHANGED <<chan, col>> /\ (UNCHANGED lane \/ Abort)
      BY <1>9 DEF StopBegins, StreamsJoined
    <2> QED
      BY <1>2, <2>1
  <1>10. CASE CollectorJoined
    <2>1. UNCHANGED <<lane, chan>>
          /\ (UNCHANGED col \/ col' = [col EXCEPT !.pc = IF Collecting THEN "aborted" ELSE @])
      BY <1>10 DEF CollectorJoined
    <2> QED
      BY <1>0, <1>2, <2>1
  <1>11. CASE StopEnds \/ Done \/ UNCHANGED vars
    BY <1>2, <1>11 DEF StopEnds, Done, vars
  <1> QED
    BY <1>2, <1>3, <1>4, <1>5, <1>6, <1>7, <1>8, <1>9, <1>10, <1>11 DEF Next

\* A lane emits into a channel that has room, or ends without a word.
LEMMA LaneMoves ==
    ASSUME LanesTyped, ChannelsTyped, OneOver, Lanes
    PROVE  /\ LanesTyped' /\ ChannelsTyped' /\ OneOver'
           /\ \A l \in Lane : lane[l].phase = "over" => lane'[l].phase = "over"
  <1> USE DEF LanesTyped
  <1>1. ASSUME NEW l \in Lane, NEW e \in Event, Room(l), Heard(l, e),
               \A k \in Lane : lane'[k].cancelled = lane[k].cancelled
        PROVE  ChannelsTyped' /\ OneOver'
    <2>1. Append(chan[l], e) \in Seq(Event) /\ Len(Append(chan[l], e)) = Len(chan[l]) + 1
          /\ Len(chan[l]) \in Nat
      BY <1>1, AppendProperties, LenProperties DEF ChannelsTyped
    <2>2. chan' = [chan EXCEPT ![l] = Append(chan[l], e)]
      BY <1>1 DEF Heard
    <2>3. chan'[l] = Append(chan[l], e) /\ \A k \in Lane : k # l => chan'[k] = chan[k]
      BY <2>2 DEF ChannelsTyped
    <2>4. Len(chan[l]) < MaxQueued
      BY <1>1 DEF Room
    <2>5. ChannelsTyped'
      BY <2>1, <2>2 DEF ChannelsTyped
    <2>6. Len(chan'[l]) <= MaxQueued
      BY <2>1, <2>3, <2>4, GroupAssumption
    <2>7. OneOver'
      BY <1>1, <2>3, <2>6 DEF OneOver
    <2> QED
      BY <2>5, <2>7
  <1>2. ASSUME UNCHANGED chan, \A k \in Lane : lane'[k].cancelled = lane[k].cancelled
        PROVE  ChannelsTyped' /\ OneOver'
    BY <1>2 DEF ChannelsTyped, OneOver
  <1>3. ASSUME NEW l \in Lane, NEW p \in {"up", "recovering", "over"}, Moves(l, p),
               lane[l].phase # "over" \/ p = "over"
        PROVE  /\ LanesTyped' /\ \A k \in Lane : lane'[k].cancelled = lane[k].cancelled
               /\ \A k \in Lane : lane[k].phase = "over" => lane'[k].phase = "over"
    BY <1>3 DEF Moves, LaneRow
  <1>4. ASSUME NEW l \in Lane, LaneConnects(l) \/ LaneRecovers(l)
        PROVE  /\ LanesTyped' /\ ChannelsTyped' /\ OneOver'
               /\ \A k \in Lane : lane[k].phase = "over" => lane'[k].phase = "over"
    <2>1. CASE LaneConnects(l)
      BY <1>1, <1>3, <2>1 DEF LaneConnects, Event
    <2>2. CASE LaneRecovers(l)
      BY <1>1, <1>3, <2>2 DEF LaneRecovers, Event
    <2> QED
      BY <1>4, <2>1, <2>2
  <1>5. ASSUME NEW l \in Lane, LaneDrops(l)
        PROVE  /\ LanesTyped' /\ ChannelsTyped' /\ OneOver'
               /\ \A k \in Lane : lane[k].phase = "over" => lane'[k].phase = "over"
    <2> DEFINE n == IF lane[l].phase \in {"up", "recovering"} THEN 1 ELSE lane[l].tries + 1
    <2>0. lane[l].tries \in Nat
      BY GroupAssumption DEF LaneRow
    <2>1. n \in Nat /\ n <= MaxTry /\ lane' = [lane EXCEPT ![l].phase = "down", ![l].tries = n]
      BY <1>5, <2>0 DEF LaneDrops
    <2> HIDE DEF n
    <2>2. lane[l].phase # "over" /\ Room(l) /\ Heard(l, "reconnecting")
      BY <1>5 DEF LaneDrops
    <2>3. /\ LanesTyped' /\ \A k \in Lane : lane'[k].cancelled = lane[k].cancelled
          /\ \A k \in Lane : lane[k].phase = "over" => lane'[k].phase = "over"
      <3>1. n \in 0..MaxTry
        BY <2>1, GroupAssumption
      <3>2. /\ \A k \in Lane : k # l => lane'[k] = lane[k]
            /\ lane'[l].cancelled = lane[l].cancelled /\ lane' \in [Lane -> LaneRow]
        BY <2>1, <3>1 DEF LaneRow
      <3> QED
        BY <2>2, <3>2
    <2> QED
      BY <1>1, <2>2, <2>3 DEF Event
  <1>6. ASSUME NEW l \in Lane, LaneResponds(l)
        PROVE  /\ LanesTyped' /\ ChannelsTyped' /\ OneOver'
               /\ \A k \in Lane : lane[k].phase = "over" => lane'[k].phase = "over"
    BY <1>1, <1>6 DEF LaneResponds, Event
  <1>7. ASSUME NEW l \in Lane, LaneEnds(l)
        PROVE  /\ LanesTyped' /\ ChannelsTyped' /\ OneOver'
               /\ \A k \in Lane : lane[k].phase = "over" => lane'[k].phase = "over"
    BY <1>1, <1>3, <1>7 DEF LaneEnds, Event
  <1>8. ASSUME NEW l \in Lane, LaneSilenced(l)
        PROVE  /\ LanesTyped' /\ ChannelsTyped' /\ OneOver'
               /\ \A k \in Lane : lane[k].phase = "over" => lane'[k].phase = "over"
    BY <1>2, <1>3, <1>8 DEF LaneSilenced
  <1> QED
    BY <1>4, <1>5, <1>6, <1>7, <1>8 DEF Lanes

\* A discontinuity goes once into the channel of a lane, whatever waits there.
LEMMA Isolates ==
    ASSUME LanesTyped, ChannelsTyped, OneOver, FansOut
    PROVE  /\ LanesTyped' /\ ChannelsTyped' /\ OneOver'
           /\ \A l \in Lane : lane[l].phase = "over" => lane'[l].phase = "over"
  <1>1. PICK holes \in SUBSET {l \in Fed \ {Canonical} : CannotTake(l)} : Isolated(holes)
    BY DEF FansOut
  <1>2. PICK at \in [holes -> 0..MaxQueued] :
          /\ \A l \in holes : at[l] <= Len(chan[l])
          /\ chan' = [l \in Lane |->
               IF l \in holes THEN InsertAt(chan[l], at[l] + 1, "discontinuity") ELSE chan[l]]
    BY <1>1 DEF Isolated
  <1>3. lane' = [l \in Lane |-> IF l \in holes THEN [lane[l] EXCEPT !.cancelled = TRUE] ELSE lane[l]]
    BY <1>1 DEF Isolated
  <1>4. \A l \in holes : l \in Lane /\ ~lane[l].cancelled
    BY DEF Fed
  <1>5. ASSUME NEW l \in Lane
        PROVE  /\ lane'[l] \in LaneRow /\ lane'[l].phase = lane[l].phase
               /\ lane'[l].cancelled = (l \in holes \/ lane[l].cancelled)
    BY <1>3, <1>4 DEF LanesTyped, LaneRow
  <1>6. ASSUME NEW l \in holes
        PROVE  chan'[l] \in Seq(Event) /\ Len(chan'[l]) = Len(chan[l]) + 1 /\ Len(chan[l]) <= MaxQueued
    <2>1. chan[l] \in Seq(Event) /\ Len(chan[l]) \in Nat /\ "discontinuity" \in Event
      BY <1>4, LenProperties DEF ChannelsTyped, Event
    <2>2. at[l] \in 0..Len(chan[l])
      BY <1>2, <2>1, GroupAssumption
    <2>3. chan'[l] = InsertAt(chan[l], at[l] + 1, "discontinuity")
      BY <1>2, <1>4
    <2>4. chan'[l] \in Seq(Event) /\ Len(chan'[l]) = Len(chan[l]) + 1
      BY <2>1, <2>2, <2>3, Inserts
    <2>5. Len(chan[l]) <= MaxQueued
      BY <1>4 DEF OneOver
    <2> QED
      BY <2>4, <2>5
  <1>7. \A l \in Lane : l \notin holes => chan'[l] = chan[l]
    BY <1>2
  <1>8. LanesTyped'
    BY <1>3, <1>5 DEF LanesTyped
  <1>9. ChannelsTyped'
    BY <1>2, <1>6, <1>7 DEF ChannelsTyped
  <1>10. OneOver'
    <2>1. ASSUME NEW l \in holes
          PROVE  lane'[l].cancelled /\ Len(chan'[l]) <= MaxQueued + 1
      <3>1. Len(chan[l]) \in Nat
        BY <1>4, LenProperties DEF ChannelsTyped
      <3>2. lane'[l].cancelled
        BY <1>4, <1>5
      <3>3. Len(chan'[l]) = Len(chan[l]) + 1 /\ Len(chan[l]) <= MaxQueued
        BY <1>6
      <3> QED
        BY <3>1, <3>2, <3>3, GroupAssumption
    <2>2. ASSUME NEW l \in Lane, l \notin holes
          PROVE  (lane[l].cancelled => lane'[l].cancelled) /\ Len(chan'[l]) = Len(chan[l])
      BY <1>5, <1>7, <2>2
    <2> QED
      BY <2>1, <2>2 DEF OneOver
  <1> QED
    BY <1>5, <1>8, <1>9, <1>10

\* The lanes and their channels, whoever moves them.
LEMMA LanesStep ==
    ASSUME CollectorTyped, LanesTyped, ChannelsTyped, OneOver, [Next]_vars
    PROVE  /\ LanesTyped' /\ ChannelsTyped' /\ OneOver'
           /\ \A l \in Lane : lane[l].phase = "over" => lane'[l].phase = "over"
  <1>1. CASE Abort /\ UNCHANGED chan
    <2>1. lane' = [l \in Lane |-> [lane[l] EXCEPT !.phase = "over"]]
      BY <1>1 DEF Abort
    <2> QED
      BY <1>1, <2>1 DEF LanesTyped, LaneRow, ChannelsTyped, OneOver
  <1>2. ASSUME UNCHANGED lane, NEW l \in Lane, Collect(l)
        PROVE  LanesTyped' /\ ChannelsTyped' /\ OneOver'
    <2>1. chan[l] # <<>> /\ chan' = [chan EXCEPT ![l] = Tail(chan[l])]
      BY <1>2 DEF Collect
    <2>2. Tail(chan[l]) \in Seq(Event) /\ Len(Tail(chan[l])) = Len(chan[l]) - 1 /\ Len(chan[l]) \in Nat
      BY <2>1, HeadTailProperties, LenProperties DEF ChannelsTyped
    <2>3. chan'[l] = Tail(chan[l]) /\ \A k \in Lane : k # l => chan'[k] = chan[k]
      BY <2>1 DEF ChannelsTyped
    <2> QED
      BY <1>2, <2>1, <2>2, <2>3, GroupAssumption DEF LanesTyped, ChannelsTyped, OneOver
  <1>3. CASE UNCHANGED <<lane, chan>>
    BY <1>3 DEF LanesTyped, ChannelsTyped, OneOver
  <1> QED
    BY <1>1, <1>2, <1>3, Frame, LaneMoves, Isolates

-----------------------------------------------------------------------------
\* A lane that is dead in the collector's eyes stays dead and dark.
Darkens == \A k \in Lane : col.lane[k].failed =>
              /\ ~col'.lane[k].connected /\ col'.lane[k].failed
              /\ col'.lane[k].tail = col.lane[k].tail

\* One turn of the collector: the event is skipped, taken, or ends it.
LEMMA CollectStep ==
    ASSUME GroupInv, NEW l \in Lane, Collect(l)
    PROVE  /\ CollectorTyped' /\ GroupTyped' /\ RunTyped' /\ OwnerTyped'
           /\ DeadIsDark' /\ Darkens /\ LiveIsTrue' /\ RoomSurvives'
  <1> USE DEF GroupInv
  <1> DEFINE e == Head(chan[l])
             s == [col.lane EXCEPT ![l].accepted = @ \/ Accepts(e)]
             r == [run EXCEPT !.context = @ \/ ContextDue(s)]
  <1>1. PICK open \in BOOLEAN :
          \/ Skipped(l, e) /\ UNCHANGED <<col, group, run>>
          \/ /\ ~Skipped(l, e)
             /\ col' = [col EXCEPT !.lane = Outcome(l, e, s, r, open).lanes]
             /\ run' = Outcome(l, e, s, r, open).run
             /\ group' = [group EXCEPT !.cancelled = @ \/ StopsGroup(l, e)]
          \/ CollectorFails(FALSE, TRUE) \/ CollectorFails(TRUE, FALSE)
    BY DEF Collect
  <1>2. UNCHANGED <<lane, ffi>> /\ Collecting /\ chan[l] # <<>>
    BY DEF Collect
  <1>3. OwnerTyped'
    BY <1>2 DEF OwnerTyped
  <1>4. CASE UNCHANGED <<col, group, run>>
    BY <1>2, <1>3, <1>4 DEF CollectorTyped, GroupTyped, RunTyped, DeadIsDark, Darkens,
       LiveIsTrue, RoomSurvives, Collecting
  <1>5. ASSUME NEW fault \in BOOLEAN, NEW refused \in BOOLEAN, fault \/ refused,
               CollectorFails(fault, refused)
        PROVE  /\ CollectorTyped' /\ GroupTyped' /\ RunTyped'
               /\ DeadIsDark' /\ Darkens /\ LiveIsTrue' /\ RoomSurvives'
    <2>1. /\ col' \in Collector /\ col'.lane = col.lane /\ col'.pc = "failed"
          /\ group' \in Token /\ (group'.fault \/ group'.refused) /\ run' = run
      <3>1. col' = [col EXCEPT !.pc = "failed"] /\ UNCHANGED run
        BY <1>5 DEF CollectorFails
      <3>2. group' = [cancelled |-> TRUE, fault |-> group.fault \/ fault,
                      refused |-> group.refused \/ refused]
        BY <1>5 DEF CollectorFails
      <3>3. col' \in Collector /\ col'.lane = col.lane /\ col'.pc = "failed"
        BY <3>1 DEF CollectorTyped, Collector
      <3>4. (group.fault \/ fault) \in BOOLEAN /\ (group.refused \/ refused) \in BOOLEAN
        OBVIOUS
      <3>5. group' \in Token
        BY <3>2, <3>4 DEF Token
      <3>6. group'.fault = (group.fault \/ fault) /\ group'.refused = (group.refused \/ refused)
        BY <3>2
      <3> QED
        BY <1>5, <3>1, <3>3, <3>5, <3>6
    <2> QED
      BY <2>1 DEF CollectorTyped, GroupTyped, RunTyped, DeadIsDark, Darkens, LiveIsTrue,
         RoomSurvives, Collecting
  <1>6. ASSUME NEW o, o = Outcome(l, e, s, r, open), ~Skipped(l, e),
               col' = [col EXCEPT !.lane = o.lanes], run' = o.run,
               group' = [group EXCEPT !.cancelled = @ \/ StopsGroup(l, e)]
        PROVE  /\ CollectorTyped' /\ GroupTyped' /\ RunTyped'
               /\ DeadIsDark' /\ Darkens /\ LiveIsTrue' /\ RoomSurvives'
    <2>1. e \in Event
      BY <1>2, HeadTailProperties DEF ChannelsTyped
    <2>2. /\ s \in [Lane -> Flags]
          /\ \A k \in Lane : /\ s[k].failed = col.lane[k].failed
                             /\ s[k].connected = col.lane[k].connected
                             /\ s[k].tail = col.lane[k].tail
      <3> DEFINE a == col.lane[l].accepted \/ Accepts(e)
      <3>1. a \in BOOLEAN
        OBVIOUS
      <3>2. s = [col.lane EXCEPT ![l].accepted = a]
        BY Zenon
      <3>3. col.lane \in [Lane -> Flags]
        BY DEF CollectorTyped, Collector
      <3> HIDE DEF a, s
      <3> QED
        BY <3>1, <3>2, <3>3 DEF Flags
    <2>3. r \in Run /\ r.health = run.health
      <3> DEFINE x == run.context \/ ContextDue(s)
      <3>1. x \in BOOLEAN
        OBVIOUS
      <3>2. r = [run EXCEPT !.context = x]
        BY Zenon
      <3> HIDE DEF x, r, s
      <3> QED
        BY <3>1, <3>2 DEF RunTyped, Run
    <2>4. s[l].failed => e = "discontinuity" /\ ~s[l].connected
      <3> HIDE DEF s, r, e
      <3> QED
        BY <1>6, <2>2 DEF Skipped, DeadIsDark
    <2> HIDE DEF s, r, e
    <2>5. /\ o.lanes \in [Lane -> Flags] /\ o.run \in Run
          /\ \A k \in Lane : k # l => o.lanes[k] = s[k]
          /\ s[l].failed => o.lanes[l] = s[l]
          /\ e \in {"error", "discontinuity"} => o.lanes[l].failed
          /\ o.lanes[l].failed => ~o.lanes[l].connected
          /\ o.run.health = "live" => AllUp(o.lanes) \/ (r.health = "live" /\ ~AllUp(s))
      BY <1>6, <2>1, <2>2, <2>3, <2>4, Outcomes
    <2>6. col' \in Collector /\ col'.lane = o.lanes /\ col'.pc = col.pc
      BY <1>6, <2>5 DEF CollectorTyped, Collector
    <2>7. group' \in Token /\ group'.fault = group.fault /\ group'.refused = group.refused
          /\ (group'.cancelled => group.cancelled \/ StopsGroup(l, e))
      <3> DEFINE g == group.cancelled \/ StopsGroup(l, e)
      <3>1. g \in BOOLEAN
        OBVIOUS
      <3>2. group' = [group EXCEPT !.cancelled = g]
        BY <1>6, Zenon
      <3>3. (g => group.cancelled \/ StopsGroup(l, e))
        OBVIOUS
      <3> HIDE DEF g
      <3> QED
        BY <3>1, <3>2, <3>3 DEF GroupTyped, Token
    <2>8. Darkens
      BY <2>2, <2>5, <2>6 DEF Darkens, DeadIsDark
    <2>9. DeadIsDark'
      BY <2>2, <2>5, <2>6 DEF DeadIsDark
    <2>10. LiveIsTrue'
      BY <1>2, <1>6, <2>2, <2>3, <2>5, <2>6 DEF LiveIsTrue, AllUp, Collecting
    <2>11. RoomSurvives'
      <3>1. StopsGroup(l, e) => col'.lane[Canonical].failed
        BY <2>5, <2>6 DEF StopsGroup
      <3>2. col.lane[Canonical].failed => col'.lane[Canonical].failed
        BY <2>8, GroupAssumption DEF Darkens
      <3> QED
        BY <1>2, <2>7, <3>1, <3>2 DEF RoomSurvives
    <2> QED
      BY <1>6, <2>5, <2>6, <2>7, <2>8, <2>9, <2>10, <2>11 DEF CollectorTyped, GroupTyped, RunTyped
  <1> HIDE DEF e, s, r
  <1>7. CASE CollectorFails(FALSE, TRUE) \/ CollectorFails(TRUE, FALSE)
    BY <1>3, <1>5, <1>7
  <1> QED
    BY <1>1, <1>3, <1>4, <1>6, <1>7

\* The run's record, with another state.
LEMMA States ==
    ASSUME NEW r \in Run, NEW st \in {"recording", "paused", "draining", "interrupted"}
    PROVE  [r EXCEPT !.state = st] \in Run /\ [r EXCEPT !.state = st].health = r.health
  BY DEF Run

\* persist_remote_shutdown_failure never says live.
LEMMA Shutdowns ==
    ASSUME NEW r \in Run
    PROVE  Shutdown(r) \in Run /\ (Shutdown(r).health = "live" => r.health = "live")
  <1>1. CASE r.cause
    BY <1>1 DEF Shutdown
  <1>2. CASE ~r.cause
    <2>1. PICK h \in {"unavailable", "degraded"} : Shutdown(r) = WithHealth(r, h, TRUE)
      BY <1>2 DEF Shutdown
    <2>2. \A cause \in BOOLEAN, k \in Health : WithHealth(r, k, cause) \in Run
                                            /\ WithHealth(r, k, cause).health = k
      BY Healths
    <2> QED
      BY <2>1, <2>2 DEF Health
  <1> QED
    BY <1>1, <1>2

\* The calls of the FFI side, and the collector's regular end.
Keeps ==
    /\ group' \in Token /\ run' \in Run /\ ffi' \in Owner
    /\ run'.health = "live" /\ ffi'.owner => run.health = "live" /\ ffi.owner
    /\ \/ group'.cancelled /\ ffi'.owner /\ ffi'.pc = "idle" /\ ~group'.fault /\ ~group'.refused
            => group.cancelled /\ ffi.owner /\ ffi.pc = "idle" /\ ~group.fault /\ ~group.refused
       \/ \A l \in Lane : lane'[l].phase = "over"

LEMMA CallsKeep ==
    ASSUME GroupInv, [Next]_vars, ~\E l \in Lane : Collect(l)
    PROVE  Keeps
  <1> USE DEF GroupInv, GroupTyped, RunTyped, OwnerTyped
  <1>a. \A h \in Health, cause \in BOOLEAN :
           WithHealth(run, h, cause) \in Run /\ WithHealth(run, h, cause).health = h
    BY Healths
  <1>b. \A r \in Run : \A st \in {"recording", "paused", "draining", "interrupted"} :
           [r EXCEPT !.state = st] \in Run /\ [r EXCEPT !.state = st].health = r.health
    BY States
  <1>c. Other \in {"recording", "paused", "draining", "interrupted"}
    BY DEF Other
  <1>d. ASSUME NEW fault \in BOOLEAN, NEW g, g = [group EXCEPT !.cancelled = TRUE, !.fault = fault]
        PROVE  g \in Token
    BY <1>d DEF Token
  <1>e. [group EXCEPT !.cancelled = TRUE] \in Token /\ [group EXCEPT !.fault = TRUE] \in Token
        /\ [group EXCEPT !.cancelled = TRUE, !.fault = TRUE] \in Token
    BY DEF Token
  <1>1. CASE Lanes \/ Done \/ UNCHANGED vars
    <2>1. UNCHANGED <<group, run, ffi>>
      BY <1>1, Frame DEF OnlyLanes, Done, vars
    <2> QED
      BY <2>1 DEF Keeps
  <1>2. CASE CollectorEnds
    BY <1>2, <1>e DEF CollectorEnds, Keeps
  <1>3. CASE Push
    BY <1>3 DEF Push, Keeps
  <1>4. CASE PushFails
    <2>1. run' \in Run
      <3> DEFINE h == IF run.cause THEN run.health ELSE "degraded"
      <3>1. h \in Health
        BY DEF Run, Health
      <3>2. run' = WithHealth(run, h, TRUE) \/ run' = [run EXCEPT !.state = "interrupted"]
        BY <1>4 DEF PushFails
      <3> HIDE DEF h
      <3> QED
        BY <3>1, <3>2, <1>a, <1>b
    <2>2. ffi' \in Owner /\ ~ffi'.owner
      BY <1>4 DEF PushFails, Owner
    <2>3. group' \in Token
      BY <1>4, <1>e DEF PushFails
    <2> QED
      BY <2>1, <2>2, <2>3 DEF Keeps
  <1>5. CASE CleanupEnds
    <2>1. ffi' \in Owner /\ ffi'.owner = ffi.owner /\ ffi'.pc = ffi.pc
      BY <1>5 DEF CleanupEnds, Owner
    <2> QED
      BY <1>5, <2>1 DEF CleanupEnds, Keeps
  <1>6. CASE PauseOrResume
    <2>1. CASE run' = [run EXCEPT !.state = Other] /\ UNCHANGED <<group, ffi>>
      BY <2>1, <1>b, <1>c DEF Keeps
    <2>2. CASE /\ ~ffi.owner
               /\ run' = [(IF Told THEN run ELSE WithHealth(run, Missing, TRUE)) EXCEPT !.state = Other]
               /\ ffi' = [ffi EXCEPT !.overlay = FALSE] /\ UNCHANGED group
      <3>1. Missing \in Health
        BY DEF Missing, Health
      <3> DEFINE r == IF Told THEN run ELSE WithHealth(run, Missing, TRUE)
      <3>2. r \in Run
        BY <3>1, <1>a
      <3>3. run' = [r EXCEPT !.state = Other]
        BY <2>2
      <3> HIDE DEF r
      <3>4. run' \in Run
        BY <3>2, <3>3, <1>b, <1>c
      <3>5. ffi' \in Owner /\ ~ffi'.owner
        BY <2>2 DEF Owner
      <3> QED
        BY <2>2, <3>4, <3>5 DEF Keeps
    <2>3. CASE /\ ~ffi.owner /\ run' = [run EXCEPT !.state = "paused"]
               /\ ffi' = [ffi EXCEPT !.overlay = TRUE] /\ group' = [group EXCEPT !.fault = TRUE]
      <3>1. ffi' \in Owner /\ ~ffi'.owner
        BY <2>3 DEF Owner
      <3> QED
        BY <2>3, <3>1, <1>b, <1>e DEF Keeps
    <2> QED
      BY <1>6, <2>1, <2>2, <2>3 DEF PauseOrResume
  <1>7. CASE ControlFails
    <2>1. run' \in Run
      <3>1. WithHealth(run, "degraded", TRUE) \in Run
        BY <1>a DEF Health
      <3> QED
        BY <1>7, <3>1, <1>b, <1>c DEF ControlFails
    <2>2. ffi' \in Owner /\ ~ffi'.owner
      BY <1>7 DEF ControlFails, Owner
    <2>3. group' \in Token
      BY <1>7, <1>e DEF ControlFails
    <2> QED
      BY <2>1, <2>2, <2>3 DEF Keeps
  <1>8. CASE StopBegins
    <2>1. run' \in Run /\ run'.health = run.health
      BY <1>8, <1>b DEF StopBegins
    <2>2. ffi' \in Owner /\ ffi'.owner = ffi.owner /\ ffi'.pc # "idle"
      BY <1>8 DEF StopBegins, Owner
    <2>3. group' \in Token
      BY <1>8, <1>e DEF StopBegins
    <2> QED
      BY <2>1, <2>2, <2>3 DEF Keeps
  <1>9. CASE StreamsJoined
    <2>1. ffi' \in Owner /\ ffi'.owner = ffi.owner /\ ffi'.pc # "idle"
      BY <1>9 DEF StreamsJoined, Owner
    <2>2. group' \in Token
      BY <1>9, <1>e DEF StreamsJoined
    <2> QED
      BY <1>9, <2>1, <2>2 DEF StreamsJoined, Keeps
  <1>10. CASE CollectorJoined
    <2>1. run' \in Run
      BY <1>10, Shutdowns DEF CollectorJoined
    <2>2. ffi' \in Owner /\ ~ffi'.owner
      BY <1>10 DEF CollectorJoined, Owner
    <2> QED
      BY <1>10, <2>1, <2>2 DEF CollectorJoined, Keeps
  <1>11. CASE StopEnds
    <2>1. run' \in Run /\ (run'.health = "live" => run.health = "live")
      BY <1>11, Shutdowns DEF StopEnds
    <2>2. ffi' \in Owner /\ ffi'.owner = ffi.owner /\ ffi'.pc # "idle"
      BY <1>11 DEF StopEnds, Owner
    <2> QED
      BY <1>11, <2>1, <2>2 DEF StopEnds, Keeps
  <1> QED
    BY <1>1, <1>2, <1>3, <1>4, <1>5, <1>6, <1>7, <1>8, <1>9, <1>10, <1>11 DEF Next

\* Every step keeps the invariant, and every dead lane dark.
LEMMA GroupStep ==
    ASSUME GroupInv, [Next]_vars
    PROVE  GroupInv' /\ Darkens
  <1>1. /\ LanesTyped' /\ ChannelsTyped' /\ OneOver'
        /\ \A l \in Lane : lane[l].phase = "over" => lane'[l].phase = "over"
    BY LanesStep DEF GroupInv
  <1>2. CASE \E l \in Lane : Collect(l)
    BY <1>1, <1>2, CollectStep DEF GroupInv
  <1>3. CASE ~\E l \in Lane : Collect(l)
    <2>1. Keeps
      BY <1>3, CallsKeep
    <2>2. UNCHANGED col \/ PcOnly
      BY <1>3, Frame DEF GroupInv
    <2>3. CollectorTyped' /\ col'.lane = col.lane /\ (col'.pc = "running" => col.pc = "running")
      BY <2>2 DEF GroupInv, PcOnly, CollectorTyped, Collector
    <2>4. GroupTyped' /\ RunTyped' /\ OwnerTyped'
      BY <2>1 DEF Keeps, GroupTyped, RunTyped, OwnerTyped
    <2>5. DeadIsDark' /\ Darkens
      BY <2>3 DEF GroupInv, DeadIsDark, Darkens
    <2>6. LiveIsTrue'
      BY <2>1, <2>3 DEF GroupInv, Keeps, LiveIsTrue, Collecting
    <2>7. RoomSurvives'
      BY <1>1, <2>1, <2>3 DEF GroupInv, Keeps, RoomSurvives
    <2> QED
      BY <1>1, <2>3, <2>4, <2>5, <2>6, <2>7 DEF GroupInv
  <1> QED
    BY <1>2, <1>3
-----------------------------------------------------------------------------
LEMMA GroupInit == ASSUME Init PROVE GroupInv
  <1> USE GroupAssumption DEF Init
  <1>1. LanesTyped
    BY DEF LanesTyped, LaneRow
  <1>2. ChannelsTyped
    BY DEF ChannelsTyped
  <1>3. CollectorTyped
    BY DEF CollectorTyped, Collector, Flags
  <1>4. GroupTyped /\ RunTyped /\ OwnerTyped
    BY DEF GroupTyped, Token, RunTyped, Run, Health, OwnerTyped, Owner
  <1>5. OneOver
    BY DEF OneOver
  <1>6. DeadIsDark /\ LiveIsTrue /\ RoomSurvives
    BY DEF DeadIsDark, LiveIsTrue, RoomSurvives
  <1> QED
    BY <1>1, <1>2, <1>3, <1>4, <1>5, <1>6 DEF GroupInv

\* The inductive invariant of the group: the shape of its state, the bound of
\* its channels, dead lanes being dark, and the two properties themselves.
THEOREM GroupInvariant == Spec => []GroupInv
  <1>1. Init => GroupInv
    BY GroupInit
  <1>2. GroupInv /\ [Next]_vars => GroupInv'
    BY GroupStep
  <1> QED
    BY <1>1, <1>2, PTL DEF Spec

\* The group's state is well formed, and while its owner is there a run that
\* says live has every lane connected and none dead, whoever wrote the health
\* last (collect_stream_events, push_notebook_capture_session).
THEOREM HealthHolds == Spec => []HealthIsTrue
  <1>1. GroupInv => HealthIsTrue
    <2> SUFFICES ASSUME GroupInv PROVE GroupTypeOK
      BY DEF GroupInv, HealthIsTrue
    <2>1. \A l \in Lane : chan[l] \in BoundedSeq(Event, MaxQueued + 1)
      BY Channels DEF GroupInv
    <2>2. lane \in [Lane -> LaneRow] /\ col \in Collector /\ group \in Token /\ run \in Run
          /\ ffi \in Owner
      BY DEF GroupInv, LanesTyped, CollectorTyped, GroupTyped, RunTyped, OwnerTyped
    <2>3. col.pc \in {"running", "ended", "failed", "aborted"}
          /\ \A l \in Lane : col.lane[l] \in Flags
      BY <2>2 DEF Collector
    <2> QED
      BY <2>1, <2>2, <2>3 DEF GroupTypeOK, LaneRow, Flags, Token, Run, Owner
  <1> QED
    BY <1>1, GroupInvariant, PTL

\* A running group is only cancelled because its canonical lane died or every
\* lane ended, short of a failing store, a refused receipt and the calls of
\* the FFI side (collect_stream_events, fan_out_command).
THEOREM RoomHolds == Spec => []RoomSurvives
  <1>1. GroupInv => RoomSurvives
    BY DEF GroupInv
  <1> QED
    BY <1>1, GroupInvariant, PTL

\* A dead lane stays dead: late events of its task neither connect it again
\* nor open a tail on it (collect_stream_events' tombstone check).
THEOREM TombstonesHold == Spec => TombstoneStaysDark
  <1>1. GroupInv /\ [Next]_vars => [Darkens]_col
    BY GroupStep
  <1>2. [Darkens]_col => [\A l \in Lane : col.lane[l].failed =>
            /\ ~col.lane'[l].connected /\ col.lane'[l].failed
            /\ col.lane'[l].tail = col.lane[l].tail]_col
    BY DEF Darkens
  <1> QED
    BY <1>1, <1>2, GroupInvariant, PTL DEF Spec, TombstoneStaysDark
=============================================================================
