------------------------ MODULE RemoteArtifactsProofs ------------------------
(***************************************************************************)
(* For any tasks, any number of attempts and any number of process deaths: *)
(* the types of RemoteArtifacts, that a reported success leaves nothing of *)
(* its attempt at the provider, and that the journal leads a sweep to what *)
(* was answered to a task's first attempt, and to what is unanswered while *)
(* that attempt runs.                                                      *)
(*                                                                         *)
(* SuccessLeavesNothing is not inductive: it does not say why the attempt  *)
(* that is about to be reported has nothing left.  FlowOK follows the one  *)
(* running attempt from its first request, when nothing of it exists, to   *)
(* the deletions that confirm that nothing of it is left; AttemptsBound    *)
(* and OnePlace make the names of a new attempt fresh.  ClaimsCover rests  *)
(* on CoverInv, which follows what the client has been told: RecordedTold  *)
(* is why a claim with both ids has nothing unanswered under it.           *)
(***************************************************************************)
EXTENDS RemoteArtifacts, TLAPS

\* No artifact is named after an attempt that has not begun.
AttemptsBound == \A a \in remote \cup inflight : a.attempt <= attempts[a.task]

\* A request that was processed is not in flight any more.
OnePlace == remote \cap inflight = {}

Mine(k) == art(k, flow.task, attempts[flow.task])

FlowOK ==
    flow.pc # "idle" =>
        /\ flow.task \in Job /\ flow.task \notin done
        /\ attempts[flow.task] >= 1
        /\ flow.file \in {NoId, attempts[flow.task]}
        /\ flow.transcription \in {NoId, attempts[flow.task]}
        /\ flow.file # NoId => Mine("file") \notin inflight
        /\ flow.transcription # NoId => Mine("transcription") \notin inflight
        /\ flow.pc = "opened" => Mine("file") \notin remote \cup inflight
        /\ flow.pc \in {"opened", "uploading"}
              => Mine("transcription") \notin remote \cup inflight
        /\ flow.pc \in {"opened", "uploading"} => flow.file = NoId
        /\ flow.pc \in {"opened", "uploading", "creating"} => flow.transcription = NoId
        /\ flow.pc = "creating" => flow.file # NoId
        /\ flow.pc = "waiting" => flow.file # NoId /\ flow.transcription # NoId
        /\ flow.ok => flow.file # NoId /\ flow.transcription # NoId
        /\ flow.pc \in {"delete_file", "close", "report"} /\ flow.cleaned
              /\ flow.transcription # NoId => Mine("transcription") \notin remote
        /\ flow.pc \in {"close", "report"} /\ flow.cleaned /\ flow.file # NoId
              => Mine("file") \notin remote

SuccessInv ==
    /\ ArtifactTypeOK
    /\ AttemptsBound
    /\ OnePlace
    /\ FlowOK
    /\ SuccessLeavesNothing

-----------------------------------------------------------------------------
\* The row of the running attempt, field by field, after the steps that end it.
LEMMA FlowEnds ==
    ASSUME flow \in FlowRow, FlowFails \/ TranscriptFetched
    PROVE  /\ flow' \in FlowRow
           /\ flow'.pc = "delete_transcription" /\ flow'.task = flow.task
           /\ flow'.file = flow.file /\ flow'.transcription = flow.transcription
           /\ flow'.ok = flow.ok \/ flow.pc = "waiting"
           /\ flow.pc # "idle"
  <1>1. \/ flow' = [flow EXCEPT !.pc = "delete_transcription", !.cleaned = TRUE]
        \/ /\ flow.pc = "waiting"
           /\ flow' = [flow EXCEPT !.pc = "delete_transcription", !.ok = TRUE, !.cleaned = TRUE]
    BY DEF FlowFails, TranscriptFetched, Running
  <1>2. flow.pc # "idle"
    BY DEF FlowFails, TranscriptFetched, Running
  <1>3. CASE flow' = [flow EXCEPT !.pc = "delete_transcription", !.cleaned = TRUE]
    BY <1>2, <1>3 DEF FlowRow, FlowStep
  <1>4. CASE /\ flow.pc = "waiting"
             /\ flow' = [flow EXCEPT !.pc = "delete_transcription", !.ok = TRUE, !.cleaned = TRUE]
    BY <1>2, <1>4 DEF FlowRow, FlowStep
  <1> QED
    BY <1>1, <1>3, <1>4

LEMMA FlowDeletes ==
    ASSUME NEW k, NEW id, NEW next \in FlowStep, flow \in FlowRow, Delete(k, id, next)
    PROVE  /\ flow' \in FlowRow
           /\ flow'.pc = next /\ flow'.task = flow.task
           /\ flow'.file = flow.file /\ flow'.transcription = flow.transcription
           /\ flow'.ok = flow.ok /\ (flow'.cleaned => flow.cleaned)
           /\ remote' \subseteq remote
           /\ flow'.cleaned => art(k, flow.task, id) \notin remote'
  <1>1. CASE /\ remote' = remote \ {art(k, flow.task, id)}
             /\ flow' = [flow EXCEPT !.pc = next]
    BY <1>1 DEF FlowRow
  <1>2. CASE /\ remote' \in {remote, remote \ {art(k, flow.task, id)}}
             /\ flow' = [flow EXCEPT !.pc = next, !.cleaned = FALSE]
    BY <1>2 DEF FlowRow
  <1> QED
    BY <1>1, <1>2 DEF Delete

LEMMA FlowCloses ==
    ASSUME flow \in FlowRow, CloseAttempt
    PROVE  /\ flow' \in FlowRow
           /\ flow'.pc = "report" /\ flow'.task = flow.task
           /\ flow'.file = flow.file /\ flow'.transcription = flow.transcription
           /\ flow'.ok = flow.ok /\ flow'.cleaned = flow.cleaned /\ flow.pc = "close"
  <1>1. flow.pc = "close" /\ flow' = [flow EXCEPT !.pc = "report"]
    BY DEF CloseAttempt, Running
  <1> QED
    BY <1>1 DEF FlowRow, FlowStep

\* Names of artifacts are equal only if all their parts are.
LEMMA ArtEqual ==
    ASSUME NEW k, NEW t, NEW n, NEW l, NEW u, NEW m, art(k, t, n) = art(l, u, m)
    PROVE  k = l /\ t = u /\ n = m
  BY DEF art

LEMMA ArtType ==
    ASSUME NEW k \in Kind, NEW t \in Job, NEW n \in Attempt
    PROVE  art(k, t, n) \in Artifact
  BY DEF art, Artifact

\* What the journal's writes do to a row.
LEMMA ClaimRows ==
    /\ NoClaim \in ClaimRow
    /\ \A c \in ClaimRow : OpenedClaim(c) \in ClaimRow
    /\ \A c \in ClaimRow, k \in Kind, n \in 0..MaxAttempt : Recorded(c, k, n) \in ClaimRow
  <1>1. NoClaim \in ClaimRow
    BY ArtifactAssumption DEF NoClaim, ClaimRow, NoId
  <1>2. ASSUME NEW c \in ClaimRow PROVE OpenedClaim(c) \in ClaimRow
    BY DEF ClaimRow, OpenedClaim
  <1>3. ASSUME NEW c \in ClaimRow, NEW k \in Kind, NEW n \in 0..MaxAttempt
        PROVE  Recorded(c, k, n) \in ClaimRow
    <2>1. [c EXCEPT !.file = n] \in ClaimRow
      BY DEF ClaimRow
    <2>2. [c EXCEPT !.transcription = n] \in ClaimRow
      BY DEF ClaimRow
    <2> QED
      BY <2>1, <2>2 DEF Recorded
  <1> QED
    BY <1>1, <1>2, <1>3

\* The initial states satisfy the invariant.
LEMMA ArtifactInitOK == ArtifactInit => SuccessInv
  BY ArtifactAssumption
     DEF ArtifactInit, SuccessInv, ArtifactTypeOK, AttemptsBound, OnePlace, FlowOK,
         SuccessLeavesNothing, ClaimRow, NoClaim, NoFlow, NoSweep, FlowRow, Attempt, NoId, FlowStep, NoTask

-----------------------------------------------------------------------------
\* A running attempt is one of a task, and numbered.
LEMMA MyTask ==
    ASSUME ArtifactTypeOK, FlowOK, flow.pc # "idle"
    PROVE  flow.task \in Job /\ attempts[flow.task] \in Attempt
  BY ArtifactAssumption DEF ArtifactTypeOK, FlowOK, Attempt

\* Types.
LEMMA TypeStep ==
    ASSUME ArtifactTypeOK, FlowOK, [ArtifactNext]_journalVars
    PROVE  ArtifactTypeOK'
  <1> USE ArtifactAssumption DEF ArtifactTypeOK
  <1>1. CASE UNCHANGED journalVars
    BY <1>1 DEF journalVars
  <1>2. ASSUME NEW t \in Job, OpenClaim(t) PROVE ArtifactTypeOK'
    <2>1. claim' \in [Job -> ClaimRow]
      BY <1>2, ClaimRows DEF OpenClaim
    <2>2. attempts' \in [Job -> 0..MaxAttempt]
      BY <1>2 DEF OpenClaim
    <2>3. flow' \in FlowRow
      <3>1. NoFlow \in FlowRow
        BY DEF NoFlow, NoId, FlowRow, FlowStep
      <3>2. flow' = [NoFlow EXCEPT !.pc = "opened", !.task = t]
        BY <1>2 DEF OpenClaim
      <3> QED
        BY <3>1, <3>2 DEF FlowRow, FlowStep
    <2> QED
      BY <1>2, <2>1, <2>2, <2>3 DEF OpenClaim
  <1>3. ASSUME NEW t \in Job, SweepSkips(t) PROVE ArtifactTypeOK'
    BY <1>3 DEF SweepSkips, Swept
  <1>4. ASSUME NEW t \in Job, SweepClaim(t) PROVE ArtifactTypeOK'
    <2>1. claim' \in [Job -> ClaimRow]
      BY <1>4, ClaimRows DEF SweepClaim, ClosedClaim
    <2>2. remote' \subseteq remote
      BY <1>4 DEF SweepClaim
    <2> QED
      BY <1>4, <2>1, <2>2 DEF SweepClaim, Swept
  <1>5. CASE CancelBeforeUpload
    BY <1>5 DEF CancelBeforeUpload, FlowRow, NoFlow, NoId, FlowStep, NoTask
  <1>6. CASE SendUpload
    <2>1. flow.task \in Job /\ attempts[flow.task] \in Attempt
      BY <1>6, MyTask DEF SendUpload, Running
    <2>2. flow' \in FlowRow
      BY <1>6 DEF SendUpload, FlowRow, FlowStep
    <2> QED
      BY <1>6, <2>1, <2>2, ArtType DEF SendUpload, ThisAttempt, Kind
  <1>7. CASE UploadAnswered
    <2>1. flow.task \in Job /\ attempts[flow.task] \in Attempt
      BY <1>7, MyTask DEF UploadAnswered, Running
    <2>2. claim' \in [Job -> ClaimRow]
      <3>1. claim' = claim
               \/ claim' = [claim EXCEPT ![flow.task] =
                               Recorded(claim[flow.task], "file", attempts[flow.task])]
        BY <1>7 DEF UploadAnswered, Record, ThisAttempt
      <3>2. attempts[flow.task] \in 0..MaxAttempt /\ claim[flow.task] \in ClaimRow
        BY <2>1 DEF Attempt
      <3>3. \A k \in Kind : Recorded(claim[flow.task], k, attempts[flow.task]) \in ClaimRow
        BY <3>2, ClaimRows
      <3> QED
        BY <2>1, <3>1, <3>3 DEF Kind
    <2>3. flow' \in FlowRow
      BY <1>7, <2>1 DEF UploadAnswered, ThisAttempt, Attempt, FlowRow, FlowStep
    <2> QED
      BY <1>7, <2>1, <2>2, <2>3, ArtType DEF UploadAnswered, ThisAttempt, Kind
  <1>8. CASE CreateAnswered
    <2>1. flow.task \in Job /\ attempts[flow.task] \in Attempt
      BY <1>8, MyTask DEF CreateAnswered, Running
    <2>2. claim' \in [Job -> ClaimRow]
      <3>1. claim' = claim
               \/ claim' = [claim EXCEPT ![flow.task] =
                               Recorded(claim[flow.task], "transcription", attempts[flow.task])]
        BY <1>8 DEF CreateAnswered, Record, ThisAttempt
      <3>2. attempts[flow.task] \in 0..MaxAttempt /\ claim[flow.task] \in ClaimRow
        BY <2>1 DEF Attempt
      <3>3. \A k \in Kind : Recorded(claim[flow.task], k, attempts[flow.task]) \in ClaimRow
        BY <3>2, ClaimRows
      <3> QED
        BY <2>1, <3>1, <3>3 DEF Kind
    <2>3. flow' \in FlowRow
      BY <1>8, <2>1 DEF CreateAnswered, ThisAttempt, Attempt, FlowRow, FlowStep
    <2> QED
      BY <1>8, <2>1, <2>2, <2>3, ArtType DEF CreateAnswered, ThisAttempt, Kind
  <1>9. CASE FlowFails
    BY <1>9, FlowEnds DEF FlowFails
  <1>10. CASE TranscriptFetched
    BY <1>10, FlowEnds DEF TranscriptFetched
  <1>11. CASE DeleteTranscription
    <2>1. flow' \in FlowRow /\ remote' \subseteq remote
      BY <1>11, FlowDeletes DEF DeleteTranscription, FlowStep
    <2> QED
      BY <1>11, <2>1 DEF DeleteTranscription
  <1>12. CASE DeleteFile
    <2>1. flow' \in FlowRow /\ remote' \subseteq remote
      BY <1>12, FlowDeletes DEF DeleteFile, FlowStep
    <2> QED
      BY <1>12, <2>1 DEF DeleteFile
  <1>13. CASE CloseAttempt
    <2>1. flow.task \in Job
      BY <1>13, MyTask DEF CloseAttempt, Running
    <2>2. claim' \in [Job -> ClaimRow]
      BY <1>13, <2>1, ClaimRows DEF CloseAttempt, ClosedClaim
    <2>3. flow' \in FlowRow
      BY <1>13, FlowCloses
    <2> QED
      BY <1>13, <2>2, <2>3 DEF CloseAttempt
  <1>14. CASE Report
    BY <1>14 DEF Report, FlowRow, FlowOK, Running, NoFlow, NoId, FlowStep, NoTask
  <1>15. CASE StartSweep
    BY <1>15 DEF StartSweep
  <1>16. CASE FinishSweep
    BY <1>16 DEF FinishSweep
  <1>17. ASSUME NEW a \in inflight, ProviderProcesses(a) \/ RequestLost(a)
         PROVE  ArtifactTypeOK'
    BY <1>17 DEF ProviderProcesses, RequestLost
  <1>18. CASE Crash
    BY <1>18 DEF Crash, FlowRow, NoFlow, NoId, FlowStep, NoTask, NoSweep
  <1> QED
    BY <1>1, <1>2, <1>3, <1>4, <1>5, <1>6, <1>7, <1>8, <1>9, <1>10, <1>11, <1>12,
       <1>13, <1>14, <1>15, <1>16, <1>17, <1>18 DEF ArtifactNext
-----------------------------------------------------------------------------
\* Only the running attempt makes new artifacts, and only once.
LEMMA PlacesStep ==
    ASSUME SuccessInv, [ArtifactNext]_journalVars
    PROVE  AttemptsBound' /\ OnePlace'
  <1> USE ArtifactAssumption DEF SuccessInv, ArtifactTypeOK
  <1>1. CASE UNCHANGED journalVars
    BY <1>1 DEF journalVars, AttemptsBound, OnePlace
  <1>2. ASSUME NEW t \in Job, OpenClaim(t) PROVE AttemptsBound' /\ OnePlace'
    <2>1. \A u \in Job : attempts'[u] >= attempts[u]
      BY <1>2 DEF OpenClaim
    <2>2. UNCHANGED <<remote, inflight>>
      BY <1>2 DEF OpenClaim
    <2>3. \A a \in remote \cup inflight :
             /\ a.attempt \in Nat /\ a.task \in Job
             /\ attempts[a.task] \in Nat /\ attempts'[a.task] \in Nat
      BY <1>2 DEF Artifact, Attempt, OpenClaim
    <2> QED
      BY <2>1, <2>2, <2>3 DEF AttemptsBound, OnePlace
  <1>3. ASSUME inflight' \subseteq inflight, remote' \subseteq remote, UNCHANGED attempts
        PROVE  AttemptsBound' /\ OnePlace'
    BY <1>3 DEF AttemptsBound, OnePlace
  <1>4. CASE SendUpload
    <2>1. flow.task \in Job /\ attempts[flow.task] \in Attempt
      BY <1>4, MyTask DEF SendUpload, Running
    <2>2. inflight' = inflight \cup {Mine("file")} /\ UNCHANGED <<remote, attempts>>
      BY <1>4 DEF SendUpload, Mine, ThisAttempt
    <2>3. Mine("file") \notin remote
      BY <1>4 DEF SendUpload, Running, FlowOK
    <2>4. Mine("file").attempt <= attempts[Mine("file").task]
      BY <2>1 DEF Mine, art, Attempt
    <2> QED
      BY <2>2, <2>3, <2>4 DEF AttemptsBound, OnePlace
  <1>5. CASE UploadAnswered
    <2>1. flow.task \in Job /\ attempts[flow.task] \in Attempt
      BY <1>5, MyTask DEF UploadAnswered, Running
    <2>2. inflight' = inflight \cup {Mine("transcription")} /\ UNCHANGED <<remote, attempts>>
      BY <1>5 DEF UploadAnswered, Mine, ThisAttempt
    <2>3. Mine("transcription") \notin remote
      BY <1>5 DEF UploadAnswered, Running, FlowOK
    <2>4. Mine("transcription").attempt <= attempts[Mine("transcription").task]
      BY <2>1 DEF Mine, art, Attempt
    <2> QED
      BY <2>2, <2>3, <2>4 DEF AttemptsBound, OnePlace
  <1>6. ASSUME NEW a \in inflight, ProviderProcesses(a) PROVE AttemptsBound' /\ OnePlace'
    BY <1>6 DEF ProviderProcesses, AttemptsBound, OnePlace
  <1>7. CASE DeleteTranscription
    BY <1>3, <1>7 DEF DeleteTranscription, Delete
  <1>8. CASE DeleteFile
    BY <1>3, <1>8 DEF DeleteFile, Delete
  <1>9. ASSUME NEW t \in Job, SweepSkips(t) \/ SweepClaim(t)
        PROVE  AttemptsBound' /\ OnePlace'
    BY <1>3, <1>9 DEF SweepSkips, SweepClaim
  <1>10. ASSUME NEW a \in inflight, RequestLost(a) PROVE AttemptsBound' /\ OnePlace'
    BY <1>3, <1>10 DEF RequestLost
  <1>11. CASE \/ CancelBeforeUpload \/ CreateAnswered \/ FlowFails \/ TranscriptFetched
              \/ CloseAttempt \/ Report \/ StartSweep \/ FinishSweep \/ Crash
    BY <1>3, <1>11
       DEF CancelBeforeUpload, CreateAnswered, FlowFails, TranscriptFetched,
           CloseAttempt, Report, StartSweep, FinishSweep, Crash
  <1> QED
    BY <1>1, <1>2, <1>4, <1>5, <1>6, <1>7, <1>8, <1>9, <1>10, <1>11 DEF ArtifactNext

-----------------------------------------------------------------------------
\* The running attempt is followed through its steps.
LEMMA FlowStepOK ==
    ASSUME SuccessInv, [ArtifactNext]_journalVars
    PROVE  FlowOK'
  <1> USE ArtifactAssumption DEF SuccessInv, ArtifactTypeOK
  <1>1. ASSUME inflight' \subseteq inflight, remote' \subseteq remote,
               UNCHANGED <<attempts, flow, done>>
        PROVE  FlowOK'
    BY <1>1 DEF FlowOK, Mine
  <1>2. CASE UNCHANGED journalVars
    BY <1>1, <1>2 DEF journalVars
  <1>3. ASSUME NEW t \in Job, SweepSkips(t) \/ SweepClaim(t) PROVE FlowOK'
    BY <1>1, <1>3 DEF SweepSkips, SweepClaim
  <1>4. CASE StartSweep \/ FinishSweep
    BY <1>1, <1>4 DEF StartSweep, FinishSweep
  <1>5. ASSUME NEW a \in inflight, RequestLost(a) PROVE FlowOK'
    BY <1>1, <1>5 DEF RequestLost
  <1>6. ASSUME NEW a \in inflight, ProviderProcesses(a) PROVE FlowOK'
    BY <1>6 DEF ProviderProcesses, FlowOK, Mine
  <1>7. CASE CancelBeforeUpload \/ Report \/ Crash
    BY <1>7 DEF CancelBeforeUpload, Report, Crash, NoFlow, FlowOK
  <1>8. ASSUME NEW t \in Job, OpenClaim(t) PROVE FlowOK'
    <2>1. /\ flow'.pc = "opened" /\ flow'.task = t /\ flow'.file = NoId
          /\ flow'.transcription = NoId /\ flow'.ok = FALSE
      BY <1>8 DEF OpenClaim, NoFlow
    <2>2. attempts'[t] = attempts[t] + 1 /\ attempts[t] \in Nat
      BY <1>8 DEF OpenClaim
    <2>3. t \notin done' /\ UNCHANGED <<remote, inflight>>
      BY <1>8 DEF OpenClaim
    <2>4. ASSUME NEW k, art(k, t, attempts[t] + 1) \in remote \cup inflight PROVE FALSE
      <3> DEFINE a == art(k, t, attempts[t] + 1)
      <3>1. a.attempt <= attempts[a.task]
        BY <2>4 DEF AttemptsBound
      <3>2. a.attempt = attempts[t] + 1 /\ a.task = t
        BY DEF art
      <3> QED
        BY <2>2, <3>1, <3>2
    <2>5. \A k : Mine(k)' = art(k, t, attempts[t] + 1)
      BY <2>1, <2>2 DEF Mine, art
    <2>6. \A k : Mine(k)' \notin remote' \cup inflight'
      BY <2>3, <2>4, <2>5
    <2> QED
      BY <2>1, <2>2, <2>3, <2>6 DEF FlowOK
  <1>9. CASE SendUpload
    <2>1. flow.task \in Job /\ attempts[flow.task] \in Attempt
      BY <1>9, MyTask DEF SendUpload, Running
    <2>2. /\ flow'.pc = "uploading" /\ flow'.task = flow.task /\ flow'.file = flow.file
          /\ flow'.transcription = flow.transcription /\ flow'.ok = flow.ok
      BY <1>9 DEF SendUpload, FlowRow
    <2>3. inflight' = inflight \cup {Mine("file")} /\ UNCHANGED <<remote, attempts, done>>
      BY <1>9 DEF SendUpload, Mine, ThisAttempt
    <2>4. \A k : Mine(k)' = Mine(k)
      BY <2>2, <2>3 DEF Mine
    <2>5. Mine("file") # Mine("transcription")
      BY ArtEqual DEF Mine
    <2>6. flow.pc = "opened"
      BY <1>9 DEF SendUpload, Running
    <2> QED
      BY <2>1, <2>2, <2>3, <2>4, <2>5, <2>6 DEF FlowOK
  <1>10. CASE UploadAnswered
    <2>1. flow.task \in Job /\ attempts[flow.task] \in Attempt
      BY <1>10, MyTask DEF UploadAnswered, Running
    <2>2. /\ flow'.pc = "creating" /\ flow'.task = flow.task
          /\ flow'.file = attempts[flow.task]
          /\ flow'.transcription = flow.transcription /\ flow'.ok = flow.ok
      BY <1>10 DEF UploadAnswered, FlowRow, ThisAttempt
    <2>3. inflight' = inflight \cup {Mine("transcription")}
          /\ UNCHANGED <<remote, attempts, done>>
      BY <1>10 DEF UploadAnswered, Mine, ThisAttempt
    <2>4. \A k : Mine(k)' = Mine(k)
      BY <2>2, <2>3 DEF Mine
    <2>5. Mine("file") # Mine("transcription")
      BY ArtEqual DEF Mine
    <2>6. flow.pc = "uploading" /\ Mine("file") \in remote
      BY <1>10 DEF UploadAnswered, Running, Mine, ThisAttempt
    <2>7. Mine("file") \notin inflight
      BY <2>6 DEF OnePlace
    <2> QED
      BY <2>1, <2>2, <2>3, <2>4, <2>5, <2>6, <2>7 DEF FlowOK, Attempt, NoId
  <1>11. CASE CreateAnswered
    <2>1. flow.task \in Job /\ attempts[flow.task] \in Attempt
      BY <1>11, MyTask DEF CreateAnswered, Running
    <2>2. /\ flow'.pc = "waiting" /\ flow'.task = flow.task /\ flow'.file = flow.file
          /\ flow'.transcription = attempts[flow.task] /\ flow'.ok = flow.ok
      BY <1>11 DEF CreateAnswered, FlowRow, ThisAttempt
    <2>3. UNCHANGED <<remote, inflight, attempts, done>>
      BY <1>11 DEF CreateAnswered
    <2>4. \A k : Mine(k)' = Mine(k)
      BY <2>2, <2>3 DEF Mine
    <2>5. flow.pc = "creating" /\ Mine("transcription") \in remote
      BY <1>11 DEF CreateAnswered, Running, Mine, ThisAttempt
    <2>6. Mine("transcription") \notin inflight
      BY <2>5 DEF OnePlace
    <2> QED
      BY <2>1, <2>2, <2>3, <2>4, <2>5, <2>6 DEF FlowOK, Attempt, NoId
  <1>12. CASE FlowFails \/ TranscriptFetched
    <2>1. /\ flow'.pc = "delete_transcription" /\ flow'.task = flow.task
          /\ flow'.file = flow.file /\ flow'.transcription = flow.transcription
          /\ flow'.ok = flow.ok \/ flow.pc = "waiting"
          /\ flow.pc # "idle"
      BY <1>12, FlowEnds
    <2>2. UNCHANGED <<remote, inflight, attempts, done>>
      BY <1>12 DEF FlowFails, TranscriptFetched
    <2>3. \A k : Mine(k)' = Mine(k)
      BY <2>1, <2>2 DEF Mine
    <2> QED
      BY <2>1, <2>2, <2>3 DEF FlowOK
  <1>13. CASE DeleteTranscription
    <2>1. /\ flow'.pc = "delete_file" /\ flow'.task = flow.task
          /\ flow'.file = flow.file /\ flow'.transcription = flow.transcription
          /\ flow'.ok = flow.ok /\ flow.pc = "delete_transcription"
      <3>1. flow.pc = "delete_transcription"
            /\ Delete("transcription", flow.transcription, "delete_file")
        BY <1>13 DEF DeleteTranscription, Running
      <3> QED
        BY <3>1, FlowDeletes DEF FlowStep
    <2>2. remote' \subseteq remote /\ UNCHANGED <<inflight, attempts, done>>
      BY <1>13, FlowDeletes DEF DeleteTranscription, FlowStep
    <2>3. \A k : Mine(k)' = Mine(k)
      BY <2>1, <2>2 DEF Mine
    <2>4. flow'.cleaned => art("transcription", flow.task, flow.transcription) \notin remote'
      BY <1>13, FlowDeletes DEF DeleteTranscription, FlowStep
    <2>5. flow.transcription # NoId
             => Mine("transcription") = art("transcription", flow.task, flow.transcription)
      BY <2>1 DEF FlowOK, Mine
    <2> QED
      BY <2>1, <2>2, <2>3, <2>4, <2>5 DEF FlowOK
  <1>14. CASE DeleteFile
    <2>1. /\ flow'.pc = "close" /\ flow'.task = flow.task
          /\ flow'.file = flow.file /\ flow'.transcription = flow.transcription
          /\ flow'.ok = flow.ok /\ flow.pc = "delete_file"
          /\ flow'.cleaned => flow.cleaned
      <3>1. flow.pc = "delete_file" /\ Delete("file", flow.file, "close")
        BY <1>14 DEF DeleteFile, Running
      <3> QED
        BY <3>1, FlowDeletes DEF FlowStep
    <2>2. remote' \subseteq remote /\ UNCHANGED <<inflight, attempts, done>>
      BY <1>14, FlowDeletes DEF DeleteFile, FlowStep
    <2>3. \A k : Mine(k)' = Mine(k)
      BY <2>1, <2>2 DEF Mine
    <2>4. flow'.cleaned => art("file", flow.task, flow.file) \notin remote'
      BY <1>14, FlowDeletes DEF DeleteFile, FlowStep
    <2>5. flow.file # NoId => Mine("file") = art("file", flow.task, flow.file)
      BY <2>1 DEF FlowOK, Mine
    <2> QED
      BY <2>1, <2>2, <2>3, <2>4, <2>5 DEF FlowOK
  <1>15. CASE CloseAttempt
    <2>1. /\ flow'.pc = "report" /\ flow'.task = flow.task
          /\ flow'.file = flow.file /\ flow'.transcription = flow.transcription
          /\ flow'.ok = flow.ok /\ flow'.cleaned = flow.cleaned /\ flow.pc = "close"
      BY <1>15, FlowCloses
    <2>2. UNCHANGED <<remote, inflight, attempts, done>>
      BY <1>15 DEF CloseAttempt
    <2>3. \A k : Mine(k)' = Mine(k)
      BY <2>1, <2>2 DEF Mine
    <2> QED
      BY <2>1, <2>2, <2>3 DEF FlowOK
  <1> QED
    BY <1>2, <1>3, <1>4, <1>5, <1>6, <1>7, <1>8, <1>9, <1>10, <1>11, <1>12, <1>13,
       <1>14, <1>15 DEF ArtifactNext

-----------------------------------------------------------------------------
\* What is done stays clean, and what is reported as done is.
LEMMA SuccessStep ==
    ASSUME SuccessInv, [ArtifactNext]_journalVars
    PROVE  SuccessLeavesNothing'
  <1> USE ArtifactAssumption DEF SuccessInv, ArtifactTypeOK
  <1>1. ASSUME remote' \cup inflight' \subseteq remote \cup inflight,
               UNCHANGED <<attempts, done>>
        PROVE  SuccessLeavesNothing'
    BY <1>1 DEF SuccessLeavesNothing
  <1>2. ASSUME NEW t \in Job, OpenClaim(t) PROVE SuccessLeavesNothing'
    <2>1. \A u \in done : attempts'[u] = attempts[u]
      BY <1>2 DEF OpenClaim
    <2>2. UNCHANGED <<remote, inflight, done>>
      BY <1>2 DEF OpenClaim
    <2> QED
      BY <2>1, <2>2 DEF SuccessLeavesNothing
  <1>3. ASSUME NEW k \in Kind, flow.pc # "idle",
               inflight' = inflight \cup {Mine(k)}, UNCHANGED <<remote, attempts, done>>
        PROVE  SuccessLeavesNothing'
    <2>1. \A t \in done, l \in Kind : art(l, t, attempts[t]) # Mine(k)
      BY <1>3, ArtEqual DEF FlowOK, Mine
    <2> QED
      BY <1>3, <2>1 DEF SuccessLeavesNothing
  <1>4. CASE SendUpload
    BY <1>3, <1>4 DEF SendUpload, Running, Mine, ThisAttempt, Kind
  <1>5. CASE UploadAnswered
    BY <1>3, <1>5 DEF UploadAnswered, Running, Mine, ThisAttempt, Kind
  <1>6. CASE Report
    <2>1. UNCHANGED <<remote, inflight, attempts>>
      BY <1>6 DEF Report
    <2>2. CASE ~(flow.ok /\ flow.cleaned)
      BY <1>1, <1>6, <2>1, <2>2 DEF Report
    <2>3. CASE flow.ok /\ flow.cleaned
      <3>1. \A k \in Kind : Mine(k) \notin remote \cup inflight
        BY <1>6, <2>3 DEF Report, Running, FlowOK, Kind
      <3>2. done' = done \cup {flow.task}
        BY <1>6, <2>3 DEF Report
      <3> QED
        BY <2>1, <3>1, <3>2 DEF SuccessLeavesNothing, Mine
    <2> QED
      BY <2>2, <2>3
  <1>7. ASSUME NEW a \in inflight, ProviderProcesses(a) \/ RequestLost(a)
        PROVE  SuccessLeavesNothing'
    BY <1>1, <1>7 DEF ProviderProcesses, RequestLost
  <1>8. ASSUME NEW t \in Job, SweepSkips(t) \/ SweepClaim(t) PROVE SuccessLeavesNothing'
    <2>1. remote' \subseteq remote /\ UNCHANGED <<inflight, attempts, done>>
      BY <1>8 DEF SweepSkips, SweepClaim
    <2> QED
      BY <1>1, <2>1
  <1>9. CASE DeleteTranscription \/ DeleteFile
    <2>1. remote' \subseteq remote /\ UNCHANGED <<inflight, attempts, done>>
      BY <1>9 DEF DeleteTranscription, DeleteFile, Delete
    <2> QED
      BY <1>1, <2>1
  <1>10. CASE \/ CancelBeforeUpload \/ CreateAnswered \/ FlowFails \/ TranscriptFetched
              \/ CloseAttempt \/ StartSweep \/ FinishSweep \/ Crash
              \/ UNCHANGED journalVars
    BY <1>1, <1>10
       DEF CancelBeforeUpload, CreateAnswered, FlowFails, TranscriptFetched,
           CloseAttempt, StartSweep, FinishSweep, Crash, journalVars
  <1> QED
    BY <1>2, <1>4, <1>5, <1>6, <1>7, <1>8, <1>9, <1>10 DEF ArtifactNext

-----------------------------------------------------------------------------
LEMMA SuccessInvariant == ArtifactSpec => []SuccessInv
  <1>1. ArtifactInit => SuccessInv
    BY ArtifactInitOK
  <1>2. SuccessInv /\ [ArtifactNext]_journalVars => SuccessInv'
    <2> SUFFICES ASSUME SuccessInv, [ArtifactNext]_journalVars PROVE SuccessInv'
      OBVIOUS
    <2>1. ArtifactTypeOK'
      BY TypeStep DEF SuccessInv
    <2> QED
      BY <2>1, PlacesStep, FlowStepOK, SuccessStep DEF SuccessInv
  <1> QED
    BY <1>1, <1>2, PTL DEF ArtifactSpec

\* transcribe_wav for every instance: the types hold, and a transcript is
\* reported as a success only when nothing of its attempt is stored at the
\* provider or can still arrive there, whatever was lost, retried or swept.
THEOREM SuccessIsClean == ArtifactSpec => [](ArtifactTypeOK /\ SuccessLeavesNothing)
  <1>1. SuccessInv => ArtifactTypeOK /\ SuccessLeavesNothing
    BY DEF SuccessInv
  <1> QED
    BY <1>1, SuccessInvariant, PTL

-----------------------------------------------------------------------------
(* The journal.  ClaimsCover alone says nothing of an attempt that is      *)
(* running, nor of the sweep: a claim may only be closed when the attempt  *)
(* remembers every id it was told and saw it deleted, or when the sweep    *)
(* found every artifact by its id or in the inventory.                     *)

\* What the client was told exists under an attempt that was made, and is not
\* on its way any more.
AckedBound == \A a \in acked : a.attempt <= attempts[a.task]
AckedArrived == acked \cap inflight = {}

\* The attempt remembers what it was told; until it closes, its claim is open.
FlowKnows ==
    flow.pc # "idle" =>
        /\ flow.file = NoId => Mine("file") \notin acked
        /\ flow.transcription = NoId => Mine("transcription") \notin acked
        /\ flow.pc # "report" => claim[flow.task].open

\* The sweep comes before the first attempt of a process.
SweepFirst == (sweep.swept => sweep.todo = {}) /\ (flow.pc # "idle" => sweep.swept)

\* No id is journalled for an attempt that was not made.
IdsBound ==
    \A t \in Job : claim[t].file <= attempts[t] /\ claim[t].transcription <= attempts[t]

\* An id is journalled only once the client has been told it.
RecordedTold ==
    \A t \in Job, k \in Kind : claim[t][k] # NoId => art(k, t, claim[t][k]) \in acked

FirstAttemptIsOpen ==
    \A a \in acked \cap remote : attempts[a.task] = 1 => claim[a.task].open

CoverInv ==
    /\ AckedBound /\ AckedArrived /\ FlowKnows /\ SweepFirst
    /\ IdsBound /\ RecordedTold /\ FirstAttemptIsOpen
\* What a step does to the running attempt, where it goes on.
LEMMA FlowGoesOn ==
    ASSUME ArtifactTypeOK, FlowOK,
           SendUpload \/ UploadAnswered \/ CreateAnswered \/ FlowFails \/ TranscriptFetched
             \/ DeleteTranscription \/ DeleteFile \/ CloseAttempt
    PROVE  /\ flow.pc # "idle" /\ flow.pc # "report" /\ flow'.pc # "idle"
           /\ flow'.task = flow.task /\ attempts' = attempts /\ sweep' = sweep
           /\ flow.file # NoId => flow'.file # NoId
           /\ flow.transcription # NoId => flow'.transcription # NoId
  <1>1. flow \in FlowRow
    BY DEF ArtifactTypeOK
  <1>2. CASE SendUpload
    BY <1>1, <1>2 DEF SendUpload, Running, FlowRow
  <1>3. CASE UploadAnswered
    <2>1. attempts[flow.task] # NoId
      BY <1>3, MyTask DEF UploadAnswered, Running, Attempt, NoId
    <2> QED
      BY <1>1, <1>3, <2>1 DEF UploadAnswered, Running, FlowRow, ThisAttempt
  <1>4. CASE CreateAnswered
    <2>1. attempts[flow.task] # NoId
      BY <1>4, MyTask DEF CreateAnswered, Running, Attempt, NoId
    <2> QED
      BY <1>1, <1>4, <2>1 DEF CreateAnswered, Running, FlowRow, ThisAttempt
  <1>5. CASE FlowFails \/ TranscriptFetched
    BY <1>1, <1>5, FlowEnds DEF FlowFails, TranscriptFetched, Running
  <1>6. CASE DeleteTranscription
    BY <1>1, <1>6, FlowDeletes DEF DeleteTranscription, Running, FlowStep
  <1>7. CASE DeleteFile
    BY <1>1, <1>7, FlowDeletes DEF DeleteFile, Running, FlowStep
  <1>8. CASE CloseAttempt
    BY <1>1, <1>8, FlowCloses DEF CloseAttempt
  <1> QED
    BY <1>2, <1>3, <1>4, <1>5, <1>6, <1>7, <1>8

\* An artifact the provider confirms has arrived, and is this attempt's.
LEMMA AckedStep ==
    ASSUME SuccessInv, CoverInv, [ArtifactNext]_journalVars
    PROVE  AckedBound' /\ AckedArrived'
  <1> USE DEF SuccessInv, CoverInv, ArtifactTypeOK
  <1>1. ASSUME UNCHANGED <<acked, attempts>>, inflight' \subseteq inflight
        PROVE  AckedBound' /\ AckedArrived'
    BY <1>1 DEF AckedBound, AckedArrived
  <1>2. ASSUME NEW t \in Job, OpenClaim(t) PROVE AckedBound' /\ AckedArrived'
    <2>1. UNCHANGED <<acked, inflight>> /\ \A u \in Job : attempts'[u] >= attempts[u]
      BY <1>2 DEF OpenClaim
    <2>2. \A a \in acked : /\ a.attempt \in Nat /\ a.task \in Job
                           /\ attempts[a.task] \in Nat /\ attempts'[a.task] \in Nat
      BY <1>2 DEF Artifact, Attempt, OpenClaim
    <2> QED
      BY <2>1, <2>2 DEF AckedBound, AckedArrived
  <1>3. CASE SendUpload
    <2>1. flow.file = NoId /\ flow.pc # "idle"
      BY <1>3 DEF SendUpload, Running, FlowOK
    <2>2. inflight' = inflight \cup {Mine("file")} /\ UNCHANGED <<acked, attempts>>
      BY <1>3 DEF SendUpload, Mine, ThisAttempt
    <2> QED
      BY <2>1, <2>2 DEF FlowKnows, AckedBound, AckedArrived
  <1>4. CASE UploadAnswered
    <2>1. flow.transcription = NoId /\ flow.pc # "idle"
      BY <1>4 DEF UploadAnswered, Running, FlowOK
    <2>2. /\ inflight' = inflight \cup {Mine("transcription")} /\ UNCHANGED attempts
          /\ acked' = acked \cup {Mine("file")} /\ Mine("file") \in remote
      BY <1>4 DEF UploadAnswered, Mine, ThisAttempt
    <2>3. Mine("file") # Mine("transcription")
      BY ArtEqual DEF Mine
    <2>4. Mine("file").attempt <= attempts[Mine("file").task]
      BY <2>2 DEF AttemptsBound
    <2> QED
      BY <2>1, <2>2, <2>3, <2>4 DEF FlowKnows, AckedBound, AckedArrived, OnePlace
  <1>5. CASE CreateAnswered
    <2>1. /\ UNCHANGED <<inflight, attempts>>
          /\ acked' = acked \cup {Mine("transcription")} /\ Mine("transcription") \in remote
      BY <1>5 DEF CreateAnswered, Mine, ThisAttempt
    <2>2. Mine("transcription").attempt <= attempts[Mine("transcription").task]
      BY <2>1 DEF AttemptsBound
    <2> QED
      BY <2>1, <2>2 DEF AckedBound, AckedArrived, OnePlace
  <1>6. ASSUME NEW t \in Job, SweepSkips(t) \/ SweepClaim(t) PROVE AckedBound' /\ AckedArrived'
    BY <1>1, <1>6 DEF SweepSkips, SweepClaim
  <1>7. ASSUME NEW a \in inflight, ProviderProcesses(a) \/ RequestLost(a)
        PROVE  AckedBound' /\ AckedArrived'
    BY <1>1, <1>7 DEF ProviderProcesses, RequestLost
  <1>8. CASE \/ CancelBeforeUpload \/ FlowFails \/ TranscriptFetched \/ DeleteTranscription
             \/ DeleteFile \/ CloseAttempt \/ Report \/ StartSweep \/ FinishSweep \/ Crash
             \/ UNCHANGED journalVars
    BY <1>1, <1>8 DEF CancelBeforeUpload, FlowFails, TranscriptFetched, DeleteTranscription,
       DeleteFile, CloseAttempt, Report, StartSweep, FinishSweep, Crash, journalVars
  <1> QED
    BY <1>2, <1>3, <1>4, <1>5, <1>6, <1>7, <1>8 DEF ArtifactNext

\* The sweep is over before an attempt begins.
LEMMA SweepStep ==
    ASSUME SuccessInv, CoverInv, [ArtifactNext]_journalVars
    PROVE  SweepFirst'
  <1> USE DEF SuccessInv, CoverInv, SweepFirst
  <1>1. ASSUME NEW t \in Job, OpenClaim(t) PROVE SweepFirst'
    BY <1>1 DEF OpenClaim
  <1>2. ASSUME NEW t \in Job, SweepSkips(t) \/ SweepClaim(t) PROVE SweepFirst'
    BY <1>2 DEF SweepSkips, SweepClaim, Swept, ArtifactTypeOK
  <1>3. CASE SendUpload \/ UploadAnswered \/ CreateAnswered \/ FlowFails \/ TranscriptFetched
             \/ DeleteTranscription \/ DeleteFile \/ CloseAttempt
    BY <1>3, FlowGoesOn
  <1>4. CASE CancelBeforeUpload \/ Report
    BY <1>4 DEF CancelBeforeUpload, Report, NoFlow
  <1>5. CASE StartSweep
    BY <1>5 DEF StartSweep, Running, ArtifactTypeOK
  <1>6. CASE FinishSweep
    BY <1>6 DEF FinishSweep, ArtifactTypeOK
  <1>7. ASSUME NEW a \in inflight, ProviderProcesses(a) \/ RequestLost(a) PROVE SweepFirst'
    BY <1>7 DEF ProviderProcesses, RequestLost
  <1>8. CASE Crash
    BY <1>8 DEF Crash, NoSweep, NoFlow
  <1>9. CASE UNCHANGED journalVars
    BY <1>9 DEF journalVars
  <1> QED
    BY <1>1, <1>2, <1>3, <1>4, <1>5, <1>6, <1>7, <1>8, <1>9 DEF ArtifactNext
\* A row the observer writes keeps its other id, and the claim as open as it was.
LEMMA RecordOK ==
    ASSUME ArtifactTypeOK, NEW k \in Kind, flow.task \in Job, ThisAttempt \in Attempt, Record(k)
    PROVE  /\ \A t \in Job : claim'[t].open = claim[t].open
           /\ \A t \in Job : t # flow.task => claim'[t] = claim[t]
           /\ \A j \in Kind :
                 \/ claim'[flow.task][j] = claim[flow.task][j]
                 \/ j = k /\ claim'[flow.task][j] = ThisAttempt
           /\ claim'[flow.task].file \in {claim[flow.task].file, ThisAttempt}
           /\ claim'[flow.task].transcription \in {claim[flow.task].transcription, ThisAttempt}
  <1>1. claim[flow.task] \in ClaimRow
    BY DEF ArtifactTypeOK
  <1>2. /\ Recorded(claim[flow.task], k, ThisAttempt).open = claim[flow.task].open
        /\ Recorded(claim[flow.task], k, ThisAttempt).file \in {claim[flow.task].file, ThisAttempt}
        /\ Recorded(claim[flow.task], k, ThisAttempt).transcription
              \in {claim[flow.task].transcription, ThisAttempt}
        /\ \A j \in Kind :
              \/ Recorded(claim[flow.task], k, ThisAttempt)[j] = claim[flow.task][j]
              \/ j = k /\ Recorded(claim[flow.task], k, ThisAttempt)[j] = ThisAttempt
    BY <1>1 DEF Recorded, ClaimRow, Kind
  <1>3. \/ claim' = claim
        \/ claim' = [claim EXCEPT ![flow.task] = Recorded(claim[flow.task], k, ThisAttempt)]
    BY DEF Record
  <1> QED
    BY <1>2, <1>3 DEF ArtifactTypeOK

\* Journalled ids are those of attempts that were made.
LEMMA IdsStep ==
    ASSUME SuccessInv, CoverInv, [ArtifactNext]_journalVars
    PROVE  IdsBound'
  <1> USE DEF SuccessInv, CoverInv, IdsBound
  <1>0. \A t \in Job : /\ attempts[t] \in Nat /\ claim[t].file \in Nat
                       /\ claim[t].transcription \in Nat
    BY ArtifactAssumption DEF ArtifactTypeOK, ClaimRow
  <1>1. ASSUME UNCHANGED attempts, NEW u \in Job,
               claim' = claim \/ claim' = [claim EXCEPT ![u] = NoClaim]
        PROVE  IdsBound'
    BY <1>0, <1>1 DEF ArtifactTypeOK, NoClaim, NoId
  <1>2. CASE UNCHANGED <<attempts, claim>>
    BY <1>2
  <1>3. ASSUME NEW t \in Job, OpenClaim(t) PROVE IdsBound'
    <2>1. claim'[t].file = claim[t].file /\ claim'[t].transcription = claim[t].transcription
      BY <1>3 DEF OpenClaim, OpenedClaim, ArtifactTypeOK, ClaimRow
    <2>2. attempts'[t] = attempts[t] + 1
      BY <1>3 DEF OpenClaim, ArtifactTypeOK
    <2>3. \A u \in Job : u # t => claim'[u] = claim[u] /\ attempts'[u] = attempts[u]
      BY <1>3 DEF OpenClaim, ArtifactTypeOK
    <2> QED
      BY <1>0, <2>1, <2>2, <2>3
  <1>4. CASE UploadAnswered \/ CreateAnswered
    <2>1. flow.task \in Job /\ ThisAttempt \in Attempt
      BY <1>4, MyTask DEF UploadAnswered, CreateAnswered, Running, ThisAttempt
    <2>2. UNCHANGED attempts /\ \E k \in Kind : Record(k)
      BY <1>4 DEF UploadAnswered, CreateAnswered, Kind
    <2>3. /\ \A t \in Job : t # flow.task => claim'[t] = claim[t]
          /\ claim'[flow.task].file \in {claim[flow.task].file, ThisAttempt}
          /\ claim'[flow.task].transcription \in {claim[flow.task].transcription, ThisAttempt}
      BY <2>1, <2>2, RecordOK
    <2> QED
      BY <1>0, <2>1, <2>2, <2>3 DEF ThisAttempt
  <1>5. CASE CloseAttempt
    BY <1>1, <1>5, MyTask DEF CloseAttempt, Running, ClosedClaim
  <1>6. ASSUME NEW t \in Job, SweepSkips(t) \/ SweepClaim(t) PROVE IdsBound'
    BY <1>1, <1>6 DEF SweepSkips, SweepClaim, ClosedClaim
  <1>7. ASSUME NEW a \in inflight, ProviderProcesses(a) \/ RequestLost(a) PROVE IdsBound'
    BY <1>2, <1>7 DEF ProviderProcesses, RequestLost
  <1>8. CASE \/ CancelBeforeUpload \/ SendUpload \/ FlowFails \/ TranscriptFetched
             \/ DeleteTranscription \/ DeleteFile \/ Report \/ StartSweep \/ FinishSweep
             \/ Crash \/ UNCHANGED journalVars
    BY <1>2, <1>8 DEF CancelBeforeUpload, SendUpload, FlowFails, TranscriptFetched,
       DeleteTranscription, DeleteFile, Report, StartSweep, FinishSweep, Crash, journalVars
  <1> QED
    BY <1>3, <1>4, <1>5, <1>6, <1>7, <1>8 DEF ArtifactNext

\* The observer writes the id it was just given; every other write of a claim
\* keeps its ids or drops them.
LEMMA ToldStep ==
    ASSUME SuccessInv, CoverInv, [ArtifactNext]_journalVars
    PROVE  RecordedTold'
  <1> USE DEF SuccessInv, CoverInv, RecordedTold
  <1>1. ASSUME UNCHANGED acked, NEW u \in Job,
               claim' = claim \/ claim' = [claim EXCEPT ![u] = NoClaim]
        PROVE  RecordedTold'
    BY <1>1 DEF ArtifactTypeOK, NoClaim, NoId, Kind
  <1>2. CASE UNCHANGED <<acked, claim>>
    BY <1>2
  <1>3. ASSUME NEW t \in Job, OpenClaim(t) PROVE RecordedTold'
    <2>1. \A k \in Kind : claim'[t][k] = claim[t][k]
      BY <1>3 DEF OpenClaim, OpenedClaim, ArtifactTypeOK, ClaimRow, Kind
    <2>2. UNCHANGED acked /\ \A u \in Job : u # t => claim'[u] = claim[u]
      BY <1>3 DEF OpenClaim, ArtifactTypeOK
    <2> QED
      BY <2>1, <2>2
  <1>4. ASSUME NEW k \in Kind, flow.task \in Job, ThisAttempt \in Attempt, Record(k),
               acked' = acked \cup {art(k, flow.task, ThisAttempt)}
        PROVE  RecordedTold'
    <2>1. /\ \A t \in Job : t # flow.task => claim'[t] = claim[t]
          /\ \A j \in Kind :
                \/ claim'[flow.task][j] = claim[flow.task][j]
                \/ j = k /\ claim'[flow.task][j] = ThisAttempt
      BY <1>4, RecordOK
    <2> QED
      BY <1>4, <2>1
  <1>5. CASE UploadAnswered \/ CreateAnswered
    <2>1. flow.task \in Job /\ ThisAttempt \in Attempt
      BY <1>5, MyTask DEF UploadAnswered, CreateAnswered, Running, ThisAttempt
    <2> QED
      BY <1>4, <1>5, <2>1 DEF UploadAnswered, CreateAnswered, Kind
  <1>6. CASE CloseAttempt
    BY <1>1, <1>6, MyTask DEF CloseAttempt, Running, ClosedClaim
  <1>7. ASSUME NEW t \in Job, SweepSkips(t) \/ SweepClaim(t) PROVE RecordedTold'
    BY <1>1, <1>7 DEF SweepSkips, SweepClaim, ClosedClaim
  <1>8. ASSUME NEW a \in inflight, ProviderProcesses(a) \/ RequestLost(a) PROVE RecordedTold'
    BY <1>2, <1>8 DEF ProviderProcesses, RequestLost
  <1>9. CASE \/ CancelBeforeUpload \/ SendUpload \/ FlowFails \/ TranscriptFetched
             \/ DeleteTranscription \/ DeleteFile \/ Report \/ StartSweep \/ FinishSweep
             \/ Crash \/ UNCHANGED journalVars
    BY <1>2, <1>9 DEF CancelBeforeUpload, SendUpload, FlowFails, TranscriptFetched,
       DeleteTranscription, DeleteFile, Report, StartSweep, FinishSweep, Crash, journalVars
  <1> QED
    BY <1>3, <1>5, <1>6, <1>7, <1>8, <1>9 DEF ArtifactNext

\* The running attempt knows its ids and keeps its claim open.
LEMMA KnowsStep ==
    ASSUME SuccessInv, CoverInv, [ArtifactNext]_journalVars
    PROVE  FlowKnows'
  <1> USE DEF SuccessInv, CoverInv
  <1>1. ASSUME NEW t \in Job, OpenClaim(t) PROVE FlowKnows'
    <2>1. flow'.task = t /\ flow'.file = NoId /\ flow'.transcription = NoId /\ acked' = acked
      BY <1>1 DEF OpenClaim, NoFlow
    <2>2. attempts'[t] = attempts[t] + 1 /\ attempts[t] \in Nat
      BY <1>1 DEF OpenClaim, ArtifactTypeOK
    <2>3. claim'[t].open
      BY <1>1 DEF OpenClaim, OpenedClaim, ArtifactTypeOK, ClaimRow
    <2>4. ASSUME NEW k, art(k, t, attempts[t] + 1) \in acked PROVE FALSE
      <3> DEFINE a == art(k, t, attempts[t] + 1)
      <3>1. a.attempt <= attempts[a.task]
        BY <2>4 DEF AckedBound
      <3>2. a.attempt = attempts[t] + 1 /\ a.task = t
        BY DEF art
      <3> QED
        BY <2>2, <3>1, <3>2
    <2>5. \A k : Mine(k)' = art(k, t, attempts[t] + 1)
      BY <2>1, <2>2 DEF Mine, art
    <2> QED
      BY <2>1, <2>3, <2>4, <2>5 DEF FlowKnows
  <1>2. ASSUME flow.pc # "idle", flow.pc # "report", flow'.task = flow.task, attempts' = attempts,
               flow.file # NoId => flow'.file # NoId,
               flow.transcription # NoId => flow'.transcription # NoId,
               flow'.file = NoId => Mine("file") \notin acked' \ acked,
               flow'.transcription = NoId => Mine("transcription") \notin acked' \ acked,
               flow'.pc # "report" => claim'[flow.task].open = claim[flow.task].open
        PROVE  FlowKnows'
    <2>1. \A k : Mine(k)' = Mine(k)
      BY <1>2 DEF Mine
    <2> QED
      BY <1>2, <2>1 DEF FlowKnows
  <1>3. CASE \/ SendUpload \/ FlowFails \/ TranscriptFetched \/ DeleteTranscription \/ DeleteFile
    <2>1. UNCHANGED <<acked, claim>>
      BY <1>3 DEF SendUpload, FlowFails, TranscriptFetched, DeleteTranscription, DeleteFile
    <2> QED
      BY <1>2, <1>3, <2>1, FlowGoesOn
  <1>4. CASE CloseAttempt
    <2>1. UNCHANGED acked /\ flow'.pc = "report"
      BY <1>4, FlowCloses DEF CloseAttempt, ArtifactTypeOK
    <2> QED
      BY <1>2, <1>4, <2>1, FlowGoesOn
  <1>5. CASE UploadAnswered
    <2>1. flow.task \in Job /\ ThisAttempt \in Attempt
      BY <1>5, MyTask DEF UploadAnswered, Running, ThisAttempt
    <2>2. acked' = acked \cup {Mine("file")} /\ Record("file") /\ flow'.file # NoId
      BY <1>5, <2>1 DEF UploadAnswered, Mine, ThisAttempt, Attempt, NoId, ArtifactTypeOK, FlowRow
    <2>3. claim'[flow.task].open = claim[flow.task].open
      BY <2>1, <2>2, RecordOK DEF Kind
    <2>4. Mine("file") # Mine("transcription")
      BY ArtEqual DEF Mine
    <2> QED
      BY <1>2, <1>5, <2>2, <2>3, <2>4, FlowGoesOn
  <1>6. CASE CreateAnswered
    <2>1. flow.task \in Job /\ ThisAttempt \in Attempt
      BY <1>6, MyTask DEF CreateAnswered, Running, ThisAttempt
    <2>2. /\ acked' = acked \cup {Mine("transcription")} /\ Record("transcription")
          /\ flow'.transcription # NoId
      BY <1>6, <2>1 DEF CreateAnswered, Mine, ThisAttempt, Attempt, NoId, ArtifactTypeOK, FlowRow
    <2>3. claim'[flow.task].open = claim[flow.task].open
      BY <2>1, <2>2, RecordOK DEF Kind
    <2>4. Mine("file") # Mine("transcription")
      BY ArtEqual DEF Mine
    <2> QED
      BY <1>2, <1>6, <2>2, <2>3, <2>4, FlowGoesOn
  <1>7. CASE CancelBeforeUpload \/ Report \/ Crash
    BY <1>7 DEF CancelBeforeUpload, Report, Crash, NoFlow, FlowKnows
  <1>8. ASSUME UNCHANGED <<flow, acked, attempts, claim>> PROVE FlowKnows'
    BY <1>8 DEF FlowKnows, Mine
  <1>9. ASSUME NEW t \in Job, SweepClaim(t) PROVE FlowKnows'
    <2>1. flow.pc = "idle" /\ flow' = flow
      BY <1>9 DEF SweepClaim, SweepFirst
    <2> QED
      BY <2>1 DEF FlowKnows
  <1>10. ASSUME NEW t \in Job, SweepSkips(t) PROVE FlowKnows'
    BY <1>8, <1>10 DEF SweepSkips
  <1>11. CASE StartSweep \/ FinishSweep \/ UNCHANGED journalVars
    BY <1>8, <1>11 DEF StartSweep, FinishSweep, journalVars
  <1>12. ASSUME NEW a \in inflight, ProviderProcesses(a) \/ RequestLost(a) PROVE FlowKnows'
    BY <1>8, <1>12 DEF ProviderProcesses, RequestLost
  <1> QED
    BY <1>1, <1>3, <1>4, <1>5, <1>6, <1>7, <1>9, <1>10, <1>11, <1>12 DEF ArtifactNext
\* A confirmed artifact of a task's only attempt, while that attempt runs, is
\* the one of its kind that the attempt made.
LEMMA OnlyMine ==
    ASSUME SuccessInv, CoverInv, flow.pc # "idle", NEW a \in acked,
           a.task = flow.task, attempts[flow.task] = 1
    PROVE  a \in {Mine("file"), Mine("transcription")}
  <1>1. a \in Artifact /\ a.attempt = 1
    <2>1. a \in Artifact /\ a.attempt \in Attempt /\ a.attempt <= 1
      BY DEF SuccessInv, CoverInv, ArtifactTypeOK, AckedBound, Artifact
    <2> QED
      BY <2>1, ArtifactAssumption DEF Attempt
  <1>2. a = [kind |-> a.kind, task |-> a.task, attempt |-> a.attempt] /\ a.kind \in Kind
    BY <1>1 DEF Artifact
  <1> QED
    BY <1>1, <1>2 DEF Mine, art, Kind

\* The ids of a claim that lacks none are those of the task's only attempt.
LEMMA IdsAreItsOwn ==
    ASSUME SuccessInv, CoverInv, NEW t \in Job, ~Unresolved(t), attempts[t] = 1,
           NEW a \in acked, a.task = t
    PROVE  claim[t][a.kind] = a.attempt
  <1>1. a.kind \in Kind /\ a.attempt \in Attempt /\ a.attempt <= 1
    BY DEF SuccessInv, CoverInv, ArtifactTypeOK, AckedBound, Artifact
  <1>2. claim[t].file \in Nat \ {0} /\ claim[t].transcription \in Nat \ {0}
    BY ArtifactAssumption DEF SuccessInv, ArtifactTypeOK, ClaimRow, Unresolved, NoId
  <1>3. claim[t].file <= 1 /\ claim[t].transcription <= 1
    BY DEF CoverInv, IdsBound
  <1>4. a.attempt = 1
    BY <1>1, ArtifactAssumption DEF Attempt
  <1>5. claim[t].file = 1 /\ claim[t].transcription = 1
    BY <1>2, <1>3
  <1> QED
    BY <1>1, <1>4, <1>5 DEF Kind

\* The sweep closes a claim only with everything of its task gone.
LEMMA SweptIsGone ==
    ASSUME SuccessInv, CoverInv, NEW t \in Job, sweep.listed \/ ~Unresolved(t),
           attempts[t] = 1, NEW a \in acked \cap remote, a.task = t
    PROVE  a \in SweepTargets(t)
  BY IdsAreItsOwn DEF SweepTargets

\* A claim is closed only when nothing of a single attempt is left under it.
LEMMA OpenStep ==
    ASSUME SuccessInv, CoverInv, [ArtifactNext]_journalVars
    PROVE  FirstAttemptIsOpen'
  <1> USE DEF SuccessInv, CoverInv
  <1>1. ASSUME acked' \cap remote' \subseteq acked \cap remote, UNCHANGED attempts,
               \A t \in Job : claim'[t].open = claim[t].open
        PROVE  FirstAttemptIsOpen'
    BY <1>1 DEF FirstAttemptIsOpen, ArtifactTypeOK, Artifact
  <1>2. ASSUME NEW t \in Job, UNCHANGED <<attempts, acked>>, remote' \subseteq remote,
               claim' = [claim EXCEPT ![t] = NoClaim],
               attempts[t] = 1 => \A a \in acked \cap remote' : a.task # t
        PROVE  FirstAttemptIsOpen'
    BY <1>2 DEF FirstAttemptIsOpen, ArtifactTypeOK, Artifact
  <1>3. ASSUME NEW t \in Job, OpenClaim(t) PROVE FirstAttemptIsOpen'
    <2>1. UNCHANGED <<acked, remote>> /\ claim'[t].open
      BY <1>3 DEF OpenClaim, OpenedClaim, ArtifactTypeOK, ClaimRow
    <2>2. \A u \in Job : u # t => claim'[u] = claim[u] /\ attempts'[u] = attempts[u]
      BY <1>3 DEF OpenClaim, ArtifactTypeOK
    <2>3. \A a \in acked : a.task \in Job
      BY DEF ArtifactTypeOK, Artifact
    <2> QED
      BY <2>1, <2>2, <2>3 DEF FirstAttemptIsOpen
  <1>4. CASE UploadAnswered \/ CreateAnswered
    <2>1. flow.task \in Job /\ ThisAttempt \in Attempt /\ flow.pc \in {"uploading", "creating"}
      BY <1>4, MyTask DEF UploadAnswered, CreateAnswered, Running, ThisAttempt
    <2>2. UNCHANGED <<attempts, remote>> /\ \E k \in Kind : Record(k)
      BY <1>4 DEF UploadAnswered, CreateAnswered, Kind
    <2>3. \A t \in Job : claim'[t].open = claim[t].open
      BY <2>1, <2>2, RecordOK
    <2>4. acked' \ acked \subseteq {Mine("file"), Mine("transcription")}
      BY <1>4 DEF UploadAnswered, CreateAnswered, Mine, ThisAttempt
    <2>5. claim[flow.task].open
      BY <2>1 DEF FlowKnows
    <2>6. \A a \in acked' \ acked : a.task = flow.task
      BY <2>4 DEF Mine, art
    <2>7. \A a \in acked : a.task \in Job
      BY DEF ArtifactTypeOK, Artifact
    <2> QED
      BY <2>1, <2>2, <2>3, <2>5, <2>6, <2>7 DEF FirstAttemptIsOpen
  <1>5. CASE CloseAttempt
    <2>1. flow.pc = "close" /\ flow.task \in Job /\ UNCHANGED <<attempts, acked, remote>>
      BY <1>5, MyTask DEF CloseAttempt, Running
    <2>2. CASE UNCHANGED claim
      BY <1>1, <2>1, <2>2
    <2>3. CASE flow.cleaned /\ claim' = [claim EXCEPT ![flow.task] = NoClaim]
      <3>1. Mine("file") \notin acked \cap remote /\ Mine("transcription") \notin acked \cap remote
        BY <2>1, <2>3 DEF FlowOK, FlowKnows
      <3>2. attempts[flow.task] = 1 => \A a \in acked \cap remote : a.task # flow.task
        BY <2>1, <3>1, OnlyMine
      <3> QED
        BY <1>2, <2>1, <2>3, <3>2
    <2> QED
      BY <1>5, <2>2, <2>3 DEF CloseAttempt, ClosedClaim
  <1>6. ASSUME NEW t \in Job, SweepClaim(t) PROVE FirstAttemptIsOpen'
    <2>1. UNCHANGED <<attempts, acked>> /\ remote' \subseteq remote /\ (sweep.listed \/ ~Unresolved(t))
      BY <1>6 DEF SweepClaim
    <2>2. CASE UNCHANGED claim
      BY <1>1, <2>1, <2>2
    <2>3. CASE remote' = remote \ SweepTargets(t) /\ claim' = [claim EXCEPT ![t] = NoClaim]
      BY <1>2, <2>1, <2>3, SweptIsGone
    <2> QED
      BY <1>6, <2>2, <2>3 DEF SweepClaim, ClosedClaim
  <1>7. ASSUME NEW t \in Job, SweepSkips(t) PROVE FirstAttemptIsOpen'
    BY <1>1, <1>7 DEF SweepSkips
  <1>8. ASSUME NEW a \in inflight, ProviderProcesses(a) \/ RequestLost(a) PROVE FirstAttemptIsOpen'
    BY <1>1, <1>8 DEF ProviderProcesses, RequestLost, AckedArrived
  <1>9. CASE DeleteTranscription \/ DeleteFile
    <2>1. remote' \subseteq remote /\ UNCHANGED <<acked, attempts, claim>>
      BY <1>9 DEF DeleteTranscription, DeleteFile, Delete
    <2> QED
      BY <1>1, <2>1
  <1>10. CASE \/ CancelBeforeUpload \/ SendUpload \/ FlowFails \/ TranscriptFetched
              \/ Report \/ StartSweep \/ FinishSweep \/ Crash \/ UNCHANGED journalVars
    BY <1>1, <1>10 DEF CancelBeforeUpload, SendUpload, FlowFails, TranscriptFetched, Report,
       StartSweep, FinishSweep, Crash, journalVars
  <1> QED
    BY <1>3, <1>4, <1>5, <1>6, <1>7, <1>8, <1>9, <1>10 DEF ArtifactNext

\* While its claim lacks no id, a first attempt has nothing unanswered: both ids
\* are its own, and it was told both.
LEMMA UnansweredLacksAnId ==
    ASSUME SuccessInv, CoverInv, NEW a \in (remote \cup inflight) \ acked,
           attempts[a.task] = 1
    PROVE  Unresolved(a.task)
  <1>1. a \in Artifact /\ a.task \in Job /\ a.kind \in Kind /\ a.attempt = 1
    <2>1. a \in Artifact /\ a.attempt \in Attempt /\ a.attempt <= 1
      BY DEF SuccessInv, ArtifactTypeOK, AttemptsBound, Artifact
    <2> QED
      BY <2>1, ArtifactAssumption DEF Attempt, Artifact
  <1>2. SUFFICES ASSUME ~Unresolved(a.task) PROVE FALSE
    OBVIOUS
  <1>3. claim[a.task].file \in Nat \ {0} /\ claim[a.task].transcription \in Nat \ {0}
    BY <1>1, <1>2, ArtifactAssumption DEF SuccessInv, ArtifactTypeOK, ClaimRow, Unresolved, NoId
  <1>4. claim[a.task].file <= 1 /\ claim[a.task].transcription <= 1
    BY <1>1 DEF CoverInv, IdsBound
  <1>5. claim[a.task][a.kind] = 1
    BY <1>1, <1>3, <1>4 DEF Kind
  <1>6. art(a.kind, a.task, 1) \in acked
    BY <1>1, <1>5 DEF CoverInv, RecordedTold, NoId
  <1>7. a = art(a.kind, a.task, 1)
    BY <1>1 DEF Artifact, art
  <1> QED
    BY <1>6, <1>7

\* The claim row and the sweep, for every instance: as long as a task has had
\* one attempt, what the provider has confirmed and still holds is found by an
\* open claim, whatever was journalled, swept, lost or interrupted; and what an
\* attempt requested and was not answered has an open claim while that attempt
\* runs.  Nothing is said of an unanswered request once its attempt has ended,
\* nor of what a second attempt overwrites: those may be left without a claim.
THEOREM JournalCovers == ArtifactSpec => []ClaimsCover
  <1>1. ArtifactInit => CoverInv
    BY ArtifactAssumption
       DEF ArtifactInit, CoverInv, AckedBound, AckedArrived, FlowKnows, SweepFirst, IdsBound,
           RecordedTold, Kind, FirstAttemptIsOpen, NoFlow, NoSweep, NoClaim, NoId
  <1>2. SuccessInv /\ CoverInv /\ [ArtifactNext]_journalVars => CoverInv'
    BY AckedStep, SweepStep, IdsStep, ToldStep, KnowsStep, OpenStep DEF CoverInv
  <1>3. SuccessInv /\ CoverInv => FirstAttemptIsCovered
    <2> SUFFICES ASSUME SuccessInv, CoverInv, NEW a \in acked \cap remote, attempts[a.task] = 1
                 PROVE  /\ claim[a.task].open
                        /\ claim[a.task][a.kind] = a.attempt \/ Unresolved(a.task)
      BY DEF FirstAttemptIsCovered
    <2>1. a.task \in Job /\ a.kind \in Kind
      BY DEF SuccessInv, ArtifactTypeOK, Artifact
    <2>2. claim[a.task].open
      BY DEF CoverInv, FirstAttemptIsOpen
    <2>3. CASE ~Unresolved(a.task)
      BY <2>1, <2>2, <2>3, IdsAreItsOwn
    <2> QED
      BY <2>2, <2>3
  <1>4. SuccessInv /\ CoverInv => RunningAttemptIsCovered
    BY UnansweredLacksAnId DEF RunningAttemptIsCovered, CoverInv, FlowKnows
  <1>5. SuccessInv /\ CoverInv => ClaimsCover
    BY <1>3, <1>4 DEF ClaimsCover, SuccessInv
  <1> QED
    BY <1>1, <1>2, <1>5, SuccessInvariant, PTL DEF ArtifactSpec
=============================================================================
