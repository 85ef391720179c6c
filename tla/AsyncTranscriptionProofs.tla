----------------------- MODULE AsyncTranscriptionProofs -----------------------
(***************************************************************************)
(* TLAPS proofs about AsyncTranscription, for any number of sessions,      *)
(* privacy levels, crashes, lease lengths and retry policies.  AsyncInv is *)
(* inductive: what each of the three actors - the worker, the API call,    *)
(* startup - knows at its present step, and what the stores say of each    *)
(* session.  A step of one actor is proved to keep what the others rely    *)
(* on (WorkerActs, CallActs, PurgeActs, BootActs); every action is then an *)
(* instance of one of these.  The rows of the queue come first: QueueInv,   *)
(* of which AsyncInv takes over what it needs.                             *)
(***************************************************************************)
EXTENDS AsyncTranscription, TLAPS

-----------------------------------------------------------------------------
(* The queue alone: TaskQueue, for any number of tasks, sessions and permits *)
(* and for every lease length and retry policy.                             *)

\* What each operation keeps of one row, whichever operation it is.
RowOK(r) ==
    /\ r \in Row
    /\ r.status \in {"pending", "running"} => r.retry_count < r.max_retries
    /\ r.status = "running" <=> r.lease # NoLease
    /\ r.status = "running" => r.payload.kind = "valid"

\* The inductive invariant: the checked properties, taken together.
QueueInv ==
    /\ QueueTypeOK
    /\ RetryBudget
    /\ RunningHasLease
    /\ OnlyAuthorizedRuns

-----------------------------------------------------------------------------
(* Each row-valued helper maps good rows to good rows. *)

LEMMA ClosedRowOK ==
    ASSUME NEW r, RowOK(r), NEW st \in {"pending", "completed", "failed"},
           st = "pending" => r.status \in {"pending", "running"}
    PROVE  RowOK(Closed(r, st))
  BY QueueAssumption DEF RowOK, Row, Closed, Status, NoLease, Payload, PayloadKind

LEMMA ClaimedRowOK ==
    ASSUME NEW r, RowOK(r), Claimable(r), Valid(r)
    PROVE  RowOK(ClaimedRow(r))
<1>1. Lease \in 0..Lease /\ Lease # NoLease
  BY QueueAssumption DEF NoLease
<1>2. ClaimedRow(r) \in Row
  BY <1>1 DEF RowOK, Row, ClaimedRow, Status
<1>3. r.retry_count < r.max_retries
  BY DEF RowOK, Claimable
<1> QED
  BY <1>1, <1>2, <1>3 DEF RowOK, Row, ClaimedRow, Valid

LEMMA QuarantinedRowOK ==
    ASSUME NEW r, RowOK(r)
    PROVE  RowOK(QuarantinedRow(r))
<1>1. r.retry_count + 1 \in Nat
  BY DEF RowOK, Row
<1>2. QuarantinedRow(r) \in Row
  BY <1>1 DEF RowOK, Row, QuarantinedRow, Status
<1> QED
  BY <1>2 DEF RowOK, Row, QuarantinedRow

LEMMA FailedRowOK ==
    ASSUME NEW r, RowOK(r)
    PROVE  RowOK(FailedRow(r))
<1>1. r.retry_count + 1 \in Nat /\ r.retry_count \in Nat /\ r.max_retries \in Int
  BY DEF RowOK, Row
<1>2. FailedRow(r) \in Row
  BY <1>1 DEF RowOK, Row, FailedRow, Closed, Status
<1>3. FailedRow(r).retry_count = r.retry_count + 1
  BY DEF RowOK, Row, FailedRow, Closed
<1> QED
  BY <1>1, <1>2, <1>3 DEF RowOK, Row, FailedRow, Closed

LEMMA AbsentRowOK ==
    ASSUME NEW r, RowOK(r)
    PROVE  RowOK(Absent(r))
  BY QueueAssumption DEF RowOK, Row, Absent, Status, NoLease, Payload, PayloadKind

LEMMA LeasedRowOK ==
    ASSUME NEW r, RowOK(r), r.status = "running", NEW n \in 0..Lease
    PROVE  RowOK([r EXCEPT !.lease = n])
  BY QueueAssumption DEF RowOK, Row, Status, NoLease, Payload, PayloadKind

LEMMA NewRowOK ==
    ASSUME NEW s \in Session, NEW prio \in Priority, NEW max \in RetryPolicy,
           stamp \in 0..MaxStamp
    PROVE  RowOK(NewRow([session |-> s, kind |-> "valid"], prio, max))
  BY QueueAssumption DEF RowOK, Row, NewRow, Status, NoLease, Payload, PayloadKind

-----------------------------------------------------------------------------
(* From rows to tables. *)

LEMMA InvRows == QueueInv => \A t \in Task : RowOK(tasks[t])
  BY DEF QueueInv, QueueTypeOK, RetryBudget, RunningHasLease, OnlyAuthorizedRuns,
         RowOK, Valid

LEMMA RowsInv ==
    ASSUME tasks' \in [Task -> Row], \A t \in Task : RowOK(tasks'[t]),
           slot' \in [Slot -> Task \cup {NoHandle}], stamp' \in 0..MaxStamp
    PROVE  QueueInv'
  BY DEF QueueInv, QueueTypeOK, RetryBudget, RunningHasLease, OnlyAuthorizedRuns,
         RowOK, Valid

\* A step that rewrites one row with a good one.
LEMMA UpdateInv ==
    ASSUME QueueInv, NEW t \in Task, NEW r, RowOK(r), Update(t, r),
           slot' \in [Slot -> Task \cup {NoHandle}], stamp' = stamp
    PROVE  QueueInv'
<1>1. \A u \in Task : RowOK(tasks[u])
  BY InvRows
<1>2. tasks' \in [Task -> Row] /\ \A u \in Task : RowOK(tasks'[u])
  BY <1>1 DEF QueueInv, QueueTypeOK, Update, RowOK
<1> QED
  BY <1>2, RowsInv DEF QueueInv, QueueTypeOK

-----------------------------------------------------------------------------
LEMMA QueueInitInv == QueueInit => QueueInv
<1> SUFFICES ASSUME QueueInit PROVE QueueInv
  OBVIOUS
<1>1. stamp \in 0..MaxStamp /\ 0 \in 0..MaxStamp
  BY QueueAssumption DEF QueueInit
<1>2. slot \in [Slot -> Task \cup {NoHandle}]
  BY DEF QueueInit
<1>3. \A m \in RetryPolicy : m \in 1..20 /\ 0 < m
  BY QueueAssumption
<1>4. \A t \in Task : /\ tasks[t] \in Row
                       /\ tasks[t].status # "running" /\ tasks[t].lease = NoLease
                       /\ tasks[t].retry_count < tasks[t].max_retries
  BY <1>1, <1>3 DEF QueueInit, Row, Status
<1>5. tasks \in [Task -> Row]
  BY <1>4 DEF QueueInit
<1> QED
  BY <1>1, <1>2, <1>4, <1>5
  DEF QueueInv, QueueTypeOK, RetryBudget, RunningHasLease, OnlyAuthorizedRuns

LEMMA QueueStepInv == QueueInv /\ [QueueNext]_queueVars => QueueInv'
<1> SUFFICES ASSUME QueueInv, [QueueNext]_queueVars
             PROVE  QueueInv'
  OBVIOUS
<1> USE DEF QueueTypeOK
<1>0. /\ \A t \in Task : RowOK(tasks[t])
      /\ tasks \in [Task -> Row] /\ slot \in [Slot -> Task \cup {NoHandle}]
      /\ stamp \in 0..MaxStamp
  BY InvRows DEF QueueInv
<1>1. ASSUME NEW t \in Task, NEW s \in Session, NEW prio \in Priority,
             NEW max \in RetryPolicy, Enqueue(t, s, prio, max)
      PROVE  QueueInv'
  <2>1. RowOK(NewRow([session |-> s, kind |-> "valid"], prio, max))
    BY <1>0, NewRowOK
  <2> QED
    BY <1>0, <1>1, <2>1, UpdateInv DEF Enqueue
<1>2. ASSUME NEW p \in Slot, NEW t \in Task, ClaimNext(p, t)
      PROVE  QueueInv'
  <2>1. PICK rejected \in SUBSET (Task \ {t}) :
           tasks' = [u \in Task |-> IF u = t THEN ClaimedRow(tasks[u])
                                    ELSE IF u \in rejected THEN QuarantinedRow(tasks[u])
                                    ELSE tasks[u]]
    BY <1>2 DEF ClaimNext
  <2>2. \A u \in Task : RowOK(IF u = t THEN ClaimedRow(tasks[u])
                              ELSE IF u \in rejected THEN QuarantinedRow(tasks[u])
                              ELSE tasks[u])
    BY <1>0, <1>2, ClaimedRowOK, QuarantinedRowOK DEF ClaimNext
  <2>3. slot' \in [Slot -> Task \cup {NoHandle}] /\ stamp' = stamp
    BY <1>0, <1>2 DEF ClaimNext
  <2>4. tasks' \in [Task -> Row] /\ \A u \in Task : RowOK(tasks'[u])
    BY <2>1, <2>2 DEF RowOK
  <2> QED
    BY <1>0, <2>3, <2>4, RowsInv
<1>3. CASE ClaimNextDrains
  <2>1. tasks' \in [Task -> Row] /\ \A u \in Task : RowOK(tasks'[u])
    <3>1. \A u \in Task : RowOK(IF Claimable(tasks[u]) THEN QuarantinedRow(tasks[u])
                                ELSE tasks[u])
      BY <1>0, QuarantinedRowOK
    <3> QED
      BY <1>3, <3>1 DEF ClaimNextDrains, RowOK
  <2> QED
    BY <1>0, <1>3, <2>1, RowsInv DEF ClaimNextDrains
<1>4. ASSUME NEW p \in Slot, NEW t \in Task, ClaimById(p, t)
      PROVE  QueueInv'
  <2>1. RowOK(ClaimedRow(tasks[t]))
    BY <1>0, <1>4, ClaimedRowOK DEF ClaimById
  <2> QED
    BY <1>0, <1>4, <2>1, UpdateInv DEF ClaimById
<1>5. ASSUME NEW p \in Slot, HandlerStep(p)
      PROVE  QueueInv'
  <2> DEFINE t == slot[p]
  <2>0. t \in Task /\ RowOK(tasks[t])
    BY <1>0, <1>5 DEF HandlerStep
  <2>1. CASE Heartbeat(t)
    <3>1. Lease \in 0..Lease
      BY QueueAssumption
    <3>2. RowOK([tasks[t] EXCEPT !.lease = Lease])
      BY <2>0, <2>1, <3>1, LeasedRowOK DEF Heartbeat
    <3> QED
      BY <1>0, <2>0, <2>1, <3>2, UpdateInv DEF Heartbeat
  <2>2. CASE Complete(t)
    BY <1>0, <2>0, <2>2, ClosedRowOK, UpdateInv DEF Complete
  <2>3. CASE ReleaseWithoutRetry(t)
    BY <1>0, <2>0, <2>3, ClosedRowOK, UpdateInv DEF ReleaseWithoutRetry
  <2>4. CASE Fail(t)
    BY <1>0, <2>0, <2>4, FailedRowOK, UpdateInv DEF Fail
  <2>5. CASE FailLocalPreflight(t)
    BY <1>0, <2>0, <2>5, ClosedRowOK, UpdateInv DEF FailLocalPreflight
  <2> QED
    BY <1>5, <2>1, <2>2, <2>3, <2>4, <2>5 DEF HandlerStep
<1>6. ASSUME NEW p \in Slot, DropHandle(p)
      PROVE  QueueInv'
  BY <1>0, <1>6, RowsInv DEF DropHandle
<1>7. ASSUME NEW t \in Task, CompleteFromDurableProviderReceipt(t)
      PROVE  QueueInv'
  BY <1>0, <1>7, ClosedRowOK, UpdateInv DEF CompleteFromDurableProviderReceipt
<1>8. ASSUME NEW t \in Task, FailTerminal(t)
      PROVE  QueueInv'
  BY <1>0, <1>8, QuarantinedRowOK, UpdateInv DEF FailTerminal
<1>9. ASSUME NEW t \in Task, PurgeTask(t)
      PROVE  QueueInv'
  BY <1>0, <1>9, AbsentRowOK, UpdateInv DEF PurgeTask
<1>10. ASSUME NEW s \in Session, PurgeSession(s)
       PROVE  QueueInv'
  <2>1. \A u \in Task : RowOK(IF tasks[u].payload.session = s THEN Absent(tasks[u])
                              ELSE tasks[u])
    BY <1>0, AbsentRowOK
  <2>2. tasks' \in [Task -> Row] /\ \A u \in Task : RowOK(tasks'[u])
    BY <1>10, <2>1 DEF PurgeSession, RowOK
  <2> QED
    BY <1>0, <1>10, <2>2, RowsInv DEF PurgeSession
<1>11. CASE Tick
  <2>1. ASSUME NEW u \in Task, tasks[u].lease > 0
        PROVE  RowOK([tasks[u] EXCEPT !.lease = tasks[u].lease - 1])
    <3>1. tasks[u].lease - 1 \in 0..Lease /\ tasks[u].lease # NoLease
      BY <1>0, <2>1, QueueAssumption DEF RowOK, Row, NoLease
    <3>2. tasks[u].status = "running"
      BY <1>0, <3>1 DEF RowOK
    <3> QED
      BY <1>0, <3>1, <3>2, LeasedRowOK
  <2>2. \A u \in Task : RowOK(IF tasks[u].lease > 0
                              THEN [tasks[u] EXCEPT !.lease = tasks[u].lease - 1]
                              ELSE tasks[u])
    BY <1>0, <2>1
  <2>3. tasks' \in [Task -> Row] /\ \A u \in Task : RowOK(tasks'[u])
    BY <1>11, <2>2 DEF Tick, RowOK
  <2> QED
    BY <1>0, <1>11, <2>3, RowsInv DEF Tick
<1>12. CASE NextSecond
  BY <1>0, <1>12, RowsInv, QueueAssumption DEF NextSecond
<1>13. CASE Restart
  <2>1. \A u \in Task : RowOK(RecoveredRow(tasks[u]))
    BY <1>0, ClosedRowOK DEF RecoveredRow
  <2>2. tasks' \in [Task -> Row] /\ \A u \in Task : RowOK(tasks'[u])
    BY <1>13, <2>1 DEF Restart, RowOK
  <2> QED
    BY <1>0, <1>13, <2>2, RowsInv DEF Restart
<1>14. CASE UNCHANGED queueVars
  BY <1>0, <1>14, RowsInv DEF queueVars
<1> QED
  BY <1>1, <1>2, <1>3, <1>4, <1>5, <1>6, <1>7, <1>8, <1>9, <1>10, <1>11, <1>12,
     <1>13, <1>14 DEF QueueNext

-----------------------------------------------------------------------------
\* Every reachable tasks.db is well formed, keeps part of the retry budget of a
\* row it may still hand out, leases exactly the running rows, and runs none
\* without a valid authorization (task_queue.rs, all operations).
THEOREM QueueSafety ==
    QueueSpec => []DispatchIsSound
<1>1. QueueInv => DispatchIsSound
  BY DEF QueueInv, DispatchIsSound
<1> QED
  BY QueueInitInv, QueueStepInv, <1>1, PTL DEF QueueSpec

\* No operation, crash or restart makes a failed row claimable again.
LEMMA FailedStep ==
    QueueInv /\ [QueueNext]_queueVars
        => \A t \in Task : tasks[t].status = "failed"
                             => tasks'[t].status \in {"failed", "completed", "absent"}
<1> SUFFICES ASSUME QueueInv, [QueueNext]_queueVars, NEW t \in Task,
                    tasks[t].status = "failed"
             PROVE  tasks'[t].status \in {"failed", "completed", "absent"}
  OBVIOUS
<1>0. /\ tasks \in [Task -> Row] /\ slot \in [Slot -> Task \cup {NoHandle}]
      /\ ~Claimable(tasks[t]) /\ tasks[t].lease = NoLease
  BY DEF QueueInv, QueueTypeOK, RunningHasLease, Claimable
<1>1. ASSUME NEW u \in Task, NEW s \in Session, NEW prio \in Priority,
             NEW max \in RetryPolicy, Enqueue(u, s, prio, max)
      PROVE  tasks'[t].status = "failed"
  BY <1>0, <1>1 DEF Enqueue, Exists, Update
<1>2. ASSUME NEW p \in Slot, NEW u \in Task, ClaimNext(p, u)
      PROVE  tasks'[t].status = "failed"
  BY <1>0, <1>2 DEF ClaimNext, QuarantinedRow, Row
<1>3. CASE ClaimNextDrains
  BY <1>0, <1>3 DEF ClaimNextDrains
<1>4. ASSUME NEW p \in Slot, NEW u \in Task, ClaimById(p, u)
      PROVE  tasks'[t].status = "failed"
  BY <1>0, <1>4 DEF ClaimById, Update
<1>5. ASSUME NEW p \in Slot, HandlerStep(p)
      PROVE  tasks'[t].status = "failed"
  BY <1>0, <1>5 DEF HandlerStep, Heartbeat, Complete, ReleaseWithoutRetry, Fail,
                    FailLocalPreflight, Update
<1>6. ASSUME NEW p \in Slot, DropHandle(p)
      PROVE  tasks'[t].status = "failed"
  BY <1>6 DEF DropHandle
<1>7. ASSUME NEW u \in Task, CompleteFromDurableProviderReceipt(u)
      PROVE  tasks'[t].status \in {"failed", "completed"}
  BY <1>0, <1>7 DEF CompleteFromDurableProviderReceipt, Update, Closed, Row
<1>8. ASSUME NEW u \in Task, FailTerminal(u)
      PROVE  tasks'[t].status = "failed"
  BY <1>0, <1>8 DEF FailTerminal, Update, QuarantinedRow, Row
<1>9. ASSUME NEW u \in Task, PurgeTask(u)
      PROVE  tasks'[t].status \in {"failed", "absent"}
  BY <1>0, <1>9 DEF PurgeTask, Update, Absent, Row
<1>10. ASSUME NEW s \in Session, PurgeSession(s)
       PROVE  tasks'[t].status \in {"failed", "absent"}
  BY <1>0, <1>10 DEF PurgeSession, Absent, Row
<1>11. CASE Tick
  BY <1>0, <1>11 DEF Tick, NoLease
<1>12. CASE NextSecond
  BY <1>12 DEF NextSecond
<1>13. CASE Restart
  BY <1>0, <1>13 DEF Restart, RecoveredRow
<1>14. CASE UNCHANGED queueVars
  BY <1>14 DEF queueVars
<1> QED
  BY <1>1, <1>2, <1>3, <1>4, <1>5, <1>6, <1>7, <1>8, <1>9, <1>10, <1>11, <1>12,
     <1>13, <1>14 DEF QueueNext

\* The action property FailedNeverRunsAgain for every instance of the queue:
\* provider work that failed for good is not repeated by a later retry, claim
\* or restart (recover_abandoned_tasks, claim_next, fail).
THEOREM QueueFailedIsTerminal == QueueSpec => FailedNeverRunsAgain
  BY QueueInitInv, QueueStepInv, FailedStep, PTL DEF QueueSpec, FailedNeverRunsAgain

-----------------------------------------------------------------------------
(* The worker, whose handle is one session's. *)

\* Between the claim and the drop the worker is registered as the owner.
Owned == WorkerStep \ {"idle", "polled", "claimed", "unkeyed", "r_register", "drop"}
\* The handler has not found or made a receipt yet, or has failed to.
Handling == {"check1", "verify", "preflight", "check2", "dispatch", "gate", "journal",
             "upload", "provider", "commit", "joined", "check3", "failing"}
\* The upload may have happened and its row does not say so yet.
Uploading == {"provider", "commit", "joined", "check3", "failing"}

WorkerOK ==
    /\ ~At("idle") => boot.phase = "running"
    /\ worker.pc \notin {"idle", "polled"} => W \in Session
    /\ worker.pc \in Owned => worker.registered
    /\ worker.registered \/ worker.cancelled => W \in Session
    /\ worker.cancelled => W \in blocked
    /\ worker.result = "ok" => worker.registered
    /\ At("claimed") /\ ~run[W].receipt => tasks[W].status = "running" \/ W \in blocked

\* What the handler at pc, with this result so far, knows of its session's run r
\* and of the status of its row.
Fits(pc, s, r, status, result) ==
    /\ pc \in Handling /\ ~r.receipt => status = "running"
    /\ pc \in {"check2", "dispatch", "gate", "journal", "upload", "provider", "commit"}
          => r.async = "enqueued" \/ r.receipt
    /\ pc \in {"gate", "journal", "upload", "provider", "commit"} => ~r.receipt
    /\ pc \in {"journal", "upload", "provider", "commit"} => r.provenance
    /\ pc \in {"fts", "finalize", "complete"} => r.receipt
    /\ result = "ok" => r.receipt
    /\ pc = "complete" /\ s \in Private => ~r.audio
HandlerOK == Fits(worker.pc, W, run[W], tasks[W].status, worker.result)

(* The API call, or a startup pass. *)
PurgeStep == {"block", "wait", "effect", "advance", "finish"}
Recovering == {"recover_fts", "recover_privacy", "recover_complete", "recover_mark"}
\* Past the wait: no handler of the session is left, and none can come.
Erasing == {"effect", "advance", "finish"}

\* What a call at pc that has read this status knows of its session's run r and
\* of the status of its row.
Serves(pc, s, read, r, status) ==
    /\ pc = "reserve" => r.async = "pending"
    /\ pc \in {"promote", "decide"} /\ read \in {"completed", "failed"} => status = read
    /\ pc \in {"enqueue", "read_receipt", "read_row"} /\ r.async = "completed"
          => status = "completed"
    /\ pc = "recover_complete" /\ s \in Private => ~r.audio
    /\ pc = "recover_mark" => status = "completed"

CallOK ==
    ~Calling("idle") =>
        /\ A \in Session /\ A \notin boot.todo
        /\ api.pc \notin PurgeStep => run[A].exists /\ ~Tombstone(A)
        /\ api.receipt => run[A].receipt
        /\ api.pc \in Recovering => api.receipt
        /\ Serves(api.pc, A, api.status, run[A], tasks[A].status)

PurgeOK ==
    /\ api.pc \in PurgeStep => Tombstone(A) /\ ~api.receipt
    /\ api.pc \in PurgeStep \ {"block"} => A \in blocked
    /\ api.pc \in Erasing => ~Holds(A)
    /\ api.pc \in {"effect", "advance"} => purge[A] < LastPhase
    /\ Calling("finish") => purge[A] = LastPhase

\* One actor at a time projects a session.
Projecting(pc) == pc \in {"write", "publish"}
ProjectingOK ==
    /\ Projecting(worker.pc) => run[W].projection = "projecting"
    /\ Projecting(api.pc) => run[A].projection = "projecting"
    /\ Projecting(worker.pc) /\ Projecting(api.pc) => W # A

BootOK ==
    /\ boot.phase = "running" => boot.todo = {}
    /\ boot.phase = "purges" => \A s \in boot.todo : Tombstone(s)
    /\ boot.phase # "purges" => \A s \in boot.todo : run[s].exists /\ ~Tombstone(s)
    /\ boot.phase = "compensate" => \A s \in boot.todo : run[s].async # "completed"

-----------------------------------------------------------------------------
(* What the stores say of one session. *)

Agrees(s) ==
    /\ run[s].async \in {"none", "pending"} => ~run[s].receipt
    /\ tasks[s].status = "completed" =>
          run[s].receipt /\ (s \in Private => ~run[s].audio)
    /\ run[s].async = "completed" =>
          /\ run[s].receipt /\ (s \in Private => ~run[s].audio)
          /\ ~Tombstone(s) => tasks[s].status \in {"completed", "absent"}
    /\ Exists(s) /\ tasks[s].max_retries # 1 => run[s].receipt
    /\ run[s].projection # "none" => run[s].async = "completed"

\* A tombstone blocks its session, or its purge is about to.
Blocks(s) ==
    /\ s \in blocked => Tombstone(s) \/ ~run[s].exists
    /\ Tombstone(s) /\ s \notin blocked =>
          \/ Calling("block") /\ A = s /\ (purge[s] = 0 \/ boot.phase = "purges")
          \/ boot.phase = "purges" /\ s \in boot.todo
    /\ purge[s] >= 1 => ~Holds(s)

\* What the phases reached have removed.
Reached(s) == IF Calling("advance") /\ A = s THEN purge[s] + 1 ELSE purge[s]
Gone(s) ==
    /\ Reached(s) >= 2 => s \notin doc
    /\ Reached(s) >= 3 => ~Exists(s)
    /\ Reached(s) >= 4 => ~run[s].audio
    /\ Reached(s) >= 5 => ~run[s].exists
    /\ ~run[s].exists => run[s] = ErasedRun /\ ~Exists(s) /\ s \notin doc /\ ~Holds(s)

\* This life's upload has been made, or none can be.
Spent(s) ==
    \/ run[s].receipt \/ tasks[s].status = "failed" \/ Tombstone(s) \/ ~run[s].exists
    \/ W = s /\ worker.pc \in Uploading /\ tasks[s].status = "running"
Counted(s) == uploads[s] <= crashes \/ (uploads[s] <= crashes + 1 /\ Spent(s))

SessionOK(s) == Agrees(s) /\ Blocks(s) /\ Gone(s) /\ Counted(s)

Payloads == \A t \in Session : tasks[t].payload = [session |-> t, kind |-> "valid"]
Rows == QueueInv /\ Payloads

WorkerRow == [pc : WorkerStep, session : Session \cup {NoSession},
              ready : BOOLEAN, registered : BOOLEAN, cancelled : BOOLEAN,
              result : {"none", "ok", "charged", "preflight"}]
CallRow == [pc : ApiStep, session : Session \cup {NoSession}, seen : AsyncState,
            receipt : BOOLEAN, status : Status]
BootRow == [phase : BootPhase, todo : SUBSET Session]

Typed ==
    /\ run \in [Session -> Run] /\ doc \subseteq Session
    /\ purge \in [Session -> NoPurge..LastPhase]
    /\ worker \in WorkerRow /\ api \in CallRow /\ boot \in BootRow
    /\ blocked \subseteq Session
    /\ uploads \in [Session -> Nat] /\ crashes \in 0..MaxCrash

ActorsOK == WorkerOK /\ HandlerOK /\ CallOK /\ PurgeOK /\ ProjectingOK /\ BootOK
AsyncInv == Rows /\ Typed /\ ActorsOK /\ \A s \in Session : SessionOK(s)

-----------------------------------------------------------------------------
(* What each operation of the queue does to the one row it is given.         *)

\* The row of session t gets this status and keeps its budget.
Sets(t, st) ==
    /\ \A u \in Session : u # t => tasks'[u] = tasks[u]
    /\ tasks'[t].status = st /\ tasks'[t].max_retries = tasks[t].max_retries
    /\ tasks' \in [Session -> Row]

LEMMA RowOf ==
    ASSUME Rows, NEW t \in Session
    PROVE  /\ RowOK(tasks[t]) /\ tasks[t] \in Row
           /\ tasks[t].payload = [session |-> t, kind |-> "valid"]
           /\ tasks[t].payload.session = t /\ Valid(tasks[t])
           /\ tasks[t].status \in Status
  <1>1. RowOK(tasks[t])
    BY InvRows, AsyncAssumption DEF Rows
  <1>2. tasks[t].payload = [session |-> t, kind |-> "valid"]
    BY DEF Rows, Payloads
  <1> QED
    BY <1>1, <1>2 DEF RowOK, Row, Valid

LEMMA UpdateRows ==
    ASSUME Rows, NEW t \in Session, NEW r, RowOK(r),
           r.payload = [session |-> t, kind |-> "valid"], Update(t, r),
           slot' \in [Slot -> Task \cup {NoHandle}], stamp' = stamp
    PROVE  /\ Rows' /\ tasks' \in [Session -> Row]
           /\ \A u \in Session : u # t => tasks'[u] = tasks[u]
           /\ tasks'[t] = r
  <1>1. QueueInv'
    BY UpdateInv, AsyncAssumption DEF Rows
  <1>2. tasks \in [Session -> Row] /\ r \in Row
    BY AsyncAssumption DEF Rows, QueueInv, QueueTypeOK, RowOK
  <1>3. /\ \A u \in Session : u # t => tasks'[u] = tasks[u]
        /\ tasks'[t] = r /\ tasks' \in [Session -> Row]
    BY <1>2 DEF Update
  <1>4. Payloads'
    BY <1>3 DEF Rows, Payloads
  <1> QED
    BY <1>1, <1>3, <1>4 DEF Rows

LEMMA SlotKept ==
    ASSUME Rows, slot' = slot \/ \E t \in Session : slot' = [slot EXCEPT ![Worker] = t]
                 \/ slot' = [slot EXCEPT ![Worker] = NoHandle]
    PROVE  slot' \in [Slot -> Task \cup {NoHandle}]
  BY AsyncAssumption DEF Rows, QueueInv, QueueTypeOK

LEMMA Claims ==
    ASSUME Rows, NEW t \in Session, ClaimById(Worker, t) \/ ClaimNext(Worker, t)
    PROVE  Rows' /\ Sets(t, "running") /\ Claimable(tasks[t])
  <1>1. RowOK(ClaimedRow(tasks[t])) /\ Claimable(tasks[t])
    BY RowOf, ClaimedRowOK DEF ClaimById, ClaimNext
  <1>2. /\ ClaimedRow(tasks[t]).payload = tasks[t].payload
        /\ ClaimedRow(tasks[t]).status = "running"
        /\ ClaimedRow(tasks[t]).max_retries = tasks[t].max_retries
    BY RowOf DEF ClaimedRow, Row
  <1>3. Update(t, ClaimedRow(tasks[t])) /\ slot' = [slot EXCEPT ![Worker] = t]
        /\ stamp' = stamp
    <2>1. CASE ClaimById(Worker, t)
      BY <2>1 DEF ClaimById
    <2>2. CASE ClaimNext(Worker, t)
      <3>1. PICK rejected \in SUBSET (Task \ {t}) :
               /\ RejectedBefore(t, rejected)
               /\ tasks' = [u \in Task |-> IF u = t THEN ClaimedRow(tasks[u])
                                        ELSE IF u \in rejected THEN QuarantinedRow(tasks[u])
                                        ELSE tasks[u]]
        BY <2>2 DEF ClaimNext
      <3>2. rejected = {}
        BY <3>1, RowOf, AsyncAssumption DEF RejectedBefore
      <3>3. tasks' = [tasks EXCEPT ![t] = ClaimedRow(tasks[t])]
        BY <3>1, <3>2 DEF Rows, QueueInv, QueueTypeOK
      <3> QED
        BY <2>2, <3>3 DEF ClaimNext, Update
    <2> QED
      BY <2>1, <2>2
  <1>4. slot' \in [Slot -> Task \cup {NoHandle}]
    BY <1>3, SlotKept
  <1> QED
    BY <1>1, <1>2, <1>3, <1>4, UpdateRows, RowOf DEF Sets

LEMMA Closes ==
    ASSUME Rows, NEW t \in Session
    PROVE  /\ Complete(t) => Rows' /\ Sets(t, "completed")
           /\ CompleteFromDurableProviderReceipt(t) => Rows' /\ Sets(t, "completed")
           /\ ReleaseWithoutRetry(t) => Rows' /\ Sets(t, "pending")
           /\ FailLocalPreflight(t) => Rows' /\ Sets(t, "failed")
  <1>1. \A st \in {"pending", "completed", "failed"} :
           /\ Closed(tasks[t], st).payload = tasks[t].payload
           /\ Closed(tasks[t], st).status = st
           /\ Closed(tasks[t], st).max_retries = tasks[t].max_retries
    BY RowOf DEF Closed, Row
  <1>2. ASSUME NEW st \in {"pending", "completed", "failed"},
               st = "pending" => tasks[t].status = "running",
               Update(t, Closed(tasks[t], st)), UNCHANGED <<slot, stamp>>
        PROVE  Rows' /\ Sets(t, st)
    <2> DEFINE r == Closed(tasks[t], st)
    <2>1. RowOK(r)
      BY <1>2, RowOf, ClosedRowOK
    <2>2. /\ r.payload = [session |-> t, kind |-> "valid"] /\ r.status = st
          /\ r.max_retries = tasks[t].max_retries /\ Update(t, r)
      BY <1>1, <1>2, RowOf
    <2> HIDE DEF r
    <2>3. slot' \in [Slot -> Task \cup {NoHandle}] /\ stamp' = stamp
      BY <1>2, SlotKept
    <2> QED
      BY <2>1, <2>2, <2>3, UpdateRows DEF Sets
  <1> QED
    BY <1>2 DEF Complete, CompleteFromDurableProviderReceipt, ReleaseWithoutRetry,
                FailLocalPreflight

\* The first failure spends a budget of one attempt.
LEMMA Fails ==
    ASSUME Rows, NEW t \in Session, Fail(t), tasks[t].max_retries = 1
    PROVE  Rows' /\ Sets(t, "failed")
  <1>1. RowOK(FailedRow(tasks[t]))
    BY RowOf, FailedRowOK
  <1>2. tasks[t].retry_count + 1 >= tasks[t].max_retries
    <2>1. tasks[t] \in Row
      BY RowOf
    <2>2. tasks[t].retry_count \in Nat
      BY <2>1 DEF Row
    <2> QED
      BY <2>2
  <1>3. /\ FailedRow(tasks[t]).payload = tasks[t].payload
        /\ FailedRow(tasks[t]).status = "failed"
        /\ FailedRow(tasks[t]).max_retries = tasks[t].max_retries
    BY <1>2, RowOf DEF FailedRow, Closed, Row
  <1> QED
    BY <1>1, <1>3, SlotKept, UpdateRows, RowOf DEF Fail, Sets

LEMMA Purges ==
    ASSUME Rows, NEW t \in Session, PurgeTask(t) \/ PurgeSession(t)
    PROVE  Rows' /\ Sets(t, "absent")
  <1>1. RowOK(Absent(tasks[t]))
    BY RowOf, AbsentRowOK
  <1>2. /\ Absent(tasks[t]).payload = tasks[t].payload
        /\ Absent(tasks[t]).status = "absent"
        /\ Absent(tasks[t]).max_retries = tasks[t].max_retries
    BY RowOf DEF Absent, Row
  <1>3. Update(t, Absent(tasks[t])) /\ UNCHANGED <<slot, stamp>>
    <2>1. CASE PurgeTask(t)
      BY <2>1 DEF PurgeTask
    <2>2. CASE PurgeSession(t)
      <3>1. \A u \in Session : tasks[u].payload.session = t <=> u = t
        BY RowOf
      <3>2. tasks' = [tasks EXCEPT ![t] = Absent(tasks[t])]
        BY <2>2, <3>1, AsyncAssumption DEF PurgeSession, Rows, QueueInv, QueueTypeOK
      <3> QED
        BY <2>2, <3>2 DEF PurgeSession, Update
    <2> QED
      BY <2>1, <2>2
  <1> QED
    BY <1>1, <1>2, <1>3, SlotKept, UpdateRows, RowOf DEF Sets

\* The budget of a new row is the caller's.
LEMMA Enqueues ==
    ASSUME Rows, NEW t \in Session, NEW max \in {1, 3}, Enqueue(t, t, 10, max)
    PROVE  /\ Rows' /\ tasks' \in [Session -> Row]
           /\ \A u \in Session : u # t => tasks'[u] = tasks[u]
           /\ tasks'[t].status = "pending" /\ tasks'[t].max_retries = max
  <1> DEFINE r == NewRow([session |-> t, kind |-> "valid"], 10, max)
  <1>1. RowOK(r)
    BY NewRowOK, AsyncAssumption DEF Rows, QueueInv, QueueTypeOK
  <1>2. /\ r.payload = [session |-> t, kind |-> "valid"]
        /\ r.status = "pending" /\ r.max_retries = max
    BY DEF NewRow
  <1>3. Update(t, r) /\ UNCHANGED <<slot, stamp>>
    BY DEF Enqueue
  <1> HIDE DEF r
  <1> QED
    BY <1>1, <1>2, <1>3, SlotKept, UpdateRows

LEMMA Leases ==
    ASSUME Rows, NEW t \in Session, Heartbeat(t)
    PROVE  Rows' /\ Sets(t, tasks[t].status)
  <1>1. Lease \in 0..Lease
    BY QueueAssumption
  <1> DEFINE r == [tasks[t] EXCEPT !.lease = Lease]
  <1>2. RowOK(r)
    BY <1>1, RowOf, LeasedRowOK DEF Heartbeat
  <1>3. /\ r.payload = tasks[t].payload /\ r.status = tasks[t].status
        /\ r.max_retries = tasks[t].max_retries
    BY RowOf DEF Row
  <1>4. Update(t, r) /\ UNCHANGED <<slot, stamp>>
    BY DEF Heartbeat
  <1> HIDE DEF r
  <1> QED
    BY <1>2, <1>3, <1>4, SlotKept, UpdateRows, RowOf DEF Sets

\* Time, and the next start, touch every row: its lease, or what was running.
LEMMA RowsPass ==
    ASSUME Rows, Tick \/ Restart \/ QueueFileLost
    PROVE  /\ Rows' /\ tasks' \in [Session -> Row]
           /\ \A t \in Session : tasks'[t].max_retries = tasks[t].max_retries
           /\ Tick => \A t \in Session : tasks'[t].status = tasks[t].status
           /\ ~Tick => \A t \in Session :
                 \/ tasks'[t].status = "absent"
                 \/ tasks'[t].status = "pending" /\ tasks[t].status = "running"
                 \/ tasks'[t].status = tasks[t].status
  <1>1. QueueInv'
    <2>1. CASE Tick \/ Restart
      BY <2>1, QueueStepInv DEF QueueNext, Rows
    <2>2. CASE QueueFileLost
      <3>1. \A t \in Task : RowOK(Absent(tasks[t]))
        BY InvRows, AbsentRowOK DEF Rows
      <3>2. tasks' \in [Task -> Row] /\ \A t \in Task : RowOK(tasks'[t])
        BY <2>2, <3>1 DEF QueueFileLost, RowOK
      <3>3. slot' \in [Slot -> Task \cup {NoHandle}] /\ stamp' \in 0..MaxStamp
        BY <2>2 DEF QueueFileLost, Rows, QueueInv, QueueTypeOK
      <3> QED
        BY <3>2, <3>3, RowsInv
    <2> QED
      BY <2>1, <2>2
  <1>2. \A t \in Session :
           /\ tasks'[t].payload = tasks[t].payload
           /\ tasks'[t].max_retries = tasks[t].max_retries
           /\ Tick => tasks'[t].status = tasks[t].status
           /\ ~Tick => \/ tasks'[t].status = "absent"
                       \/ tasks'[t].status = "pending" /\ tasks[t].status = "running"
                       \/ tasks'[t].status = tasks[t].status
    <2> SUFFICES ASSUME NEW t \in Session
                 PROVE  /\ tasks'[t].payload = tasks[t].payload
                        /\ tasks'[t].max_retries = tasks[t].max_retries
                        /\ Tick => tasks'[t].status = tasks[t].status
                        /\ ~Tick => \/ tasks'[t].status = "absent"
                                    \/ tasks'[t].status = "pending" /\ tasks[t].status = "running"
                                    \/ tasks'[t].status = tasks[t].status
      OBVIOUS
    <2>0. tasks[t] \in Row /\ t \in Task
      BY RowOf, AsyncAssumption
    <2>1. CASE Tick
      BY <2>0, <2>1 DEF Tick, Row
    <2>2. CASE ~Tick /\ Restart
      <3>1. tasks'[t] = RecoveredRow(tasks[t])
        BY <2>0, <2>2 DEF Restart
      <3> QED
        BY <2>0, <2>2, <3>1 DEF RecoveredRow, Closed, Row
    <2>3. CASE ~Tick /\ QueueFileLost
      <3>1. tasks'[t] = Absent(tasks[t])
        BY <2>0, <2>3 DEF QueueFileLost
      <3> QED
        BY <2>0, <2>3, <3>1 DEF Absent, Row
    <2> QED
      BY <2>1, <2>2, <2>3
  <1> QED
    BY <1>1, <1>2, AsyncAssumption DEF Rows, Payloads, QueueInv, QueueTypeOK

-----------------------------------------------------------------------------
(* A step of the worker: what it leaves alone, and what it must not do to    *)
(* the session it works on.                                                  *)

Untouched(s) ==
    /\ run'[s] = run[s] /\ uploads'[s] = uploads[s]
    /\ tasks'[s].status = tasks[s].status
    /\ tasks'[s].max_retries = tasks[s].max_retries
    /\ s \in doc' <=> s \in doc

\* What the other actor may rely on.
Kept(s) ==
    /\ run'[s].exists <=> run[s].exists
    /\ run[s].receipt => run'[s].receipt
    /\ run'[s].audio => run[s].audio
    /\ run[s].async = "pending" => run'[s].async = "pending"
    /\ run'[s].async = "completed"
          => run[s].async = "completed" \/ tasks'[s].status = "completed"
    /\ ~Tombstone(s) /\ run[s].exists /\ tasks[s].status \in {"completed", "failed"}
          => tasks'[s].status = tasks[s].status

LEMMA UntouchedIsKept == \A s \in Session : Untouched(s) => Kept(s)
  BY DEF Untouched, Kept

\* A session that neither the step nor an upload in hand is about.
LEMMA Elsewhere ==
    ASSUME AsyncInv, WorkerFrame, NEW s \in Session, Untouched(s),
           Holds(s)' => Holds(s), worker.pc \in Uploading => W # s
    PROVE  SessionOK(s)'
  <1>1. SessionOK(s)
    BY DEF AsyncInv
  <1>2. Agrees(s)'
    BY <1>1 DEF SessionOK, Agrees, Untouched, WorkerFrame, Tombstone, Exists
  <1>3. Blocks(s)'
    BY <1>1 DEF SessionOK, Blocks, Untouched, WorkerFrame, Tombstone, Calling, A
  <1>4. Gone(s)'
    BY <1>1 DEF SessionOK, Gone, Reached, Untouched, WorkerFrame, Calling, A, Exists
  <1>5. Spent(s) => Spent(s)'
    BY DEF Spent, Untouched, WorkerFrame, Tombstone
  <1>6. Counted(s)'
    BY <1>1, <1>5 DEF SessionOK, Counted, Untouched, WorkerFrame
  <1> QED
    BY <1>2, <1>3, <1>4, <1>6 DEF SessionOK

LEMMA WorkerActs ==
    ASSUME AsyncInv, WorkerFrame, boot.phase = "running",
           Rows', Typed', WorkerOK', HandlerOK', ProjectingOK',
           NEW v \in Session \cup {NoSession},
           \A s \in Session : s # v => Untouched(s) /\ (Holds(s)' => Holds(s)),
           worker.pc \in Uploading => W = v,
           v \in Session => /\ Kept(v) /\ Agrees(v)' /\ Gone(v)' /\ Counted(v)'
                            /\ Holds(v)' => Holds(v) \/ v \notin blocked
    PROVE  AsyncInv'
  <1>1. \A s \in Session : Kept(s)
    BY UntouchedIsKept
  <1>2. CallOK'
    <2>1. CallOK /\ api' = api /\ boot' = boot /\ purge' = purge
      BY DEF AsyncInv, ActorsOK, WorkerFrame
    <2>2. SUFFICES ASSUME ~Calling("idle")
                   PROVE  /\ A \in Session /\ A \notin boot.todo
                          /\ api.pc \notin PurgeStep => run'[A].exists /\ ~Tombstone(A)
                          /\ api.receipt => run'[A].receipt
                          /\ api.pc \in Recovering => api.receipt
                          /\ Serves(api.pc, A, api.status, run'[A], tasks'[A].status)
      BY <2>1 DEF CallOK, Calling, A, Tombstone
    <2>3. A \in Session /\ Kept(A) /\ Serves(api.pc, A, api.status, run[A], tasks[A].status)
      BY <1>1, <2>1, <2>2 DEF CallOK
    <2>4. api.pc \notin PurgeStep => run[A].exists /\ ~Tombstone(A)
      BY <2>1, <2>2 DEF CallOK
    <2>5. Serves(api.pc, A, api.status, run'[A], tasks'[A].status)
      BY <2>3, <2>4 DEF Serves, Kept, PurgeStep
    <2> QED
      BY <2>1, <2>2, <2>3, <2>5 DEF CallOK, Kept
  <1>3. \A s \in Session : Holds(s)' => Holds(s) \/ s \notin blocked
    OBVIOUS
  <1>4. api.pc \in PurgeStep => A \in Session
    BY DEF AsyncInv, ActorsOK, CallOK, PurgeStep, Calling
  <1>5. PurgeOK'
    <2>1. PurgeOK /\ api' = api /\ (api.pc \in Erasing => A \in Session /\ A \in blocked)
      BY <1>4 DEF AsyncInv, ActorsOK, PurgeOK, Erasing, PurgeStep, WorkerFrame
    <2>2. api.pc \in Erasing => ~(worker'.registered /\ worker'.session = A)
      BY <1>3, <2>1 DEF PurgeOK, Holds, W
    <2> QED
      BY <2>1, <2>2 DEF PurgeOK, WorkerFrame, Calling, A, Tombstone, Holds, W
  <1>6. BootOK'
    BY DEF AsyncInv, ActorsOK, BootOK, WorkerFrame
  <1>7. ASSUME NEW s \in Session, s = v
        PROVE  SessionOK(s)'
    <2>1. Blocks(s) /\ Kept(s)
      BY <1>1 DEF AsyncInv, SessionOK
    <2>2. Blocks(s)'
      <3>1. purge[s] >= 1 => s \in blocked
        BY <2>1 DEF Blocks, Tombstone, NoPurge
      <3>2. purge[s] >= 1 => ~Holds(s)'
        BY <1>7, <2>1, <3>1 DEF Blocks
      <3> QED
        BY <2>1, <3>2 DEF Blocks, Kept, WorkerFrame, Tombstone, Calling, A, Holds, W
    <2> QED
      BY <1>7, <2>2 DEF SessionOK
  <1>8. \A s \in Session : SessionOK(s)'
    BY <1>7, Elsewhere
  <1> QED
    BY <1>2, <1>5, <1>6, <1>8 DEF AsyncInv, ActorsOK

\* A registered worker has a session that nobody is erasing.
LEMMA OwnedFacts ==
    ASSUME AsyncInv, worker.pc \in Owned
    PROVE  /\ W \in Session /\ Holds(W) /\ worker.registered /\ boot.phase = "running"
           /\ run[W].exists /\ purge[W] \in {NoPurge, 0} /\ ~(purge[W] >= 1)
           /\ run[W] \in Run /\ tasks[W] \in Row /\ SessionOK(W)
           /\ ~(api.pc \in Erasing /\ A = W)
  <1>1. worker.registered /\ boot.phase = "running" /\ W \in Session /\ Holds(W)
    BY DEF AsyncInv, ActorsOK, WorkerOK, Owned, At, Holds
  <1>2. SessionOK(W) /\ run[W] \in Run /\ purge[W] \in NoPurge..LastPhase /\ tasks[W] \in Row
    BY <1>1, RowOf DEF AsyncInv, Typed
  <1>3. run[W].exists /\ ~(purge[W] >= 1)
    BY <1>1, <1>2 DEF SessionOK, Gone, Blocks
  <1>4. purge[W] \in {NoPurge, 0}
    BY <1>2, <1>3 DEF NoPurge, LastPhase
  <1>5. ~(api.pc \in Erasing /\ A = W)
    BY <1>1 DEF AsyncInv, ActorsOK, PurgeOK
  <1> QED
    BY <1>1, <1>2, <1>3, <1>4, <1>5

\* So nothing of it is gone.
LEMMA OwnedGone ==
    ASSUME AsyncInv, worker.pc \in Owned, WorkerFrame, NEW v \in Session, v = W, run'[v].exists
    PROVE  Gone(v)'
  <1>1. purge'[v] \in {-1, 0} /\ ~(api'.pc = "advance" /\ api'.session = v)
    BY OwnedFacts DEF WorkerFrame, A, Erasing, NoPurge
  <1>2. Reached(v)' \in {-1, 0}
    BY <1>1 DEF Reached, Calling, A
  <1> QED
    BY <1>2 DEF Gone

LEMMA OwnerActs ==
    ASSUME AsyncInv, worker.pc \in Owned, WorkerFrame, NEW v \in Session, v = W,
           Rows', worker' \in WorkerRow, run' \in [Session -> Run], doc' \subseteq Session,
           uploads' \in [Session -> Nat],
           worker'.session = v, worker'.registered, worker'.cancelled => worker.cancelled,
           worker'.pc \notin {"idle", "polled", "claimed"},
           HandlerOK', ProjectingOK',
           \A s \in Session : s # v => Untouched(s),
           Kept(v), Agrees(v)', Counted(v)'
    PROVE  AsyncInv'
  <1>1. Typed'
    BY DEF AsyncInv, Typed, WorkerFrame
  <1>2. WorkerOK'
    BY OwnedFacts DEF AsyncInv, ActorsOK, WorkerOK, WorkerFrame, At, W
  <1>3. Gone(v)'
    BY OwnedGone, OwnedFacts DEF Kept
  <1>4. \A s \in Session : s # v => (Holds(s)' => Holds(s))
    BY DEF Holds, W
  <1>5. Holds(v) /\ boot.phase = "running"
    BY OwnedFacts
  <1> QED
    BY <1>1, <1>2, <1>3, <1>4, <1>5, WorkerActs

-----------------------------------------------------------------------------
(* The steps of a registered worker that write nothing.                      *)

LEMMA OwnerTurns ==
    ASSUME AsyncInv, worker.pc \in Owned, WorkerFrame, QueueFrame,
           UNCHANGED <<run, doc, uploads>>,
           worker' \in WorkerRow, worker'.session = W, worker'.registered,
           worker'.cancelled => worker.cancelled,
           worker'.pc \notin {"idle", "polled", "claimed"}, ~Projecting(worker'.pc), HandlerOK',
           worker.pc \in Uploading
              => worker'.pc \in Uploading \/ run[W].receipt \/ W \in blocked
    PROVE  AsyncInv'
  <1>1. PICK v \in Session : v = W
    BY OwnedFacts
  <1>2. Rows'
    BY DEF AsyncInv, Rows, QueueInv, QueueTypeOK, RetryBudget, RunningHasLease,
           OnlyAuthorizedRuns, Payloads, QueueFrame, queueVars
  <1>3. \A s \in Session : Untouched(s)
    BY DEF Untouched, QueueFrame, queueVars
  <1>4. SessionOK(v) /\ run[v].exists
    BY <1>1, OwnedFacts
  <1>5. Kept(v)
    BY <1>3, UntouchedIsKept
  <1>6. Agrees(v)'
    BY <1>4 DEF SessionOK, Agrees, QueueFrame, queueVars, WorkerFrame, Tombstone, Exists
  <1>7. Spent(v) => Spent(v)'
    BY <1>1, <1>4 DEF SessionOK, Blocks, Spent, QueueFrame, queueVars, WorkerFrame,
                      Tombstone, W
  <1>8. Counted(v)'
    BY <1>4, <1>7 DEF SessionOK, Counted, WorkerFrame
  <1>9. ProjectingOK'
    BY DEF AsyncInv, ActorsOK, ProjectingOK, WorkerFrame, A
  <1> QED
    BY <1>1, <1>2, <1>3, <1>5, <1>6, <1>8, <1>9, OwnerActs DEF AsyncInv, Typed

LEMMA GoesTo ==
    ASSUME worker \in WorkerRow, NEW pc \in WorkerStep, GoTo(pc)
    PROVE  /\ worker' \in WorkerRow /\ worker'.pc = pc /\ worker'.session = W
           /\ worker'.registered <=> worker.registered
           /\ worker'.cancelled <=> worker.cancelled
           /\ worker'.result = worker.result /\ (worker'.ready <=> worker.ready)
  BY DEF GoTo, WorkerRow, W

LEMMA Returns ==
    ASSUME worker \in WorkerRow, NEW result \in {"ok", "charged", "preflight"},
           HandlerReturns(result)
    PROVE  /\ worker' \in WorkerRow /\ worker'.pc = "joined" /\ worker'.session = W
           /\ worker'.registered <=> worker.registered
           /\ worker'.cancelled <=> worker.cancelled
           /\ worker'.result = result
  BY DEF HandlerReturns, WorkerRow, WorkerStep, W

\* A step to pc, which fits what the session is at already.
LEMMA Turn ==
    ASSUME AsyncInv, worker.pc \in Owned, WorkerFrame, QueueFrame,
           UNCHANGED <<run, doc, uploads>>,
           NEW pc \in WorkerStep \ {"idle", "polled", "claimed", "write", "publish"}, GoTo(pc),
           Fits(pc, W, run[W], tasks[W].status, worker.result),
           worker.pc \in Uploading => pc \in Uploading \/ run[W].receipt \/ W \in blocked
    PROVE  AsyncInv'
  <1>1. /\ worker' \in WorkerRow /\ worker'.pc = pc /\ worker'.session = W
        /\ worker'.registered <=> worker.registered
        /\ (worker'.cancelled <=> worker.cancelled) /\ worker'.result = worker.result
    BY GoesTo DEF AsyncInv, Typed
  <1>2. worker.registered
    BY OwnedFacts
  <1>3. HandlerOK'
    <2>1. run' = run /\ tasks' = tasks
      BY DEF QueueFrame, queueVars
    <2>2. /\ worker'.session = W /\ run'[worker'.session] = run[W]
          /\ tasks'[worker'.session].status = tasks[W].status
      BY <1>1, <2>1
    <2>3. Fits(worker'.pc, worker'.session, run'[worker'.session],
               tasks'[worker'.session].status, worker'.result)
      BY <1>1, <2>2
    <2> QED
      BY <2>3 DEF HandlerOK, W
  <1> QED
    BY <1>1, <1>2, <1>3, OwnerTurns DEF Projecting

\* The handler ends without a receipt.
LEMMA Return ==
    ASSUME AsyncInv, worker.pc \in Handling, worker.pc \in Owned, WorkerFrame, QueueFrame,
           UNCHANGED <<run, doc, uploads>>,
           NEW result \in {"charged", "preflight"}, HandlerReturns(result)
    PROVE  AsyncInv'
  <1>1. /\ worker' \in WorkerRow /\ worker'.pc = "joined" /\ worker'.session = W
        /\ worker'.registered <=> worker.registered
        /\ (worker'.cancelled <=> worker.cancelled) /\ worker'.result = result
    BY Returns DEF AsyncInv, Typed
  <1>2. worker.registered
    BY OwnedFacts
  <1>3. Fits("joined", W, run[W], tasks[W].status, result)
    BY DEF AsyncInv, ActorsOK, HandlerOK, Fits
  <1>4. HandlerOK'
    <2>1. run' = run /\ tasks' = tasks
      BY DEF QueueFrame, queueVars
    <2>2. /\ worker'.session = W /\ run'[worker'.session] = run[W]
          /\ tasks'[worker'.session].status = tasks[W].status
      BY <1>1, <2>1
    <2>3. Fits(worker'.pc, worker'.session, run'[worker'.session],
               tasks'[worker'.session].status, worker'.result)
      BY <1>1, <1>3, <2>2
    <2> QED
      BY <2>3 DEF HandlerOK, W
  <1> QED
    BY <1>1, <1>2, <1>4, OwnerTurns DEF Projecting, Uploading

LEMMA TurningSteps ==
    ASSUME AsyncInv,
           \/ CheckPasses \/ VerifyRejects \/ DispatchReplays \/ DispatchRefuses
           \/ DispatchPrepares \/ GateRefuses \/ JournalOpens \/ JournalRefuses
           \/ ProviderSucceeds \/ ProviderFails \/ CommitRefused
           \/ JoinHandler \/ FinalizeFails
    PROVE  AsyncInv'
  <1> USE DEF Owned, WorkerStep, Handling, Uploading, At
  <1>0. HandlerOK /\ WorkerOK
    BY DEF AsyncInv, ActorsOK
  <1>1. CASE CheckPasses
    <2> DEFINE pc == NextAfterCheck(worker.pc)
    <2>1. worker.pc \in {"check1", "check2", "check3", "check4", "r_check1", "r_check2", "r_check3"}
      BY <1>1 DEF CheckPasses, ChecksCancel
    <2>2. /\ worker.pc = "check1" => pc = "verify"
          /\ worker.pc = "check2" => pc = "dispatch"
          /\ worker.pc = "check3" => pc = "finalize" \/ pc = "failing"
          /\ worker.pc = "check3" /\ pc = "finalize" => worker.result = "ok"
          /\ worker.pc = "check4" => pc = "project"
          /\ worker.pc = "r_check1" => pc = "r_close"
          /\ worker.pc = "r_check2" => pc = "r_fts"
          /\ worker.pc = "r_check3" => pc = "project"
      BY <2>1 DEF NextAfterCheck
    <2> HIDE DEF pc
    <2>3. GoTo(pc) /\ QueueFrame /\ WorkerFrame /\ UNCHANGED <<run, doc, uploads>>
      BY <1>1 DEF CheckPasses, pc
    <2> QED
      BY <1>0, <2>1, <2>2, <2>3, Turn DEF HandlerOK, Fits
  <1>2. CASE VerifyRejects
    BY <1>0, <1>2, Turn DEF HandlerOK, Fits, VerifyRejects
  <1>3. CASE DispatchReplays
    BY <1>0, <1>3, Turn DEF HandlerOK, Fits, DispatchReplays
  <1>4. CASE DispatchRefuses
    BY <1>4, Return DEF DispatchRefuses
  <1>5. CASE DispatchPrepares
    BY <1>0, <1>5, Turn DEF HandlerOK, Fits, DispatchPrepares
  <1>6. CASE GateRefuses
    BY <1>6, Return DEF GateRefuses
  <1>7. CASE ProviderSucceeds
    BY <1>0, <1>7, Turn DEF HandlerOK, Fits, ProviderSucceeds
  <1>8. CASE ProviderFails
    BY <1>8, Return DEF ProviderFails
  <1>9. CASE CommitRefused
    BY <1>9, Return DEF CommitRefused
  <1>10. CASE JoinHandler
    <2>1. worker.cancelled => W \in blocked
      BY <1>0 DEF WorkerOK
    <2> QED
      BY <1>0, <1>10, <2>1, Turn DEF HandlerOK, Fits, JoinHandler
  <1>11. CASE FinalizeFails
    BY <1>0, <1>11, Turn DEF HandlerOK, Fits, FinalizeFails
  <1>12. CASE JournalOpens
    BY <1>0, <1>12, Turn DEF HandlerOK, Fits, JournalOpens
  <1>13. CASE JournalRefuses
    BY <1>13, Return DEF JournalRefuses
  <1> QED
    BY <1>1, <1>2, <1>3, <1>4, <1>5, <1>6, <1>7, <1>8, <1>9, <1>10, <1>11, <1>12, <1>13

-----------------------------------------------------------------------------
(* The steps of a registered worker that write its session's run.            *)

\* What the other actor, and the other stores, allow the worker to write.
Writable(s, r) ==
    /\ r \in Run /\ r.exists
    /\ run[s].receipt => r.receipt
    /\ r.audio => run[s].audio
    /\ run[s].async = "pending" => r.async = "pending"
    /\ r.async \in {"none", "pending"} => ~r.receipt
    /\ r.async = "completed" =>
          /\ r.receipt /\ (s \in Private => ~r.audio)
          /\ run[s].async = "completed" \/ tasks[s].status = "completed"
    /\ r.projection # "none" => r.async = "completed"
    /\ Projecting(api.pc) /\ A = s => r.projection = "projecting"

LEMMA CountStays ==
    ASSUME AsyncInv, worker.pc \in Owned, WorkerFrame, QueueFrame, uploads' = uploads,
           NEW v \in Session, v = W, worker'.session = v, run'[v].exists,
           run[v].receipt => run'[v].receipt,
           worker.pc \in Uploading
              => worker'.pc \in Uploading \/ run'[v].receipt \/ v \in blocked
    PROVE  Counted(v)'
  <1>1. SessionOK(v)
    BY OwnedFacts
  <1>2. Spent(v) => Spent(v)'
    BY <1>1, OwnedFacts DEF SessionOK, Blocks, Spent, QueueFrame, queueVars, WorkerFrame,
                            Tombstone, W
  <1> QED
    BY <1>1, <1>2 DEF SessionOK, Counted, WorkerFrame

LEMMA OwnerWrites ==
    ASSUME AsyncInv, worker.pc \in Owned, WorkerFrame, QueueFrame,
           NEW v \in Session, v = W, NEW r, Writable(v, r), SetRun(v, r),
           doc' \subseteq Session, \A s \in Session : s # v => (s \in doc' <=> s \in doc),
           uploads' \in [Session -> Nat],
           \A s \in Session : s # v => uploads'[s] = uploads[s],
           worker' \in WorkerRow, worker'.session = v, worker'.registered,
           worker'.cancelled => worker.cancelled,
           worker'.pc \notin {"idle", "polled", "claimed"},
           Fits(worker'.pc, v, r, tasks[v].status, worker'.result),
           Projecting(worker'.pc) =>
              r.projection = "projecting" /\ ~(Projecting(api.pc) /\ A = v),
           Counted(v)'
    PROVE  AsyncInv'
  <1>1. /\ run' \in [Session -> Run] /\ run'[v] = r
        /\ \A s \in Session : s # v => run'[s] = run[s]
    BY DEF AsyncInv, Typed, SetRun, Writable
  <1>2. tasks' = tasks /\ Rows'
    BY DEF AsyncInv, Rows, QueueInv, QueueTypeOK, RetryBudget, RunningHasLease,
           OnlyAuthorizedRuns, Payloads, QueueFrame, queueVars
  <1>3. HandlerOK'
    BY <1>1, <1>2 DEF HandlerOK, W
  <1>4. ProjectingOK'
    <2>1. ProjectingOK /\ api' = api /\ (Projecting(api.pc) => A \in Session)
      BY DEF AsyncInv, ActorsOK, WorkerFrame, CallOK, Projecting, Calling
    <2>2. Projecting(api.pc) => run'[A].projection = "projecting"
      BY <1>1, <2>1 DEF Writable, ProjectingOK
    <2>3. Projecting(worker'.pc) => run'[v].projection = "projecting"
      BY <1>1
    <2> QED
      BY <2>1, <2>2, <2>3 DEF ProjectingOK, W, A
  <1>5. \A s \in Session : s # v => Untouched(s)
    BY <1>1, <1>2 DEF Untouched
  <1>6. SessionOK(v) /\ run[v].exists
    BY OwnedFacts
  <1>7. Kept(v)
    BY <1>1, <1>2, <1>6 DEF Kept, Writable
  <1>8. Agrees(v)'
    BY <1>1, <1>2, <1>6 DEF SessionOK, Agrees, Writable, WorkerFrame, Tombstone, Exists
  <1> QED
    BY <1>1, <1>2, <1>3, <1>4, <1>5, <1>7, <1>8, OwnerActs

\* What OwnerWrites needs of the moves of the worker's own record.
LEMMA OwnerGoes ==
    ASSUME AsyncInv, worker.pc \in Owned,
           NEW pc \in WorkerStep \ {"idle", "polled", "claimed"}, GoTo(pc)
    PROVE  /\ worker' \in WorkerRow /\ worker'.session = W /\ worker'.registered
           /\ worker'.cancelled => worker.cancelled
           /\ worker'.pc = pc /\ worker'.pc \notin {"idle", "polled", "claimed"}
           /\ worker'.result = worker.result
  BY GoesTo, OwnedFacts DEF AsyncInv, Typed

LEMMA OwnerReturns ==
    ASSUME AsyncInv, worker.pc \in Owned,
           NEW result \in {"ok", "charged", "preflight"}, HandlerReturns(result)
    PROVE  /\ worker' \in WorkerRow /\ worker'.session = W /\ worker'.registered
           /\ worker'.cancelled => worker.cancelled
           /\ worker'.pc = "joined" /\ worker'.pc \notin {"idle", "polled", "claimed"}
           /\ worker'.result = result
  BY Returns, OwnedFacts DEF AsyncInv, Typed

\* A write that leaves the document and the uploads alone.
LEMMA OwnerSets ==
    ASSUME AsyncInv, worker.pc \in Owned, WorkerFrame, QueueFrame, doc' = doc,
           uploads' = uploads,
           NEW v \in Session, v = W, NEW r, Writable(v, r), SetRun(v, r),
           worker' \in WorkerRow, worker'.session = v, worker'.registered,
           worker'.cancelled => worker.cancelled,
           worker'.pc \notin {"idle", "polled", "claimed"},
           Fits(worker'.pc, v, r, tasks[v].status, worker'.result),
           Projecting(worker'.pc) =>
              r.projection = "projecting" /\ ~(Projecting(api.pc) /\ A = v),
           worker.pc \in Uploading => worker'.pc \in Uploading \/ r.receipt \/ v \in blocked
    PROVE  AsyncInv'
  <1>1. run'[v] = r /\ r.exists /\ (run[v].receipt => r.receipt)
    BY DEF AsyncInv, Typed, SetRun, Writable
  <1>2. Counted(v)'
    BY <1>1, CountStays
  <1>3. /\ doc' \subseteq Session /\ uploads' \in [Session -> Nat]
        /\ \A s \in Session : s # v => (s \in doc' <=> s \in doc)
        /\ \A s \in Session : s # v => uploads'[s] = uploads[s]
    BY DEF AsyncInv, Typed
  <1> QED
    BY <1>2, <1>3, OwnerWrites

\* The run as it is may always be written back.
LEMMA SameIsWritable ==
    ASSUME AsyncInv, worker.pc \in Owned
    PROVE  /\ Writable(W, run[W]) /\ Agrees(W) /\ run[W] \in Run /\ W \in Session
           /\ Projecting(api.pc) /\ A = W => run[W].projection = "projecting"
  <1>1. /\ W \in Session /\ run[W] \in Run /\ run[W].exists /\ Agrees(W)
        /\ Projecting(api.pc) /\ A = W => run[W].projection = "projecting"
    BY OwnedFacts DEF SessionOK, AsyncInv, ActorsOK, ProjectingOK
  <1> QED
    BY <1>1 DEF Writable, Agrees

LEMMA VerifyPassesInv == AsyncInv /\ VerifyPasses => AsyncInv'
  <1> SUFFICES ASSUME AsyncInv, VerifyPasses PROVE AsyncInv'
    OBVIOUS
  <1>0. worker.pc \in Owned /\ worker.pc \notin Uploading /\ At("verify")
    BY DEF VerifyPasses, At, Owned, WorkerStep, Uploading
  <1>1. PICK v \in Session : v = W
    BY <1>0, OwnedFacts
  <1> DEFINE r == EnqueuedRun(run[v])
  <1>2. /\ run[v].async \in {"enqueued", "reserved"} /\ run[v] \in Run /\ Writable(v, run[v])
        /\ Projecting(api.pc) /\ A = v => run[v].projection = "projecting"
        /\ run[v].projection # "none" => run[v].async = "completed"
    BY <1>0, <1>1, SameIsWritable DEF VerifyPasses, Verified, Agrees
  <1>3. /\ r \in Run /\ r.async = "enqueued" /\ r.projection = run[v].projection
        /\ r.exists <=> run[v].exists
        /\ r.receipt <=> run[v].receipt
        /\ r.audio <=> run[v].audio
    BY <1>2 DEF EnqueuedRun, Run, AsyncState
  <1>4. SetRun(v, r)
    BY <1>1 DEF VerifyPasses
  <1> HIDE DEF r
  <1>5. Writable(v, r)
    BY <1>2, <1>3 DEF Writable
  <1>6. PICK pc \in {"check2", "preflight"} : GoTo(pc)
    BY DEF VerifyPasses
  <1>7. pc \in WorkerStep
    BY DEF WorkerStep
  <1>8. Fits(pc, v, r, tasks[v].status, worker.result)
    BY <1>0, <1>1, <1>3, <1>6 DEF AsyncInv, ActorsOK, HandlerOK, Fits, Handling, At
  <1>9. doc' = doc /\ uploads' = uploads /\ QueueFrame /\ WorkerFrame
    BY DEF VerifyPasses
  <1> QED
    BY <1>0, <1>1, <1>4, <1>5, <1>6, <1>7, <1>8, <1>9, OwnerGoes, OwnerSets DEF Projecting

\* The handler passes the provenance gate.
LEMMA GateOpensInv == AsyncInv /\ GateOpens => AsyncInv'
  <1> SUFFICES ASSUME AsyncInv, GateOpens PROVE AsyncInv'
    OBVIOUS
  <1>0. worker.pc \in Owned /\ worker.pc \notin Uploading /\ At("gate")
    BY DEF GateOpens, At, Owned, WorkerStep, Uploading
  <1>1. PICK v \in Session : v = W
    BY <1>0, OwnedFacts
  <1> DEFINE r == [run[v] EXCEPT !.provenance = TRUE]
  <1>2. run[v] \in Run /\ Writable(v, run[v]) /\ ~run[v].receipt /\ run[v].async = "enqueued"
        /\ tasks[v].status = "running"
    BY <1>0, <1>1, SameIsWritable DEF AsyncInv, ActorsOK, HandlerOK, Fits, Handling, At
  <1>3. /\ r \in Run /\ r.async = run[v].async /\ r.projection = run[v].projection
        /\ r.exists <=> run[v].exists
        /\ r.receipt <=> run[v].receipt
        /\ r.audio <=> run[v].audio
        /\ r.provenance
    BY <1>2 DEF Run
  <1>4. SetRun(v, r)
    BY <1>1 DEF GateOpens
  <1> HIDE DEF r
  <1>5. Writable(v, r)
    BY <1>2, <1>3 DEF Writable
  <1>6. Fits("journal", v, r, tasks[v].status, worker.result)
    BY <1>0, <1>1, <1>2, <1>3 DEF AsyncInv, ActorsOK, HandlerOK, Fits, At
  <1>7. doc' = doc /\ uploads' = uploads /\ QueueFrame /\ WorkerFrame /\ GoTo("journal")
    BY DEF GateOpens
  <1>8. /\ worker' \in WorkerRow /\ worker'.session = v /\ worker'.registered
        /\ worker'.cancelled => worker.cancelled
        /\ worker'.pc = "journal" /\ worker'.result = worker.result
    BY <1>0, <1>1, <1>7, OwnerGoes DEF WorkerStep
  <1> QED
    BY <1>0, <1>1, <1>4, <1>5, <1>6, <1>7, <1>8, OwnerSets DEF Projecting

\* A handler that has passed the gate has not uploaded in this life.
NotYetUploaded == \A s \in Session : Cleared(s) => uploads[s] <= crashes

\* The upload begins, and spends this life's one attempt.
LEMMA UploadBeginsInv == AsyncInv /\ NotYetUploaded /\ UploadBegins => AsyncInv'
  <1> SUFFICES ASSUME AsyncInv, NotYetUploaded, UploadBegins PROVE AsyncInv'
    OBVIOUS
  <1>0. worker.pc \in Owned /\ worker.pc \notin Uploading /\ At("upload")
    BY DEF UploadBegins, At, Owned, WorkerStep, Uploading
  <1>1. PICK v \in Session : v = W
    BY <1>0, OwnedFacts
  <1>2. /\ run[v] \in Run /\ Writable(v, run[v]) /\ ~run[v].receipt
        /\ tasks[v].status = "running"
    BY <1>0, <1>1, SameIsWritable DEF AsyncInv, ActorsOK, HandlerOK, Fits, Handling, At
  <1>3. SetRun(v, run[v])
    BY DEF UploadBegins, AsyncInv, Typed, SetRun
  <1>4. Fits("provider", v, run[v], tasks[v].status, worker.result)
    BY <1>0, <1>1, <1>2 DEF AsyncInv, ActorsOK, HandlerOK, Fits, At
  <1>5. doc' = doc /\ QueueFrame /\ WorkerFrame /\ GoTo("provider")
        /\ uploads' = [uploads EXCEPT ![v] = @ + 1]
    BY <1>1 DEF UploadBegins
  <1>6. /\ worker' \in WorkerRow /\ worker'.session = v /\ worker'.registered
        /\ worker'.cancelled => worker.cancelled
        /\ worker'.pc = "provider" /\ worker'.result = worker.result
    BY <1>0, <1>1, <1>5, OwnerGoes DEF WorkerStep
  <1>7. uploads' \in [Session -> Nat] /\ uploads'[v] = uploads[v] + 1
        /\ \A s \in Session : s # v => uploads'[s] = uploads[s]
    BY <1>5 DEF AsyncInv, Typed
  <1>8. Counted(v)'
    <2>1. uploads[v] <= crashes /\ uploads[v] \in Nat /\ crashes \in Nat
      BY <1>0, <1>1, AsyncAssumption DEF NotYetUploaded, Cleared, At, AsyncInv, Typed
    <2>2. Spent(v)'
      BY <1>2, <1>5, <1>6 DEF Spent, Uploading, QueueFrame, queueVars, W
    <2> QED
      BY <1>5, <1>7, <2>1, <2>2 DEF Counted, WorkerFrame
  <1>9. doc' \subseteq Session /\ \A s \in Session : s # v => (s \in doc' <=> s \in doc)
    BY <1>5 DEF AsyncInv, Typed
  <1> QED
    BY <1>0, <1>1, <1>2, <1>3, <1>4, <1>5, <1>6, <1>7, <1>8, <1>9, OwnerWrites
       DEF Projecting

LEMMA CommitReceiptInv == AsyncInv /\ CommitReceipt => AsyncInv'
  <1> SUFFICES ASSUME AsyncInv, CommitReceipt PROVE AsyncInv'
    OBVIOUS
  <1>0. worker.pc \in Owned /\ At("commit")
    BY DEF CommitReceipt, At, Owned, WorkerStep
  <1>1. PICK v \in Session : v = W
    BY <1>0, OwnedFacts
  <1> DEFINE r == CommittedRun(run[v])
  <1>2. /\ run[v] \in Run /\ Writable(v, run[v]) /\ run[v].async = "enqueued"
        /\ Projecting(api.pc) /\ A = v => run[v].projection = "projecting"
    BY <1>0, <1>1, SameIsWritable DEF CommitReceipt, CanCommit
  <1>3. /\ r \in Run /\ r.async = run[v].async /\ r.projection = run[v].projection
        /\ r.exists <=> run[v].exists
        /\ r.receipt
        /\ r.audio <=> run[v].audio
    BY <1>2 DEF CommittedRun, Run
  <1>4. SetRun(v, r)
    BY <1>1 DEF CommitReceipt
  <1> HIDE DEF r
  <1>5. Writable(v, r)
    BY <1>2, <1>3 DEF Writable
  <1>6. Fits("fts", v, r, tasks[v].status, worker.result)
    BY <1>3 DEF Fits
  <1>7. doc' = doc /\ uploads' = uploads /\ QueueFrame /\ WorkerFrame /\ GoTo("fts")
    BY DEF CommitReceipt
  <1> QED
    BY <1>0, <1>1, <1>3, <1>4, <1>5, <1>6, <1>7, OwnerGoes, OwnerSets
       DEF Projecting, WorkerStep

\* The search index is written from a receipt that stays as it is.
LEMMA Indexes ==
    ASSUME NEW s \in Session, run[s] \in Run, ProjectSearch(s), run \in [Session -> Run]
    PROVE  \E r \in Run : /\ SetRun(s, r)
                          /\ r.async = run[s].async /\ r.projection = run[s].projection
                          /\ r.exists <=> run[s].exists
                          /\ r.receipt <=> run[s].receipt
                          /\ r.audio <=> run[s].audio
                          /\ r.provenance <=> run[s].provenance
  <1>1. CASE ~(run[s].receipt /\ ~Tombstone(s))
    BY <1>1 DEF ProjectSearch, SetRun
  <1>2. CASE run[s].receipt /\ ~Tombstone(s)
    <2>1. PICK state \in {"ready", "failed"} : SetRun(s, [run[s] EXCEPT !.search = state])
      BY <1>2 DEF ProjectSearch, IndexReady, IndexFails
    <2> DEFINE r == [run[s] EXCEPT !.search = state]
    <2>2. /\ r \in Run /\ r.async = run[s].async /\ r.projection = run[s].projection
          /\ r.exists <=> run[s].exists
          /\ r.receipt <=> run[s].receipt
          /\ r.audio <=> run[s].audio
          /\ r.provenance <=> run[s].provenance
      BY DEF Run
    <2>3. SetRun(s, r)
      BY <2>1
    <2> HIDE DEF r
    <2> QED
      BY <2>2, <2>3
  <1> QED
    BY <1>1, <1>2

LEMMA IndexingInv == AsyncInv /\ (HandlerIndexes \/ RecoveryIndexes) => AsyncInv'
  <1> SUFFICES ASSUME AsyncInv, HandlerIndexes \/ RecoveryIndexes PROVE AsyncInv'
    OBVIOUS
  <1>0. /\ worker.pc \in Owned /\ worker.pc \notin Uploading
        /\ HandlerIndexes => At("fts")
    BY DEF HandlerIndexes, RecoveryIndexes, At, Owned, WorkerStep, Uploading
  <1>1. PICK v \in Session : v = W
    BY <1>0, OwnedFacts
  <1>2. /\ run[v] \in Run /\ Writable(v, run[v]) /\ run \in [Session -> Run]
        /\ Projecting(api.pc) /\ A = v => run[v].projection = "projecting"
    BY <1>0, <1>1, SameIsWritable DEF AsyncInv, Typed
  <1>3. ProjectSearch(v)
    BY <1>1 DEF HandlerIndexes, RecoveryIndexes
  <1>4. PICK r \in Run : /\ SetRun(v, r)
                         /\ r.async = run[v].async /\ r.projection = run[v].projection
                         /\ r.exists <=> run[v].exists
                         /\ r.receipt <=> run[v].receipt
                         /\ r.audio <=> run[v].audio
                         /\ r.provenance <=> run[v].provenance
    BY <1>2, <1>3, Indexes
  <1>5. Writable(v, r)
    BY <1>2, <1>4 DEF Writable
  <1>6. doc' = doc /\ uploads' = uploads /\ QueueFrame /\ WorkerFrame
    BY DEF HandlerIndexes, RecoveryIndexes
  <1>7. HandlerOK
    BY DEF AsyncInv, ActorsOK
  <1>8. CASE HandlerIndexes
    <2>1. HandlerReturns("ok") /\ r.receipt
      BY <1>0, <1>1, <1>4, <1>7, <1>8 DEF HandlerIndexes, HandlerOK, Fits, At
    <2>2. Fits("joined", v, r, tasks[v].status, "ok")
      BY <2>1 DEF Fits
    <2>3. /\ worker' \in WorkerRow /\ worker'.session = v /\ worker'.registered
          /\ worker'.cancelled => worker.cancelled
          /\ worker'.pc = "joined" /\ worker'.result = "ok"
      BY <1>0, <1>1, <2>1, OwnerReturns
    <2> QED
      BY <1>0, <1>1, <1>4, <1>5, <1>6, <2>2, <2>3, OwnerSets DEF Projecting
  <1>9. CASE RecoveryIndexes
    <2>1. Fits("r_check3", v, r, tasks[v].status, worker.result)
      BY <1>1, <1>4, <1>7 DEF HandlerOK, Fits, Handling
    <2>2. GoTo("r_check3")
      BY <1>9 DEF RecoveryIndexes
    <2> QED
      BY <1>0, <1>1, <1>4, <1>5, <1>6, <2>1, <2>2, OwnerGoes, OwnerSets
         DEF Projecting, WorkerStep
  <1> QED
    BY <1>8, <1>9

LEMMA Cleans ==
    ASSUME NEW s \in Session, run[s] \in Run
    PROVE  /\ CleanedRun(s) \in Run
           /\ CleanedRun(s).async = run[s].async
           /\ CleanedRun(s).projection = run[s].projection
           /\ CleanedRun(s).exists <=> run[s].exists
           /\ CleanedRun(s).receipt <=> run[s].receipt
           /\ CleanedRun(s).provenance <=> run[s].provenance
           /\ CleanedRun(s).audio => run[s].audio
           /\ s \in Private => ~CleanedRun(s).audio
  <1> DEFINE r == [run[s] EXCEPT !.audio = FALSE]
  <1>1. /\ r \in Run /\ r.async = run[s].async /\ r.projection = run[s].projection
        /\ r.exists <=> run[s].exists
        /\ r.receipt <=> run[s].receipt
        /\ r.provenance <=> run[s].provenance
        /\ ~r.audio
    BY DEF Run
  <1>2. CleanedRun(s) = IF s \in Private THEN r ELSE run[s]
    BY DEF CleanedRun
  <1> HIDE DEF r
  <1>3. CASE s \in Private
    BY <1>1, <1>2, <1>3
  <1>4. CASE s \notin Private
    BY <1>2, <1>4
  <1> QED
    BY <1>3, <1>4

\* Privacy cleanup comes before completion.
LEMMA FinalizeCleansInv == AsyncInv /\ FinalizeCleans => AsyncInv'
  <1> SUFFICES ASSUME AsyncInv, FinalizeCleans PROVE AsyncInv'
    OBVIOUS
  <1>0. worker.pc \in Owned /\ worker.pc \notin Uploading /\ At("finalize")
    BY DEF FinalizeCleans, At, Owned, WorkerStep, Uploading
  <1>1. PICK v \in Session : v = W
    BY <1>0, OwnedFacts
  <1>2. /\ run[v] \in Run /\ Writable(v, run[v]) /\ run[v].receipt
        /\ Projecting(api.pc) /\ A = v => run[v].projection = "projecting"
    BY <1>0, <1>1, SameIsWritable DEF AsyncInv, ActorsOK, HandlerOK, Fits, At
  <1> DEFINE q == CleanedRun(v)
  <1>3. /\ q \in Run /\ q.async = run[v].async /\ q.projection = run[v].projection
        /\ q.exists <=> run[v].exists
        /\ q.receipt <=> run[v].receipt
        /\ q.audio => run[v].audio
        /\ v \in Private => ~q.audio
    BY <1>2, Cleans
  <1>4. SetRun(v, q)
    BY <1>1 DEF FinalizeCleans
  <1> HIDE DEF q
  <1>5. Writable(v, q)
    BY <1>2, <1>3 DEF Writable
  <1>6. Fits("complete", v, q, tasks[v].status, worker.result)
    BY <1>2, <1>3 DEF Fits, Handling
  <1>7. doc' = doc /\ uploads' = uploads /\ QueueFrame /\ WorkerFrame /\ GoTo("complete")
    BY DEF FinalizeCleans
  <1> QED
    BY <1>0, <1>1, <1>4, <1>5, <1>6, <1>7, OwnerGoes, OwnerSets DEF Projecting, WorkerStep

\* Closing a run changes its state, and asks for the projection of a success.
LEMMA ClosesRun ==
    ASSUME NEW s \in Session, run[s] \in Run, NEW success \in BOOLEAN, CanClose(s, success)
    PROVE  /\ ClosedRun(run[s], success) \in Run
           /\ ClosedRun(run[s], success).async = IF success THEN "completed" ELSE "failed"
           /\ ClosedRun(run[s], success).projection
                 = IF success /\ run[s].async # "completed" THEN "pending"
                   ELSE run[s].projection
           /\ ClosedRun(run[s], success).exists <=> run[s].exists
           /\ ClosedRun(run[s], success).receipt <=> run[s].receipt
           /\ ClosedRun(run[s], success).provenance <=> run[s].provenance
           /\ ClosedRun(run[s], success).audio <=> run[s].audio
           /\ run[s].exists /\ ~Tombstone(s)
           /\ run[s].async \in {"completed", "failed", "enqueued", "reserved"}
           /\ run[s].async = "completed" => success
  <1> DEFINE r == [run[s] EXCEPT !.async = IF success THEN "completed" ELSE "failed",
                                 !.projection = IF success THEN "pending" ELSE @]
  <1>1. /\ r \in Run /\ r.async = IF success THEN "completed" ELSE "failed"
        /\ r.projection = IF success THEN "pending" ELSE run[s].projection
        /\ r.exists <=> run[s].exists
        /\ r.receipt <=> run[s].receipt
        /\ r.provenance <=> run[s].provenance
        /\ r.audio <=> run[s].audio
    BY DEF Run, AsyncState
  <1>2. ClosedRun(run[s], success)
           = IF run[s].async = (IF success THEN "completed" ELSE "failed") THEN run[s] ELSE r
    BY DEF ClosedRun, Desired
  <1>3. /\ run[s].exists /\ ~Tombstone(s)
        /\ run[s].async \in {"completed", "failed", "enqueued", "reserved"}
        /\ run[s].async = "completed" => success
        /\ run[s].async = "failed" => ~success
    BY DEF CanClose, Desired
  <1> HIDE DEF r
  <1>4. CASE run[s].async = (IF success THEN "completed" ELSE "failed")
    BY <1>2, <1>3, <1>4
  <1>5. CASE run[s].async # (IF success THEN "completed" ELSE "failed")
    BY <1>1, <1>2, <1>3, <1>5
  <1> QED
    BY <1>4, <1>5

\* A worker's close, of a session whose row says the same.
LEMMA WorkerCloses ==
    ASSUME AsyncInv, worker.pc \in Owned, NEW success \in BOOLEAN, CanClose(W, success),
           success => tasks[W].status = "completed"
    PROVE  Writable(W, ClosedRun(run[W], success))
  <1>1. PICK v \in Session : v = W
    BY OwnedFacts
  <1> DEFINE r == ClosedRun(run[v], success)
  <1>2. /\ run[v] \in Run /\ Agrees(v)
        /\ Projecting(api.pc) /\ A = v => run[v].projection = "projecting"
    BY <1>1, SameIsWritable
  <1>3. /\ r \in Run
        /\ r.async = IF success THEN "completed" ELSE "failed"
        /\ r.projection = IF success /\ run[v].async # "completed" THEN "pending"
                          ELSE run[v].projection
        /\ r.exists <=> run[v].exists
        /\ r.receipt <=> run[v].receipt
        /\ r.audio <=> run[v].audio
        /\ run[v].exists
        /\ run[v].async \in {"completed", "failed", "enqueued", "reserved"}
        /\ run[v].async = "completed" => success
    BY <1>1, <1>2, ClosesRun
  <1> HIDE DEF r
  <1>4. ASSUME success PROVE Writable(v, r)
    <2>1. /\ r.async = "completed" /\ run[v].receipt /\ (v \in Private => ~run[v].audio)
          /\ tasks[v].status = "completed"
          /\ run[v].async # "pending"
          /\ run[v].async = "completed" => r.projection = run[v].projection
      BY <1>1, <1>2, <1>3, <1>4 DEF Agrees
    <2>2. Projecting(api.pc) /\ A = v => r.projection = "projecting"
      BY <1>2, <2>1 DEF Agrees
    <2> QED
      BY <1>3, <2>1, <2>2 DEF Writable
  <1>5. ASSUME ~success PROVE Writable(v, r)
    <2>1. /\ r.async = "failed" /\ run[v].async \in {"failed", "enqueued", "reserved"}
          /\ r.projection = "none" /\ run[v].projection = "none"
      BY <1>2, <1>3, <1>5 DEF Agrees
    <2> QED
      BY <1>2, <1>3, <2>1 DEF Writable
  <1> QED
    BY <1>1, <1>4, <1>5 DEF r

LEMMA ClosingInv == AsyncInv /\ (CloseRun \/ RecoveryCloses) => AsyncInv'
  <1> SUFFICES ASSUME AsyncInv, CloseRun \/ RecoveryCloses PROVE AsyncInv'
    OBVIOUS
  <1>0. worker.pc \in Owned /\ worker.pc \notin Uploading
    BY DEF CloseRun, RecoveryCloses, At, Owned, WorkerStep, Uploading
  <1>1. PICK v \in Session : v = W
    BY <1>0, OwnedFacts
  <1>2. doc' = doc /\ uploads' = uploads /\ QueueFrame /\ WorkerFrame
    BY DEF CloseRun, RecoveryCloses
  <1>3. HandlerOK
    BY DEF AsyncInv, ActorsOK
  <1>4. \/ run' = run /\ GoTo("drop")
        \/ \E success \in BOOLEAN, pc \in {"drop", "check4", "r_check2"} :
              /\ CanClose(v, success) /\ (success => tasks[v].status = "completed")
              /\ SetRun(v, ClosedRun(run[v], success)) /\ GoTo(pc)
    <2>1. CASE RecoveryCloses
      BY <1>1, <2>1 DEF RecoveryCloses
    <2>2. CASE CloseRun
      <3>1. CASE tasks[v].status = "failed"
        BY <1>1, <2>2, <3>1 DEF CloseRun
      <3>2. CASE tasks[v].status # "failed"
        BY <1>1, <2>2, <3>2 DEF CloseRun, QueueTerminal
      <3> QED
        BY <3>1, <3>2
    <2> QED
      BY <2>1, <2>2
  <1>5. CASE run' = run /\ GoTo("drop")
    <2>1. Fits("drop", W, run[W], tasks[W].status, worker.result)
      BY <1>3 DEF HandlerOK, Fits, Handling
    <2> QED
      BY <1>0, <1>2, <1>5, <2>1, Turn DEF WorkerStep
  <1>6. ASSUME NEW success \in BOOLEAN, NEW pc \in {"drop", "check4", "r_check2"},
               CanClose(v, success), success => tasks[v].status = "completed",
               SetRun(v, ClosedRun(run[v], success)), GoTo(pc)
        PROVE  AsyncInv'
    <2> DEFINE r == ClosedRun(run[v], success)
    <2>1. Writable(v, r) /\ SetRun(v, r)
      BY <1>0, <1>1, <1>6, WorkerCloses
    <2>2. r.receipt <=> run[v].receipt
      BY <1>0, <1>1, <1>6, SameIsWritable, ClosesRun
    <2> HIDE DEF r
    <2>3. Fits(pc, v, r, tasks[v].status, worker.result)
      BY <1>1, <1>3, <2>2 DEF HandlerOK, Fits, Handling
    <2>4. pc \in WorkerStep \ {"idle", "polled", "claimed"} /\ ~Projecting(pc)
      BY DEF WorkerStep, Projecting
    <2> QED
      BY <1>0, <1>1, <1>2, <1>6, <2>1, <2>3, <2>4, OwnerGoes, OwnerSets
  <1> QED
    BY <1>4, <1>5, <1>6

ProjectionState == {"none", "pending", "projecting", "ready", "failed"}

LEMMA Reprojects ==
    ASSUME NEW s \in Session, run[s] \in Run, NEW state \in ProjectionState
    PROVE  \E r \in Run : /\ r = [run[s] EXCEPT !.projection = state]
                          /\ r.async = run[s].async /\ r.projection = state
                          /\ r.exists <=> run[s].exists
                          /\ r.receipt <=> run[s].receipt
                          /\ r.provenance <=> run[s].provenance
                          /\ r.audio <=> run[s].audio
  <1> DEFINE r == [run[s] EXCEPT !.projection = state]
  <1>1. /\ r \in Run /\ r.async = run[s].async /\ r.projection = state
        /\ r.exists <=> run[s].exists
        /\ r.receipt <=> run[s].receipt
        /\ r.provenance <=> run[s].provenance
        /\ r.audio <=> run[s].audio
    BY DEF Run, ProjectionState
  <1> QED
    BY <1>1

\* A worker that may project a session is the only one to write its projection.
LEMMA WorkerReprojects ==
    ASSUME AsyncInv, worker.pc \in Owned, worker.pc \notin Uploading, WorkerFrame, QueueFrame,
           uploads' = uploads,
           NEW v \in Session, v = W, NEW state \in ProjectionState,
           run[v].async = "completed", ~(Projecting(api.pc) /\ A = v),
           SetRun(v, [run[v] EXCEPT !.projection = state]),
           doc' = doc \/ doc' = doc \cup {v},
           NEW pc \in {"drop", "write", "publish"}, GoTo(pc),
           Projecting(pc) => state = "projecting"
    PROVE  AsyncInv'
  <1>1. run[v] \in Run /\ Writable(v, run[v]) /\ HandlerOK
    BY SameIsWritable DEF AsyncInv, ActorsOK
  <1>2. PICK r \in Run : /\ r = [run[v] EXCEPT !.projection = state]
                         /\ r.async = run[v].async /\ r.projection = state
                         /\ r.exists <=> run[v].exists
                         /\ r.receipt <=> run[v].receipt
                         /\ r.provenance <=> run[v].provenance
                         /\ r.audio <=> run[v].audio
    BY <1>1, Reprojects
  <1>3. SetRun(v, r) /\ Writable(v, r)
    BY <1>1, <1>2 DEF Writable
  <1>4. Fits(pc, v, r, tasks[v].status, worker.result)
    BY <1>1, <1>2 DEF HandlerOK, Fits, Handling
  <1>5. /\ worker' \in WorkerRow /\ worker'.session = v /\ worker'.registered
        /\ worker'.cancelled => worker.cancelled
        /\ worker'.pc = pc /\ worker'.pc \notin {"idle", "polled", "claimed"}
        /\ worker'.result = worker.result
    BY OwnerGoes DEF WorkerStep
  <1>6. /\ doc' \subseteq Session /\ \A s \in Session : s # v => (s \in doc' <=> s \in doc)
        /\ uploads' \in [Session -> Nat]
        /\ \A s \in Session : s # v => uploads'[s] = uploads[s]
    BY DEF AsyncInv, Typed
  <1>7. Counted(v)'
    <2>1. run'[v] = r /\ r.exists
      BY <1>3 DEF AsyncInv, Typed, SetRun, Writable
    <2> QED
      BY <1>2, <1>5, <2>1, CountStays
  <1> QED
    BY <1>2, <1>3, <1>4, <1>5, <1>6, <1>7, OwnerWrites

LEMMA WorkerProjectionInv ==
    AsyncInv /\ (WorkerProjects \/ WorkerWrites \/ WorkerPublishes) => AsyncInv'
  <1> SUFFICES ASSUME AsyncInv, WorkerProjects \/ WorkerWrites \/ WorkerPublishes
               PROVE  AsyncInv'
    OBVIOUS
  <1>0. worker.pc \in Owned /\ worker.pc \notin Uploading
    BY DEF WorkerProjects, WorkerWrites, WorkerPublishes, At, Owned, WorkerStep, Uploading
  <1>1. PICK v \in Session : v = W
    BY <1>0, OwnedFacts
  <1>2. uploads' = uploads /\ QueueFrame /\ WorkerFrame
    BY DEF WorkerProjects, WorkerWrites, WorkerPublishes
  <1>3. /\ run[v] \in Run /\ run \in [Session -> Run] /\ HandlerOK /\ Agrees(v) /\ ProjectingOK
        /\ Projecting(api.pc) /\ A = v => run[v].projection = "projecting"
    BY <1>0, <1>1, SameIsWritable DEF AsyncInv, ActorsOK, Typed
  <1>4. CASE WorkerProjects /\ ~CanProject(v)
    <2>1. Fits("drop", W, run[W], tasks[W].status, worker.result)
      BY <1>3 DEF HandlerOK, Fits, Handling
    <2>2. run' = run /\ GoTo("drop") /\ doc' = doc
      BY <1>1, <1>4 DEF WorkerProjects
    <2> QED
      BY <1>0, <1>2, <2>1, <2>2, Turn DEF WorkerStep
  <1>5. CASE WorkerProjects /\ CanProject(v)
    <2>1. /\ SetRun(v, [run[v] EXCEPT !.projection = "projecting"])
          /\ GoTo("write") /\ doc' = doc
          /\ run[v].async = "completed" /\ run[v].projection = "pending"
      BY <1>1, <1>5 DEF WorkerProjects, CanProject, BeginProjection
    <2> QED
      BY <1>0, <1>1, <1>2, <1>3, <2>1, WorkerReprojects DEF ProjectionState, Projecting
  <1>6. CASE WorkerWrites \/ WorkerPublishes
    <2>1. /\ run[v].projection = "projecting" /\ run[v].async = "completed"
          /\ ~(Projecting(api.pc) /\ A = v)
      BY <1>1, <1>3, <1>6 DEF WorkerWrites, WorkerPublishes, At, ProjectingOK, Projecting, Agrees
    <2>2. CASE WorkerPublishes
      <3>1. /\ SetRun(v, [run[v] EXCEPT !.projection = IF Tombstone(v) THEN "failed" ELSE "ready"])
            /\ GoTo("drop") /\ doc' = doc
        BY <1>1, <2>2 DEF WorkerPublishes, PublishProjection
      <3> QED
        BY <1>0, <1>1, <1>2, <2>1, <3>1, WorkerReprojects DEF ProjectionState, Projecting
    <2>3. CASE WorkerWrites /\ DocumentFails(v) /\ GoTo("drop")
      BY <1>0, <1>1, <1>2, <2>1, <2>3, WorkerReprojects
         DEF ProjectionState, Projecting, DocumentFails
    <2>4. CASE WorkerWrites /\ DocumentWritten(v) /\ GoTo("publish")
      <3>1. run[v] = [run[v] EXCEPT !.projection = "projecting"]
        BY <1>3, <2>1 DEF Run
      <3>2. run' = [run EXCEPT ![v] = run[v]]
        BY <1>3, <2>4 DEF DocumentWritten
      <3>3. SetRun(v, [run[v] EXCEPT !.projection = "projecting"]) /\ doc' = doc \cup {v}
        BY <2>4, <3>1, <3>2 DEF SetRun, DocumentWritten
      <3> QED
        BY <1>0, <1>1, <1>2, <2>1, <2>4, <3>3, WorkerReprojects DEF ProjectionState, Projecting
    <2> QED
      BY <1>1, <1>6, <2>2, <2>3, <2>4 DEF WorkerWrites
  <1> QED
    BY <1>4, <1>5, <1>6

-----------------------------------------------------------------------------
(* The steps of a registered worker that write its session's row.            *)

LEMMA OwnerRows ==
    ASSUME AsyncInv, worker.pc \in Owned, WorkerFrame, UNCHANGED <<run, doc, uploads>>,
           NEW v \in Session, v = W, NEW st \in {"completed", "failed", "absent"},
           Rows', Sets(v, st),
           NEW pc \in {"drop", "close"}, GoTo(pc),
           tasks[v].status = "running" \/ (Tombstone(v) /\ st = "absent"),
           st = "completed" => run[v].receipt /\ (v \in Private => ~run[v].audio),
           worker.pc \in Uploading => st = "failed" \/ Tombstone(v)
    PROVE  AsyncInv'
  <1>1. /\ worker' \in WorkerRow /\ worker'.session = v /\ worker'.registered
        /\ worker'.cancelled => worker.cancelled
        /\ worker'.pc = pc /\ worker'.pc \notin {"idle", "polled", "claimed"}
        /\ worker'.result = worker.result
    BY OwnerGoes DEF WorkerStep
  <1>2. /\ run' = run /\ doc' = doc /\ uploads' = uploads /\ purge' = purge
        /\ crashes' = crashes /\ api' = api /\ blocked' = blocked
    BY DEF WorkerFrame
  <1>3. /\ \A s \in Session : s # v => tasks'[s] = tasks[s]
        /\ tasks'[v].status = st /\ tasks'[v].max_retries = tasks[v].max_retries
    BY DEF Sets
  <1>4. HandlerOK'
    <2>1. worker.result = "ok" => run[v].receipt
      BY DEF AsyncInv, ActorsOK, HandlerOK, Fits
    <2>2. Fits(pc, v, run[v], st, worker.result)
      BY <2>1 DEF Fits, Handling
    <2> QED
      BY <1>1, <1>2, <1>3, <2>2 DEF HandlerOK, W
  <1>5. ProjectingOK'
    BY <1>1, <1>2 DEF AsyncInv, ActorsOK, ProjectingOK, Projecting, A, W
  <1>6. \A s \in Session : s # v => Untouched(s)
    BY <1>2, <1>3 DEF Untouched
  <1>7. SessionOK(v) /\ run[v].exists
    BY OwnedFacts
  <1>8. Kept(v)
    BY <1>2, <1>3 DEF Kept
  <1>9. Agrees(v)'
    BY <1>2, <1>3, <1>7 DEF SessionOK, Agrees, Tombstone, Exists
  <1>10. Spent(v) => Spent(v)'
    BY <1>2, <1>3, <1>7 DEF Spent, Tombstone
  <1>11. Counted(v)'
    BY <1>2, <1>7, <1>10 DEF SessionOK, Counted
  <1>12. /\ run' \in [Session -> Run] /\ doc' \subseteq Session
         /\ uploads' \in [Session -> Nat]
    BY <1>2 DEF AsyncInv, Typed
  <1> QED
    BY <1>1, <1>4, <1>5, <1>6, <1>8, <1>9, <1>11, <1>12, OwnerActs

LEMMA OwnerDrops ==
    ASSUME AsyncInv, worker.pc \in Owned, WorkerFrame, QueueFrame,
           UNCHANGED <<run, doc, uploads>>, NEW pc \in {"drop", "close"}, GoTo(pc),
           worker.pc \in Uploading => run[W].receipt \/ W \in blocked
    PROVE  AsyncInv'
  <1>1. Fits(pc, W, run[W], tasks[W].status, worker.result)
    BY DEF AsyncInv, ActorsOK, HandlerOK, Fits, Handling
  <1> QED
    BY <1>1, Turn DEF WorkerStep

LEMMA OwnerQueueInv ==
    AsyncInv /\ (PreflightFails \/ CompleteRow \/ HandlerFailed) => AsyncInv'
  <1> SUFFICES ASSUME AsyncInv, PreflightFails \/ CompleteRow \/ HandlerFailed
               PROVE  AsyncInv'
    OBVIOUS
  <1>0. /\ worker.pc \in Owned
        /\ worker.pc \in Uploading => HandlerFailed
    BY DEF PreflightFails, CompleteRow, HandlerFailed, At, Owned, WorkerStep, Uploading
  <1>1. PICK v \in Session : v = W
    BY <1>0, OwnedFacts
  <1>2. /\ UNCHANGED <<run, doc, uploads>> /\ WorkerFrame /\ Rows
        /\ HandlerOK /\ Agrees(v) /\ tasks[v] \in Row
    BY <1>0, <1>1, OwnedFacts, SameIsWritable
       DEF PreflightFails, CompleteRow, HandlerFailed, AsyncInv, ActorsOK
  <1>3. CASE tasks[v].status # "running" \/ (HandlerFailed /\ run[v].receipt)
    <2>1. /\ QueueFrame
          /\ \E pc \in {"drop", "close"} : GoTo(pc)
          /\ ~(HandlerFailed /\ ~run[v].receipt)
      BY <1>1, <1>2, <1>3
         DEF PreflightFails, CompleteRow, HandlerFailed, HandlerOK, Fits, Handling, At
    <2> QED
      BY <1>0, <1>1, <1>2, <2>1, OwnerDrops
  <1>4. CASE tasks[v].status = "running" /\ PreflightFails
    <2>1. FailLocalPreflight(v) /\ GoTo("close") /\ worker.pc \notin Uploading
      BY <1>1, <1>4 DEF PreflightFails, At, Uploading
    <2>2. Rows' /\ Sets(v, "failed")
      BY <1>2, <2>1, Closes
    <2> QED
      BY <1>0, <1>1, <1>2, <1>4, <2>1, <2>2, OwnerRows
  <1>5. CASE tasks[v].status = "running" /\ CompleteRow
    <2>1. /\ Complete(v) /\ GoTo("close") /\ worker.pc \notin Uploading
          /\ run[v].receipt /\ (v \in Private => ~run[v].audio)
      BY <1>1, <1>2, <1>5 DEF CompleteRow, At, Uploading, HandlerOK, Fits
    <2>2. Rows' /\ Sets(v, "completed")
      BY <1>2, <2>1, Closes
    <2> QED
      BY <1>0, <1>1, <1>2, <1>5, <2>1, <2>2, OwnerRows
  <1>6. CASE tasks[v].status = "running" /\ HandlerFailed /\ ~run[v].receipt
    <2>1. (FailLocalPreflight(v) \/ Fail(v)) /\ GoTo("close")
      BY <1>1, <1>6 DEF HandlerFailed
    <2>2. tasks[v].max_retries = 1
      BY <1>2, <1>6 DEF Agrees, Exists
    <2>3. Rows' /\ Sets(v, "failed")
      BY <1>2, <2>1, <2>2, Closes, Fails
    <2> QED
      BY <1>0, <1>1, <1>2, <1>6, <2>1, <2>3, OwnerRows
  <1> QED
    BY <1>3, <1>4, <1>5, <1>6

LEMMA CheckStopsInv == AsyncInv /\ CheckStops => AsyncInv'
  <1> SUFFICES ASSUME AsyncInv, CheckStops PROVE AsyncInv'
    OBVIOUS
  <1>0. worker.pc \in Owned /\ GoTo("drop")
    BY DEF CheckStops, ChecksCancel, Owned, WorkerStep
  <1>1. PICK v \in Session : v = W
    BY <1>0, OwnedFacts
  <1>2. /\ UNCHANGED <<run, doc, uploads>> /\ WorkerFrame /\ Rows /\ HandlerOK /\ WorkerOK
        /\ Blocks(v)
    BY <1>0, <1>1, OwnedFacts DEF CheckStops, AsyncInv, ActorsOK, SessionOK
  <1>3. CASE PurgeSession(v) /\ Tombstone(v)
    <2>1. Rows' /\ Sets(v, "absent")
      BY <1>2, <1>3, Purges
    <2> QED
      BY <1>0, <1>1, <1>2, <1>3, <2>1, OwnerRows
  <1>4. CASE ~(PurgeSession(v) /\ Tombstone(v))
    <2>1. QueueFrame
      BY <1>1, <1>4 DEF CheckStops
    <2>2. worker.pc \in Uploading => run[W].receipt \/ W \in blocked
      <3>1. worker.cancelled => W \in blocked
        BY <1>2 DEF WorkerOK
      <3>2. ~worker.cancelled => ~MayContinue(v) /\ (Tombstone(v) => ~Exists(v))
        BY <1>1, <1>4 DEF CheckStops
      <3>3. ~worker.cancelled => ~Exists(v)
        BY <3>2 DEF MayContinue
      <3>4. worker.pc \in Uploading /\ ~run[v].receipt => Exists(v)
        BY <1>1, <1>2 DEF HandlerOK, Fits, Handling, Uploading, Exists
      <3> QED
        BY <1>1, <3>1, <3>3, <3>4
    <2> QED
      BY <1>0, <1>2, <2>1, <2>2, OwnerDrops
  <1> QED
    BY <1>3, <1>4

-----------------------------------------------------------------------------
(* The worker before it is registered, and after it is done.                 *)

\* A claim or its release moves a live row, and a blocked session's row may go.
Released(v) ==
    /\ tasks'[v].max_retries = tasks[v].max_retries
    /\ \/ tasks'[v].status = tasks[v].status
       \/ {tasks[v].status, tasks'[v].status} \subseteq {"pending", "running"}
       \/ tasks'[v].status = "absent" /\ v \in blocked
    /\ Holds(v)' => Holds(v) \/ (v \notin blocked /\ run[v].exists)

LEMMA StrangerActs ==
    ASSUME AsyncInv, worker.pc \notin Owned, WorkerFrame, boot.phase = "running",
           UNCHANGED <<run, doc, uploads>>, Rows', worker' \in WorkerRow,
           WorkerOK', HandlerOK', ~Projecting(worker'.pc),
           NEW v \in Session \cup {NoSession},
           \A s \in Session : s # v => /\ tasks'[s].status = tasks[s].status
                                       /\ tasks'[s].max_retries = tasks[s].max_retries
                                       /\ Holds(s)' => Holds(s),
           v \in Session => Released(v)
    PROVE  AsyncInv'
  <1>1. worker.pc \notin Uploading
    BY DEF Uploading, Owned, WorkerStep
  <1>2. Typed'
    BY DEF AsyncInv, Typed, WorkerFrame
  <1>3. ProjectingOK'
    BY DEF AsyncInv, ActorsOK, ProjectingOK, WorkerFrame, A
  <1>4. \A s \in Session : s # v => Untouched(s) /\ (Holds(s)' => Holds(s))
    BY DEF Untouched
  <1>5. ASSUME v \in Session
        PROVE  /\ Kept(v) /\ Agrees(v)' /\ Gone(v)' /\ Counted(v)'
               /\ Holds(v)' => Holds(v) \/ v \notin blocked
    <2>1. SessionOK(v)
      BY <1>5 DEF AsyncInv
    <2>2. /\ tasks'[v].max_retries = tasks[v].max_retries
          /\ \/ tasks'[v].status = tasks[v].status
             \/ /\ tasks[v].status \in {"pending", "running"}
                /\ tasks'[v].status \in {"pending", "running"}
             \/ tasks'[v].status = "absent" /\ v \in blocked
          /\ Holds(v)' => Holds(v) \/ (v \notin blocked /\ run[v].exists)
      BY <1>5 DEF Released
    <2>3. /\ run' = run /\ doc' = doc /\ uploads' = uploads /\ purge' = purge
          /\ crashes' = crashes /\ api' = api
      BY DEF WorkerFrame
    <2>4. Kept(v)
      BY <2>1, <2>2, <2>3 DEF Kept, SessionOK, Blocks
    <2>5. Agrees(v)'
      BY <2>1, <2>2, <2>3 DEF SessionOK, Agrees, Tombstone, Exists
    <2>6. Gone(v)'
      BY <2>1, <2>2, <2>3 DEF SessionOK, Gone, Reached, Calling, A, Exists
    <2>7. Spent(v) => Spent(v)'
      BY <1>1, <2>1, <2>2, <2>3 DEF SessionOK, Blocks, Spent, Tombstone
    <2>8. Counted(v)'
      BY <2>1, <2>3, <2>7 DEF SessionOK, Counted
    <2> QED
      BY <2>2, <2>4, <2>5, <2>6, <2>8
  <1> QED
    BY <1>1, <1>2, <1>3, <1>4, <1>5, WorkerActs

\* A fresh worker row fits any session.
LEMMA FreshFits ==
    ASSUME worker'.result = "none",
           worker'.pc \notin Handling \cup {"fts", "finalize", "complete"}
    PROVE  HandlerOK'
  BY DEF HandlerOK, Fits, Handling

LEMMA PollsInv ==
    ASSUME AsyncInv,
           \/ \E s \in Session : PollReconciles(s) \/ PollClaimsReceipt(s) \/ PollClaimsNext(s)
           \/ PollFindsNoReceipt \/ PollEndsEmpty
    PROVE  AsyncInv'
  <1>0. /\ worker.pc \notin Owned /\ boot.phase = "running" /\ worker.pc \in {"idle", "polled"}
        /\ UNCHANGED <<run, doc, uploads>> /\ WorkerFrame /\ Rows
        /\ worker \in WorkerRow /\ WorkerOK /\ HandlerOK
    BY DEF PollReconciles, PollClaimsReceipt, PollClaimsNext, PollFindsNoReceipt, PollEndsEmpty,
           Owned, At, AsyncInv, ActorsOK, WorkerOK, Typed
  <1>1. ASSUME NEW s \in Session,
               PollReconciles(s) \/ PollClaimsReceipt(s) \/ PollClaimsNext(s)
        PROVE  AsyncInv'
    <2> DEFINE pc == IF PollReconciles(s) THEN "r_register" ELSE "claimed"
    <2>1. /\ PollReconciles(s) => QueueFrame
          /\ ~PollReconciles(s) => ClaimById(Worker, s) \/ ClaimNext(Worker, s)
      BY <1>1 DEF PollReconciles, PollClaimsReceipt, PollClaimsNext
    <2>2. /\ worker' \in WorkerRow /\ worker'.pc = pc /\ worker'.session = s
          /\ ~worker'.registered /\ ~worker'.cancelled /\ worker'.result = "none"
      <3>1. CASE PollReconciles(s)
        BY <3>1 DEF PollReconciles, NoWork, WorkerRow, WorkerStep
      <3>2. CASE ~PollReconciles(s) /\ PollClaimsReceipt(s)
        BY <3>2 DEF PollClaimsReceipt, NoWork, WorkerRow, WorkerStep
      <3>3. CASE ~PollReconciles(s) /\ PollClaimsNext(s)
        BY <3>3 DEF PollClaimsNext, NoWork, WorkerRow, WorkerStep
      <3> QED
        BY <1>1, <3>1, <3>2, <3>3
    <2>3. \/ QueueFrame /\ pc = "r_register"
          \/ (ClaimById(Worker, s) \/ ClaimNext(Worker, s)) /\ pc = "claimed"
      BY <2>1
    <2> HIDE DEF pc
    <2>4. HandlerOK' /\ ~Projecting(worker'.pc)
      BY <2>3, <2>2, FreshFits DEF Handling, Projecting
    <2>5. \A u \in Session : ~Holds(u)'
      BY <2>2 DEF Holds
    <2>6. CASE QueueFrame /\ pc = "r_register"
      <3>1. tasks' = tasks /\ Rows'
        BY <1>0, <2>6 DEF Rows, QueueInv, QueueTypeOK, RetryBudget, RunningHasLease,
                          OnlyAuthorizedRuns, Payloads, QueueFrame, queueVars
      <3>2. WorkerOK'
        BY <1>0, <2>2, <2>6 DEF WorkerOK, WorkerFrame, At, Owned, W
      <3> QED
        BY <1>0, <2>2, <2>4, <2>5, <3>1, <3>2, StrangerActs DEF Released
    <2>7. CASE (ClaimById(Worker, s) \/ ClaimNext(Worker, s)) /\ pc = "claimed"
      <3>1. Rows' /\ Sets(s, "running") /\ Claimable(tasks[s])
        BY <1>0, <2>7, Claims
      <3>2. WorkerOK'
        BY <1>0, <2>2, <2>7, <3>1 DEF WorkerOK, WorkerFrame, At, Owned, W, Sets
      <3>3. Released(s)
        BY <2>5, <3>1 DEF Released, Sets, Claimable
      <3>4. \A u \in Session : u # s => /\ tasks'[u].status = tasks[u].status
                                        /\ tasks'[u].max_retries = tasks[u].max_retries
        BY <3>1 DEF Sets
      <3> QED
        BY <1>0, <2>2, <2>4, <2>5, <3>1, <3>2, <3>3, <3>4, StrangerActs
    <2> QED
      BY <2>3, <2>6, <2>7
  <1>2. ASSUME PollFindsNoReceipt \/ PollEndsEmpty
        PROVE  AsyncInv'
    <2>1. PICK pc \in {"idle", "polled"} : GoTo(pc)
      BY <1>2 DEF PollFindsNoReceipt, PollEndsEmpty
    <2>2. /\ worker' \in WorkerRow /\ worker'.pc = pc /\ worker'.session = W
          /\ worker'.registered <=> worker.registered
          /\ worker'.cancelled <=> worker.cancelled
          /\ worker'.result = worker.result
      BY <1>0, <2>1, GoesTo DEF WorkerStep
    <2>3. tasks' = tasks /\ Rows' /\ QueueFrame
      BY <1>0, <1>2 DEF PollFindsNoReceipt, PollEndsEmpty, Rows, QueueInv, QueueTypeOK,
            RetryBudget, RunningHasLease, OnlyAuthorizedRuns, Payloads, QueueFrame, queueVars
    <2>4. HandlerOK'
      <3>1. worker.result = "ok" => run[W].receipt
        BY <1>0 DEF HandlerOK, Fits
      <3>2. Fits(pc, W, run[W], tasks[W].status, worker.result)
        BY <3>1 DEF Fits, Handling
      <3> QED
        BY <1>0, <2>2, <2>3, <3>2 DEF HandlerOK, W
    <2>5. WorkerOK'
      BY <1>0, <2>2, <2>3 DEF WorkerOK, WorkerFrame, At, Owned, W
    <2>6. \A u \in Session : Released(u) /\ (Holds(u)' => Holds(u))
      BY <2>2, <2>3 DEF Released, Holds, W
    <2>7. ~Projecting(worker'.pc) /\ NoSession \in Session \cup {NoSession}
      BY <2>2 DEF Projecting
    <2> QED
      BY <1>0, <2>2, <2>3, <2>4, <2>5, <2>6, <2>7, StrangerActs
  <1> QED
    BY <1>1, <1>2

LEMMA FrameRows == Rows /\ QueueFrame => Rows' /\ tasks' = tasks
  BY DEF Rows, QueueInv, QueueTypeOK, RetryBudget, RunningHasLease, OnlyAuthorizedRuns,
         Payloads, QueueFrame, queueVars

LEMMA ClaimedInv ==
    ASSUME AsyncInv, CredentialVanishes \/ ReleaseUnkeyed \/ Register \/ RegisterRefused
    PROVE  AsyncInv'
  <1>0. /\ worker.pc \notin Owned /\ worker.pc \in {"claimed", "unkeyed"}
        /\ UNCHANGED <<run, doc, uploads>> /\ WorkerFrame /\ Rows
        /\ worker \in WorkerRow /\ WorkerOK /\ HandlerOK
    BY DEF CredentialVanishes, ReleaseUnkeyed, Register, RegisterRefused, Owned, At,
           AsyncInv, ActorsOK, Typed
  <1>1. W \in Session /\ boot.phase = "running"
    BY <1>0 DEF WorkerOK, At
  <1>2. PICK v \in Session : v = W
    BY <1>1
  <1>3. SessionOK(v)
    BY DEF AsyncInv
  <1>4. ASSUME NEW pc \in {"unkeyed", "drop"}, GoTo(pc), Rows',
               \/ Sets(v, "pending") /\ tasks[v].status \in {"pending", "running"}
               \/ Sets(v, "absent") /\ v \in blocked
               \/ tasks' = tasks
        PROVE  AsyncInv'
    <2>1. /\ worker' \in WorkerRow /\ worker'.pc = pc /\ worker'.session = v
          /\ worker'.registered <=> worker.registered
          /\ worker'.cancelled <=> worker.cancelled
          /\ worker'.result = worker.result
      BY <1>0, <1>2, <1>4, GoesTo DEF WorkerStep
    <2>2. HandlerOK'
      <3>1. worker.result = "ok" => run[v].receipt
        BY <1>0, <1>2 DEF HandlerOK, Fits
      <3>2. Fits(pc, v, run'[v], tasks'[v].status, worker.result)
        BY <1>0, <3>1 DEF Fits, Handling
      <3> QED
        BY <2>1, <3>2 DEF HandlerOK, W
    <2>3. WorkerOK'
      BY <1>0, <1>1, <1>2, <2>1 DEF WorkerOK, WorkerFrame, At, Owned, W
    <2>4. \A u \in Session : Holds(u)' => Holds(u)
      BY <1>2, <2>1 DEF Holds, W
    <2>5. /\ Released(v)
          /\ \A u \in Session : u # v => /\ tasks'[u].status = tasks[u].status
                                         /\ tasks'[u].max_retries = tasks[u].max_retries
                                         /\ Holds(u)' => Holds(u)
      BY <1>4, <2>4 DEF Released, Sets
    <2>6. ~Projecting(worker'.pc)
      BY <2>1 DEF Projecting
    <2> QED
      BY <1>0, <1>1, <1>4, <2>1, <2>2, <2>3, <2>5, <2>6, StrangerActs
  <1>5. CASE CredentialVanishes
    BY <1>0, <1>4, <1>5, FrameRows DEF CredentialVanishes
  <1>6. CASE ReleaseUnkeyed
    <2>1. GoTo("drop") /\ (\/ ReleaseWithoutRetry(v) /\ tasks[v].status = "running"
                           \/ QueueFrame)
      BY <1>2, <1>6 DEF ReleaseUnkeyed
    <2> QED
      BY <1>0, <1>4, <2>1, Closes, FrameRows
  <1>7. CASE RegisterRefused
    <2>1. GoTo("drop") /\ v \in blocked /\ (PurgeTask(v) \/ QueueFrame)
      BY <1>2, <1>7 DEF RegisterRefused
    <2> QED
      BY <1>0, <1>4, <2>1, Purges, FrameRows
  <1>8. CASE Register
    <2>1. At("claimed") /\ v \notin blocked /\ QueueFrame
      BY <1>2, <1>8 DEF Register
    <2>2. /\ worker' \in WorkerRow /\ worker'.pc = "check1" /\ worker'.session = v
          /\ worker'.registered /\ (worker'.cancelled <=> worker.cancelled)
          /\ worker'.result = worker.result
      BY <1>0, <1>2, <1>8 DEF Register, WorkerRow, WorkerStep, W
    <2>3. Rows' /\ tasks' = tasks
      BY <1>0, <2>1, FrameRows
    <2>4. ~run[v].receipt => tasks[v].status = "running"
      BY <1>0, <1>2, <2>1 DEF WorkerOK
    <2>5. run[v].exists
      BY <1>3, <2>4 DEF SessionOK, Gone, ErasedRun, StoppedRun, Exists
    <2>6. HandlerOK'
      <3>1. worker.result = "ok" => run[v].receipt
        BY <1>0, <1>2 DEF HandlerOK, Fits
      <3>2. Fits("check1", v, run[v], tasks[v].status, worker.result)
        BY <2>4, <3>1 DEF Fits, Handling
      <3> QED
        BY <1>0, <2>2, <2>3, <3>2 DEF HandlerOK, W
    <2>7. WorkerOK'
      BY <1>0, <1>1, <1>2, <2>2 DEF WorkerOK, WorkerFrame, At, Owned, W
    <2>8. Released(v) /\ \A u \in Session : u # v => ~Holds(u)'
      BY <2>1, <2>2, <2>3, <2>5 DEF Released, Holds, W
    <2> QED
      BY <1>0, <1>1, <2>2, <2>3, <2>6, <2>7, <2>8, StrangerActs DEF Projecting
  <1> QED
    BY <1>5, <1>6, <1>7, <1>8

LEMMA LeavesInv ==
    ASSUME AsyncInv, WorkerDrops \/ RecoveryRegisters
    PROVE  AsyncInv'
  <1>0. /\ worker.pc \notin Owned /\ worker.pc \in {"drop", "r_register"}
        /\ UNCHANGED <<run, doc, uploads>> /\ WorkerFrame /\ Rows
        /\ worker \in WorkerRow /\ WorkerOK /\ HandlerOK
    BY DEF WorkerDrops, RecoveryRegisters, Owned, At, AsyncInv, ActorsOK, Typed
  <1>1. W \in Session /\ boot.phase = "running"
    BY <1>0 DEF WorkerOK, At
  <1>2. PICK v \in Session : v = W
    BY <1>1
  <1>3. SessionOK(v)
    BY DEF AsyncInv
  <1>4. Rows' /\ tasks' = tasks
    <2>1. QueueFrame \/ DropHandle(Worker)
      BY DEF WorkerDrops, RecoveryRegisters
    <2>2. DropHandle(Worker) => QueueNext /\ tasks' = tasks
      BY AsyncAssumption DEF QueueNext, DropHandle
    <2> QED
      BY <1>0, <2>1, <2>2, FrameRows, QueueStepInv DEF Rows, Payloads
  <1>5. CASE worker' = NoWork
    <2>1. /\ worker' \in WorkerRow /\ worker'.pc = "idle" /\ worker'.session = NoSession
          /\ ~worker'.registered /\ ~worker'.cancelled /\ worker'.result = "none"
      BY <1>5 DEF NoWork, WorkerRow, WorkerStep
    <2>2. HandlerOK' /\ ~Projecting(worker'.pc)
      BY <2>1, FreshFits DEF Handling, Projecting
    <2>3. WorkerOK'
      BY <1>0, <2>1 DEF WorkerOK, At, Owned
    <2>4. Released(v) /\ \A u \in Session : ~Holds(u)'
      BY <1>4, <2>1 DEF Released, Holds
    <2> QED
      BY <1>0, <1>1, <1>4, <2>1, <2>2, <2>3, <2>4, StrangerActs
  <1>6. CASE worker' # NoWork
    <2>1. /\ run[v].receipt /\ v \notin blocked
          /\ worker' = [worker EXCEPT !.pc = "r_check1", !.registered = TRUE]
      BY <1>2, <1>6 DEF WorkerDrops, RecoveryRegisters
    <2>2. /\ worker' \in WorkerRow /\ worker'.pc = "r_check1" /\ worker'.session = v
          /\ worker'.registered /\ (worker'.cancelled <=> worker.cancelled)
          /\ worker'.result = worker.result
      BY <1>0, <1>2, <2>1 DEF WorkerRow, WorkerStep, W
    <2>3. run[v].exists
      BY <1>3, <2>1 DEF SessionOK, Gone, ErasedRun, StoppedRun
    <2>4. HandlerOK'
      <3>1. Fits("r_check1", v, run[v], tasks[v].status, worker.result)
        BY <2>1 DEF Fits, Handling
      <3> QED
        BY <1>0, <1>4, <2>2, <3>1 DEF HandlerOK, W
    <2>5. WorkerOK'
      BY <1>0, <1>1, <1>2, <2>2 DEF WorkerOK, WorkerFrame, At, Owned, W
    <2>6. Released(v) /\ \A u \in Session : u # v => ~Holds(u)'
      BY <1>4, <2>1, <2>2, <2>3 DEF Released, Holds, W
    <2> QED
      BY <1>0, <1>1, <1>4, <2>2, <2>4, <2>5, <2>6, StrangerActs DEF Projecting
  <1> QED
    BY <1>5, <1>6

-----------------------------------------------------------------------------
(* Time. *)

LEMMA TimePasses ==
    ASSUME AsyncInv, UNCHANGED asyncVars, Rows',
           \A s \in Session : /\ tasks'[s].status = tasks[s].status
                              /\ tasks'[s].max_retries = tasks[s].max_retries
    PROVE  AsyncInv'
  <1>1. /\ run' = run /\ doc' = doc /\ purge' = purge /\ worker' = worker
        /\ blocked' = blocked /\ api' = api /\ boot' = boot /\ uploads' = uploads
        /\ crashes' = crashes
    BY DEF asyncVars
  <1>2. Typed'
    BY <1>1 DEF AsyncInv, Typed
  <1>3. WorkerOK'
    BY <1>1 DEF AsyncInv, ActorsOK, WorkerOK, At, W
  <1>4. HandlerOK'
    BY <1>1 DEF AsyncInv, ActorsOK, WorkerOK, HandlerOK, Fits, At, W, Handling
  <1>5. CallOK' /\ PurgeOK' /\ ProjectingOK' /\ BootOK'
    <2>1. CallOK'
      BY <1>1 DEF AsyncInv, ActorsOK, CallOK, Serves, Calling, A, Tombstone
    <2>2. PurgeOK'
      BY <1>1 DEF AsyncInv, ActorsOK, PurgeOK, Calling, A, Tombstone, Holds, W
    <2>3. ProjectingOK' /\ BootOK'
      BY <1>1 DEF AsyncInv, ActorsOK, ProjectingOK, BootOK, A, W, Tombstone
    <2> QED
      BY <2>1, <2>2, <2>3
  <1>6. ASSUME NEW s \in Session
        PROVE  SessionOK(s)'
    <2>1. SessionOK(s)
      BY DEF AsyncInv
    <2>2. Agrees(s)'
      BY <1>1, <2>1 DEF SessionOK, Agrees, Tombstone, Exists
    <2>3. Blocks(s)' /\ Gone(s)'
      BY <1>1, <2>1 DEF SessionOK, Blocks, Gone, Reached, Tombstone, Exists, Holds, Calling, A, W
    <2>4. Counted(s)'
      BY <1>1, <2>1 DEF SessionOK, Counted, Spent, Tombstone, W
    <2> QED
      BY <2>2, <2>3, <2>4 DEF SessionOK
  <1> QED
    BY <1>2, <1>3, <1>4, <1>5, <1>6 DEF AsyncInv, ActorsOK

LEMMA TimeInv == AsyncInv /\ (HeartbeatRuns \/ LeaseRunsOut) => AsyncInv'
  <1> SUFFICES ASSUME AsyncInv, HeartbeatRuns \/ LeaseRunsOut PROVE AsyncInv'
    OBVIOUS
  <1>1. Rows
    BY DEF AsyncInv
  <1>2. CASE LeaseRunsOut
    BY <1>1, <1>2, RowsPass, TimePasses DEF LeaseRunsOut
  <1>3. CASE HeartbeatRuns
    <2>1. worker.pc \in Owned
      BY <1>3 DEF HeartbeatRuns, Owned, WorkerStep
    <2>2. PICK v \in Session : v = W
      BY <2>1, OwnedFacts
    <2>3. Rows' /\ Sets(v, tasks[v].status) /\ UNCHANGED asyncVars
      BY <1>1, <1>3, <2>2, Leases DEF HeartbeatRuns
    <2> QED
      BY <2>3, TimePasses DEF Sets
  <1> QED
    BY <1>2, <1>3

-----------------------------------------------------------------------------
(* A step of an API call, or of startup, that purges nothing.                *)

\* What the worker, and the stores, allow the call to make of a live session's
\* run and row.
Answerable(s, r, st, max) ==
    /\ r \in Run /\ r.exists
    /\ r.receipt <=> run[s].receipt
    /\ run[s].provenance => r.provenance
    /\ r.audio => run[s].audio
    /\ ~r.receipt /\ tasks[s].status \in {"failed", "running"} => st = tasks[s].status
    /\ ~r.receipt /\ tasks[s].status = "running" /\ run[s].async = "enqueued"
          => r.async = "enqueued"
    /\ Projecting(worker.pc) /\ W = s => r.projection = "projecting"
    /\ r.async \in {"none", "pending"} => ~r.receipt
    /\ st = "completed" => r.receipt /\ (s \in Private => ~r.audio)
    /\ r.async = "completed" =>
          r.receipt /\ (s \in Private => ~r.audio) /\ st \in {"completed", "absent"}
    /\ st # "absent" /\ max # 1 => r.receipt
    /\ r.projection # "none" => r.async = "completed"

\* The call writes no session but its own.
Elsewise(v) ==
    \A s \in Session : s # v =>
        /\ run'[s] = run[s] /\ (s \in doc' <=> s \in doc)
        /\ tasks'[s].status = tasks[s].status
        /\ tasks'[s].max_retries = tasks[s].max_retries
        /\ purge'[s] = purge[s]

\* What is so of every other session stays so.
LEMMA CallElsewhere ==
    ASSUME AsyncInv, ApiFrame, NEW v \in Session, Elsewise(v),
           ~Calling("idle") => A = v, api'.pc # "idle" => api'.session = v,
           blocked' = blocked \/ blocked' = blocked \cup {v},
           NEW s \in Session, s # v
    PROVE  SessionOK(s)'
  <1>1. SessionOK(s)
    BY DEF AsyncInv
  <1>2. /\ run'[s] = run[s] /\ (s \in doc' <=> s \in doc)
        /\ tasks'[s].status = tasks[s].status
        /\ tasks'[s].max_retries = tasks[s].max_retries
        /\ purge'[s] = purge[s] /\ (s \in blocked' <=> s \in blocked)
    BY DEF Elsewise
  <1>3. worker' = worker /\ boot' = boot /\ uploads' = uploads /\ crashes' = crashes
    BY DEF ApiFrame
  <1>4. Agrees(s)'
    BY <1>1, <1>2 DEF SessionOK, Agrees, Tombstone, Exists
  <1>5. Blocks(s)'
    BY <1>1, <1>2, <1>3 DEF SessionOK, Blocks, Tombstone, Calling, A, Holds, W
  <1>6. Gone(s)'
    BY <1>1, <1>2, <1>3 DEF SessionOK, Gone, Reached, Tombstone, Calling, A, Holds, W, Exists
  <1>7. Counted(s)'
    BY <1>1, <1>2, <1>3 DEF SessionOK, Counted, Spent, Tombstone, W
  <1> QED
    BY <1>4, <1>5, <1>6, <1>7 DEF SessionOK

LEMMA CallActs ==
    ASSUME AsyncInv, ApiFrame, UNCHANGED <<purge, blocked>>,
           NEW v \in Session, run[v].exists, ~Tombstone(v), v \notin boot.todo,
           ~Calling("idle") => A = v,
           NEW r, NEW st, NEW max, Answerable(v, r, st, max),
           SetRun(v, r), doc' = doc \/ doc' = doc \cup {v},
           Rows', tasks'[v].status = st, tasks'[v].max_retries = max,
           \A s \in Session : s # v => tasks'[s] = tasks[s],
           api' \in CallRow, api'.pc \notin PurgeStep,
           api'.pc # "idle" =>
              /\ api'.session = v /\ (api'.receipt => r.receipt)
              /\ api'.pc \in Recovering => api'.receipt
              /\ Serves(api'.pc, v, api'.status, r, st),
           Projecting(api'.pc) =>
              r.projection = "projecting" /\ ~(Projecting(worker.pc) /\ W = v)
    PROVE  AsyncInv'
  <1>1. /\ run' \in [Session -> Run] /\ run'[v] = r
        /\ \A s \in Session : s # v => run'[s] = run[s]
    BY DEF AsyncInv, Typed, SetRun, Answerable
  <1>2. /\ worker' = worker /\ boot' = boot /\ uploads' = uploads /\ crashes' = crashes
        /\ purge' = purge /\ blocked' = blocked
    BY DEF ApiFrame
  <1>3. Typed'
    BY <1>1, <1>2 DEF AsyncInv, Typed
  <1>4. Elsewise(v)
    BY <1>1, <1>2 DEF Elsewise
  <1>5. SessionOK(v)
    BY DEF AsyncInv
  <1>6. ~Tombstone(v) /\ v \notin blocked /\ purge[v] = NoPurge
    BY <1>5 DEF SessionOK, Blocks, Tombstone
  <1>7. WorkerOK'
    <2>1. WorkerOK /\ (At("claimed") => W \in Session)
      BY DEF AsyncInv, ActorsOK, WorkerOK, At
    <2>2. At("claimed") /\ ~run'[W].receipt => tasks'[W].status = "running" \/ W \in blocked
      BY <1>1, <2>1 DEF WorkerOK, Answerable
    <2> QED
      BY <1>2, <2>1, <2>2 DEF WorkerOK, At, W
  <1>8. HandlerOK'
    <2>1. HandlerOK /\ WorkerOK
      BY DEF AsyncInv, ActorsOK
    <2>2. /\ Fits(worker.pc, W, run[W], tasks[W].status, worker.result)
          /\ worker.pc \in Handling \cup {"fts", "finalize", "complete"} => W \in Session
          /\ worker.result = "ok" => W \in Session
      BY <2>1 DEF HandlerOK, WorkerOK, At, Handling
    <2>3. Fits(worker.pc, W, run'[W], tasks'[W].status, worker.result)
      <3>1. CASE W = v
        BY <1>1, <2>2, <3>1 DEF Fits, Answerable, Handling
      <3>2. CASE W \in Session /\ W # v
        BY <1>1, <2>2, <3>2
      <3>3. CASE W \notin Session
        <4>1. /\ worker.pc \notin Handling \cup {"fts", "finalize", "complete"}
              /\ worker.result # "ok"
          BY <2>2, <3>3
        <4> QED
          BY <4>1 DEF Fits, Handling
      <3> QED
        BY <3>1, <3>2, <3>3
    <2> QED
      BY <1>2, <2>3 DEF HandlerOK, W
  <1>9. CallOK'
    BY <1>1, <1>2, <1>6 DEF CallOK, Calling, A, Tombstone, Answerable
  <1>10. PurgeOK'
    BY DEF PurgeOK, Calling, Erasing, PurgeStep
  <1>11. ProjectingOK'
    <2>1. Projecting(worker.pc) => W \in Session /\ run[W].projection = "projecting"
      BY DEF AsyncInv, ActorsOK, WorkerOK, ProjectingOK, Projecting
    <2>2. Projecting(worker.pc) => run'[W].projection = "projecting"
      BY <1>1, <2>1 DEF Answerable
    <2>3. Projecting(api'.pc) => api'.session = v
      BY DEF Projecting
    <2> QED
      BY <1>1, <1>2, <2>2, <2>3 DEF ProjectingOK, A, W
  <1>12. BootOK'
    BY <1>1, <1>2 DEF AsyncInv, ActorsOK, BootOK, Tombstone, Typed, BootRow
  <1>13. Agrees(v)'
    BY <1>1, <1>2 DEF Agrees, Answerable, Tombstone, Exists
  <1>14. Blocks(v)' /\ Gone(v)'
    BY <1>1, <1>2, <1>6 DEF Blocks, Gone, Reached, Tombstone, Calling, A, NoPurge,
                            PurgeStep, Answerable
  <1>15. Counted(v)'
    <2>1. Spent(v) => Spent(v)'
      BY <1>1, <1>2 DEF Spent, Answerable, Tombstone, W
    <2> QED
      BY <1>2, <1>5, <2>1 DEF SessionOK, Counted
  <1>16. \A s \in Session : SessionOK(s)'
    BY <1>4, <1>13, <1>14, <1>15, CallElsewhere DEF SessionOK
  <1> QED
    BY <1>3, <1>7, <1>8, <1>9, <1>10, <1>11, <1>12, <1>16 DEF AsyncInv, ActorsOK

LEMMA LiveFacts ==
    ASSUME AsyncInv, NEW v \in Session, run[v].exists, ~Tombstone(v)
    PROVE  /\ Agrees(v) /\ run[v] \in Run /\ (SetRun(v, run[v]) <=> run' = run)
           /\ Projecting(worker.pc) /\ W = v => run[v].projection = "projecting"
           /\ Answerable(v, run[v], tasks[v].status, tasks[v].max_retries)
  <1>1. Agrees(v) /\ run[v] \in Run /\ run \in [Session -> Run]
    BY DEF AsyncInv, SessionOK, Typed
  <1>2. SetRun(v, run[v]) <=> run' = run
    BY <1>1 DEF SetRun
  <1>3. Projecting(worker.pc) /\ W = v => run[v].projection = "projecting"
    BY DEF AsyncInv, ActorsOK, ProjectingOK
  <1>4. Answerable(v, run[v], tasks[v].status, tasks[v].max_retries)
    BY <1>1, <1>3 DEF Answerable, Agrees, Exists
  <1> QED
    BY <1>1, <1>2, <1>3, <1>4

\* The steps of a call that purges nothing.
Plain == ApiStep \ (PurgeStep \cup {"idle"})

\* A begun call that purges nothing works on a live session.
LEMMA CallFacts ==
    ASSUME AsyncInv, api.pc \in Plain
    PROVE  /\ A \in Session /\ A \notin boot.todo /\ run[A].exists /\ ~Tombstone(A)
           /\ api.receipt => run[A].receipt
           /\ api.pc \in Recovering => api.receipt
           /\ Serves(api.pc, A, api.status, run[A], tasks[A].status)
           /\ api \in CallRow
  BY DEF AsyncInv, ActorsOK, CallOK, Calling, Typed, Plain

LEMMA CallGoes ==
    ASSUME api \in CallRow, NEW pc \in ApiStep, CallGoesTo(pc)
    PROVE  /\ api' \in CallRow /\ api'.pc = pc /\ api'.session = A
           /\ api'.receipt <=> api.receipt
           /\ api'.status = api.status
  BY DEF CallGoesTo, CallRow, A

LEMMA CallStops ==
    CallEnds => api' \in CallRow /\ api'.pc = "idle"
  BY DEF CallEnds, NoCall, CallRow, ApiStep, AsyncState, Status

\* The call writes its run, or nothing, and not its row.
LEMMA CallSets ==
    ASSUME AsyncInv, ApiFrame, QueueFrame, UNCHANGED <<purge, blocked>>,
           NEW v \in Session, run[v].exists, ~Tombstone(v), v \notin boot.todo,
           ~Calling("idle") => A = v,
           NEW r, Answerable(v, r, tasks[v].status, tasks[v].max_retries), SetRun(v, r),
           doc' = doc \/ doc' = doc \cup {v},
           api' \in CallRow, api'.pc \notin PurgeStep,
           api'.pc # "idle" =>
              /\ api'.session = v /\ (api'.receipt => r.receipt)
              /\ api'.pc \in Recovering => api'.receipt
              /\ Serves(api'.pc, v, api'.status, r, tasks[v].status),
           Projecting(api'.pc) =>
              r.projection = "projecting" /\ ~(Projecting(worker.pc) /\ W = v)
    PROVE  AsyncInv'
  <1>1. Rows' /\ tasks' = tasks
    BY FrameRows DEF AsyncInv
  <1> QED
    BY <1>1, CallActs

LEMMA CallTurns ==
    ASSUME AsyncInv, ApiFrame, QueueFrame, UNCHANGED <<run, doc, purge, blocked>>,
           NEW v \in Session, run[v].exists, ~Tombstone(v), v \notin boot.todo,
           ~Calling("idle") => A = v,
           api' \in CallRow, api'.pc \notin PurgeStep, ~Projecting(api'.pc),
           api'.pc # "idle" =>
              /\ api'.session = v /\ (api'.receipt => run[v].receipt)
              /\ api'.pc \in Recovering => api'.receipt
              /\ Serves(api'.pc, v, api'.status, run[v], tasks[v].status)
    PROVE  AsyncInv'
  BY LiveFacts, CallSets

\* A begun call that ends without a write.
LEMMA CallQuits ==
    ASSUME AsyncInv, api.pc \in Plain, ApiFrame, QueueFrame,
           UNCHANGED <<run, doc, purge, blocked>>, CallEnds
    PROVE  AsyncInv'
  <1>1. PICK v \in Session : v = A
    BY CallFacts
  <1>2. run[v].exists /\ ~Tombstone(v) /\ v \notin boot.todo
    BY <1>1, CallFacts
  <1>3. api' \in CallRow /\ api'.pc = "idle" /\ api'.pc \notin PurgeStep /\ ~Projecting(api'.pc)
    BY CallStops DEF PurgeStep, Projecting
  <1> QED
    BY <1>1, <1>2, <1>3, CallTurns

LEMMA CallMarks ==
    ASSUME AsyncInv, NEW v \in Session, CanMarkEnqueued(v)
    PROVE  /\ Answerable(v, EnqueuedRun(run[v]), tasks[v].status, tasks[v].max_retries)
           /\ EnqueuedRun(run[v]).async = "enqueued"
           /\ EnqueuedRun(run[v]).receipt <=> run[v].receipt
           /\ run[v].exists /\ ~Tombstone(v)
  <1> DEFINE r == EnqueuedRun(run[v])
  <1>1. /\ run[v].exists /\ ~Tombstone(v) /\ run[v].async \in {"reserved", "enqueued"}
    BY DEF CanMarkEnqueued
  <1>2. /\ Agrees(v) /\ run[v] \in Run
        /\ Projecting(worker.pc) /\ W = v => run[v].projection = "projecting"
        /\ Answerable(v, run[v], tasks[v].status, tasks[v].max_retries)
    BY <1>1, LiveFacts
  <1>3. /\ r \in Run /\ r.async = "enqueued" /\ r.projection = run[v].projection
        /\ r.exists <=> run[v].exists
        /\ r.receipt <=> run[v].receipt
        /\ r.provenance <=> run[v].provenance
        /\ r.audio <=> run[v].audio
    BY <1>2 DEF EnqueuedRun, Run, AsyncState
  <1> HIDE DEF r
  <1>4. r.projection = "none"
    BY <1>1, <1>2, <1>3 DEF Agrees
  <1>5. Answerable(v, r, tasks[v].status, tasks[v].max_retries)
    BY <1>1, <1>2, <1>3, <1>4 DEF Answerable
  <1> QED
    BY <1>1, <1>3, <1>5 DEF r

LEMMA CallCloses ==
    ASSUME AsyncInv, NEW v \in Session, NEW success \in BOOLEAN, CanClose(v, success),
           success => tasks[v].status = "completed",
           ~success => tasks[v].status # "running" \/ run[v].receipt
    PROVE  /\ Answerable(v, ClosedRun(run[v], success), tasks[v].status, tasks[v].max_retries)
           /\ run[v].exists /\ ~Tombstone(v)
  <1> DEFINE r == ClosedRun(run[v], success)
  <1>1. run[v].exists /\ ~Tombstone(v)
    BY DEF CanClose
  <1>2. /\ Agrees(v) /\ run[v] \in Run
        /\ Projecting(worker.pc) /\ W = v => run[v].projection = "projecting"
        /\ Answerable(v, run[v], tasks[v].status, tasks[v].max_retries)
    BY <1>1, LiveFacts
  <1>3. /\ r \in Run /\ r.async = IF success THEN "completed" ELSE "failed"
        /\ r.projection = IF success /\ run[v].async # "completed" THEN "pending"
                          ELSE run[v].projection
        /\ r.exists <=> run[v].exists
        /\ r.receipt <=> run[v].receipt
        /\ r.provenance <=> run[v].provenance
        /\ r.audio <=> run[v].audio
        /\ run[v].async \in {"completed", "failed", "enqueued", "reserved"}
        /\ run[v].async = "completed" => success
    BY <1>2, ClosesRun
  <1> HIDE DEF r
  <1>4. ASSUME success PROVE Answerable(v, r, tasks[v].status, tasks[v].max_retries)
    <2>1. /\ r.async = "completed" /\ run[v].receipt /\ (v \in Private => ~run[v].audio)
          /\ tasks[v].status = "completed"
          /\ run[v].async = "completed" => r.projection = run[v].projection
      BY <1>2, <1>3, <1>4 DEF Agrees
    <2>2. Projecting(worker.pc) /\ W = v => r.projection = "projecting"
      BY <1>2, <2>1 DEF Agrees
    <2> QED
      BY <1>2, <1>3, <2>1, <2>2 DEF Answerable
  <1>5. ASSUME ~success PROVE Answerable(v, r, tasks[v].status, tasks[v].max_retries)
    <2>1. /\ r.async = "failed" /\ r.projection = "none" /\ run[v].projection = "none"
          /\ tasks[v].status # "running" \/ run[v].receipt
      BY <1>2, <1>3, <1>5 DEF Agrees
    <2> QED
      BY <1>2, <1>3, <2>1 DEF Answerable
  <1> QED
    BY <1>1, <1>4, <1>5 DEF r

\* The end of a call that closes its run, if it may.
LEMMA CallCloseEnds ==
    ASSUME AsyncInv, api.pc \in Plain, ApiFrame, QueueFrame,
           UNCHANGED <<doc, purge, blocked>>, CallEnds,
           NEW success \in BOOLEAN,
           success => tasks[A].status = "completed",
           ~success => tasks[A].status # "running" \/ run[A].receipt,
           IF CanClose(A, success) THEN SetRun(A, ClosedRun(run[A], success))
                                   ELSE UNCHANGED run
    PROVE  AsyncInv'
  <1>1. PICK v \in Session : v = A
    BY CallFacts
  <1>2. run[v].exists /\ ~Tombstone(v) /\ v \notin boot.todo
    BY <1>1, CallFacts
  <1>3. CASE ~CanClose(v, success)
    BY <1>1, <1>3, CallQuits
  <1>4. CASE CanClose(v, success)
    <2>1. SetRun(v, ClosedRun(run[v], success))
      BY <1>1, <1>4
    <2>2. Answerable(v, ClosedRun(run[v], success), tasks[v].status, tasks[v].max_retries)
      BY <1>1, <1>4, CallCloses
    <2>3. api' \in CallRow /\ api'.pc = "idle" /\ api'.pc \notin PurgeStep
          /\ ~Projecting(api'.pc)
      BY CallStops DEF PurgeStep, Projecting
    <2> QED
      BY <1>1, <1>2, <2>1, <2>2, <2>3, CallSets
  <1> QED
    BY <1>3, <1>4

\* The request's own steps: reserve, enqueue, mark.
LEMMA ReserveInv == AsyncInv /\ Reserve => AsyncInv'
  <1> SUFFICES ASSUME AsyncInv, Reserve PROVE AsyncInv'
    OBVIOUS
  <1>0. api.pc \in Plain /\ Calling("reserve")
    BY DEF Reserve, Calling, Plain, ApiStep, PurgeStep
  <1>1. PICK v \in Session : v = A
    BY <1>0, CallFacts
  <1>2. /\ run[v].exists /\ ~Tombstone(v) /\ v \notin boot.todo /\ api \in CallRow
        /\ Serves("reserve", v, api.status, run[v], tasks[v].status)
        /\ api.receipt => run[v].receipt
    BY <1>0, <1>1, CallFacts DEF Calling
  <1>3. /\ Agrees(v) /\ run[v] \in Run /\ run[v].async = "pending"
        /\ Answerable(v, run[v], tasks[v].status, tasks[v].max_retries)
    BY <1>2, LiveFacts DEF Serves
  <1> DEFINE r == [run[v] EXCEPT !.async = "reserved"]
  <1>4. /\ r \in Run /\ r.async = "reserved" /\ r.projection = run[v].projection
        /\ r.exists <=> run[v].exists
        /\ r.receipt <=> run[v].receipt
        /\ r.provenance <=> run[v].provenance
        /\ r.audio <=> run[v].audio
    BY <1>3 DEF Run, AsyncState
  <1>5. SetRun(v, r)
    BY <1>1 DEF Reserve
  <1> HIDE DEF r
  <1>6. Answerable(v, r, tasks[v].status, tasks[v].max_retries)
    BY <1>3, <1>4 DEF Answerable, Agrees
  <1>7. Serves("enqueue", v, api.status, r, tasks[v].status)
    BY <1>4 DEF Serves
  <1>8. /\ api' \in CallRow /\ api'.pc = "enqueue" /\ api'.session = v
        /\ api'.receipt <=> api.receipt
        /\ api'.status = api.status
    BY <1>1, <1>2, CallGoes DEF Reserve, ApiStep
  <1>9. /\ ApiFrame /\ QueueFrame /\ UNCHANGED <<doc, purge, blocked>>
    BY DEF Reserve
  <1>10. api'.pc \notin PurgeStep /\ ~Projecting(api'.pc) /\ api'.pc \notin Recovering
    BY <1>8 DEF PurgeStep, Projecting, Recovering
  <1> QED
    BY <1>1, <1>2, <1>4, <1>5, <1>6, <1>7, <1>8, <1>9, <1>10, CallSets

\* A new row has one attempt.
LEMMA EnqueueRowInv == AsyncInv /\ EnqueueRow => AsyncInv'
  <1> SUFFICES ASSUME AsyncInv, EnqueueRow PROVE AsyncInv'
    OBVIOUS
  <1>0. api.pc \in Plain /\ Calling("enqueue")
    BY DEF EnqueueRow, Calling, Plain, ApiStep, PurgeStep
  <1>1. PICK v \in Session : v = A
    BY <1>0, CallFacts
  <1>2. /\ run[v].exists /\ ~Tombstone(v) /\ v \notin boot.todo /\ api \in CallRow
        /\ Serves("enqueue", v, api.status, run[v], tasks[v].status)
        /\ api.receipt => run[v].receipt
    BY <1>0, <1>1, CallFacts DEF Calling
  <1>3. /\ Agrees(v) /\ run[v] \in Run /\ (SetRun(v, run[v]) <=> run' = run)
        /\ Answerable(v, run[v], tasks[v].status, tasks[v].max_retries)
    BY <1>2, LiveFacts
  <1>4. /\ ApiFrame /\ UNCHANGED <<run, doc, purge, blocked>> /\ Rows
    BY DEF EnqueueRow, AsyncInv
  <1>5. /\ api' \in CallRow /\ api'.pc = "mark" /\ api'.session = v
        /\ api'.receipt <=> api.receipt
        /\ api'.status = api.status
    BY <1>1, <1>2, CallGoes DEF EnqueueRow, ApiStep
  <1>6. /\ api'.pc \notin PurgeStep /\ ~Projecting(api'.pc) /\ api'.pc \notin Recovering
        /\ \A st : Serves(api'.pc, v, api'.status, run[v], st)
    BY <1>5 DEF PurgeStep, Projecting, Recovering, Serves
  <1>7. CASE Exists(v)
    <2>1. QueueFrame
      BY <1>1, <1>7 DEF EnqueueRow
    <2> QED
      BY <1>1, <1>2, <1>4, <1>5, <1>6, <2>1, CallTurns
  <1>8. CASE ~Exists(v)
    <2>1. Enqueue(v, v, 10, 1)
      BY <1>1, <1>8 DEF EnqueueRow
    <2>2. /\ Rows'
          /\ \A u \in Session : u # v => tasks'[u] = tasks[u]
          /\ tasks'[v].status = "pending" /\ tasks'[v].max_retries = 1
      BY <1>4, <2>1, Enqueues
    <2>3. Answerable(v, run[v], "pending", 1)
      BY <1>2, <1>3, <1>8 DEF Answerable, Serves, Exists
    <2> QED
      BY <1>1, <1>2, <1>3, <1>4, <1>5, <1>6, <2>2, <2>3, CallActs
  <1> QED
    BY <1>7, <1>8

LEMMA MarkEnqueuedInv == AsyncInv /\ MarkEnqueued => AsyncInv'
  <1> SUFFICES ASSUME AsyncInv, MarkEnqueued PROVE AsyncInv'
    OBVIOUS
  <1>0. api.pc \in Plain
    BY DEF MarkEnqueued, Calling, Plain, ApiStep, PurgeStep
  <1>1. PICK v \in Session : v = A
    BY <1>0, CallFacts
  <1>2. run[v].exists /\ ~Tombstone(v) /\ v \notin boot.todo
    BY <1>0, <1>1, CallFacts
  <1>3. /\ ApiFrame /\ QueueFrame /\ UNCHANGED <<doc, purge, blocked>> /\ CallEnds
    BY DEF MarkEnqueued
  <1>4. CASE ~CanMarkEnqueued(v)
    BY <1>0, <1>1, <1>3, <1>4, CallQuits DEF MarkEnqueued
  <1>5. CASE CanMarkEnqueued(v)
    <2>1. SetRun(v, EnqueuedRun(run[v]))
      BY <1>1, <1>5 DEF MarkEnqueued
    <2>2. api' \in CallRow /\ api'.pc = "idle" /\ api'.pc \notin PurgeStep /\ ~Projecting(api'.pc)
      BY <1>3, CallStops DEF PurgeStep, Projecting
    <2> QED
      BY <1>1, <1>2, <1>3, <1>5, <2>1, <2>2, CallMarks, CallSets
  <1> QED
    BY <1>4, <1>5

\* The reconciliation: the receipt, then the row, then what they say.
LEMMA ReadReceiptInv == AsyncInv /\ ReadReceipt => AsyncInv'
  <1> SUFFICES ASSUME AsyncInv, ReadReceipt PROVE AsyncInv'
    OBVIOUS
  <1>0. api.pc \in Plain /\ Calling("read_receipt")
    BY DEF ReadReceipt, Calling, Plain, ApiStep, PurgeStep
  <1>1. PICK v \in Session : v = A
    BY <1>0, CallFacts
  <1>2. /\ run[v].exists /\ ~Tombstone(v) /\ v \notin boot.todo /\ api \in CallRow
        /\ Serves("read_receipt", v, api.status, run[v], tasks[v].status)
    BY <1>0, <1>1, CallFacts DEF Calling
  <1>3. run[v] \in Run
    BY <1>2, LiveFacts
  <1>4. /\ api' \in CallRow /\ api'.pc = "read_row" /\ api'.session = v
        /\ api'.receipt <=> run[v].receipt
        /\ api'.status = api.status
    BY <1>1, <1>2, <1>3 DEF ReadReceipt, CallRow, ApiStep, A, Run
  <1>5. Serves("read_row", v, api.status, run[v], tasks[v].status)
    BY <1>2 DEF Serves
  <1>6. /\ ApiFrame /\ QueueFrame /\ UNCHANGED <<run, doc, purge, blocked>>
    BY DEF ReadReceipt
  <1>7. api'.pc \notin PurgeStep /\ ~Projecting(api'.pc) /\ api'.pc \notin Recovering
    BY <1>4 DEF PurgeStep, Projecting, Recovering
  <1> QED
    BY <1>1, <1>2, <1>4, <1>5, <1>6, <1>7, CallTurns

LEMMA ReadRowInv == AsyncInv /\ ReadRow => AsyncInv'
  <1> SUFFICES ASSUME AsyncInv, ReadRow PROVE AsyncInv'
    OBVIOUS
  <1>0. api.pc \in Plain /\ Calling("read_row")
    BY DEF ReadRow, Calling, Plain, ApiStep, PurgeStep
  <1>1. PICK v \in Session : v = A
    BY <1>0, CallFacts
  <1>2. /\ run[v].exists /\ ~Tombstone(v) /\ v \notin boot.todo /\ api \in CallRow
        /\ Serves("read_row", v, api.status, run[v], tasks[v].status)
        /\ api.receipt => run[v].receipt
    BY <1>0, <1>1, CallFacts DEF Calling
  <1>3. /\ Agrees(v) /\ run[v] \in Run /\ (SetRun(v, run[v]) <=> run' = run)
        /\ Answerable(v, run[v], tasks[v].status, tasks[v].max_retries)
    BY <1>2, LiveFacts
  <1>4. ApiFrame /\ UNCHANGED <<doc, purge, blocked>> /\ Rows
    BY DEF ReadRow, AsyncInv
  <1>5. ASSUME Exists(v), QueueFrame, UNCHANGED run,
               api' = [api EXCEPT !.pc = "promote", !.status = tasks[v].status]
        PROVE  AsyncInv'
    <2>1. tasks[v].status \in Status
      BY <1>4, RowOf
    <2>2. /\ api' \in CallRow /\ api'.pc = "promote" /\ api'.session = v
          /\ api'.receipt <=> api.receipt
          /\ api'.status = tasks[v].status
      BY <1>1, <1>2, <1>5, <2>1 DEF CallRow, ApiStep, A
    <2>3. /\ Serves("promote", v, tasks[v].status, run[v], tasks[v].status)
          /\ api'.pc \notin PurgeStep /\ ~Projecting(api'.pc) /\ api'.pc \notin Recovering
      BY <2>2 DEF Serves, PurgeStep, Projecting, Recovering
    <2> QED
      BY <1>1, <1>2, <1>4, <1>5, <2>2, <2>3, CallTurns
  <1>6. ASSUME ~Exists(v), api.receipt, Enqueue(v, v, 10, 3), UNCHANGED run,
               api' = [api EXCEPT !.pc = "promote", !.status = "pending"]
        PROVE  AsyncInv'
    <2>1. /\ Rows'
          /\ \A u \in Session : u # v => tasks'[u] = tasks[u]
          /\ tasks'[v].status = "pending" /\ tasks'[v].max_retries = 3
      BY <1>4, <1>6, Enqueues
    <2>2. /\ api' \in CallRow /\ api'.pc = "promote" /\ api'.session = v
          /\ api'.receipt <=> api.receipt
          /\ api'.status = "pending"
      BY <1>1, <1>2, <1>6 DEF CallRow, ApiStep, A, Status
    <2>3. /\ Serves("promote", v, "pending", run[v], "pending")
          /\ api'.pc \notin PurgeStep /\ ~Projecting(api'.pc) /\ api'.pc \notin Recovering
      BY <2>2 DEF Serves, PurgeStep, Projecting, Recovering
    <2>4. Answerable(v, run[v], "pending", 3)
      BY <1>2, <1>3, <1>6 DEF Answerable, Serves, Exists
    <2> QED
      BY <1>1, <1>2, <1>3, <1>4, <1>6, <2>1, <2>2, <2>3, <2>4, CallActs
  <1>7. ASSUME ~Exists(v), QueueFrame, CallEnds,
               IF CanClose(v, FALSE) THEN SetRun(v, ClosedRun(run[v], FALSE))
                                     ELSE UNCHANGED run
        PROVE  AsyncInv'
    BY <1>0, <1>1, <1>4, <1>7, CallCloseEnds DEF Exists
  <1> QED
    BY <1>1, <1>5, <1>6, <1>7 DEF ReadRow

LEMMA PromoteInv == AsyncInv /\ Promote => AsyncInv'
  <1> SUFFICES ASSUME AsyncInv, Promote PROVE AsyncInv'
    OBVIOUS
  <1>0. api.pc \in Plain /\ Calling("promote")
    BY DEF Promote, Calling, Plain, ApiStep, PurgeStep
  <1>1. PICK v \in Session : v = A
    BY <1>0, CallFacts
  <1>2. /\ run[v].exists /\ ~Tombstone(v) /\ v \notin boot.todo /\ api \in CallRow
        /\ Serves("promote", v, api.status, run[v], tasks[v].status)
        /\ api.receipt => run[v].receipt
    BY <1>0, <1>1, CallFacts DEF Calling
  <1>3. ApiFrame /\ QueueFrame /\ UNCHANGED <<doc, purge, blocked>>
    BY DEF Promote
  <1>4. CASE UNCHANGED run /\ CallEnds
    BY <1>0, <1>3, <1>4, CallQuits
  <1>5. ASSUME NEW r, CallGoesTo("decide"), SetRun(v, r), r.receipt <=> run[v].receipt,
               Answerable(v, r, tasks[v].status, tasks[v].max_retries)
        PROVE  AsyncInv'
    <2>1. /\ api' \in CallRow /\ api'.pc = "decide" /\ api'.session = v
          /\ api'.receipt <=> api.receipt
          /\ api'.status = api.status
      BY <1>1, <1>2, <1>5, CallGoes DEF ApiStep
    <2>2. /\ Serves("decide", v, api.status, r, tasks[v].status)
          /\ api'.pc \notin PurgeStep /\ ~Projecting(api'.pc) /\ api'.pc \notin Recovering
      BY <1>2, <2>1 DEF Serves, PurgeStep, Projecting, Recovering
    <2> QED
      BY <1>1, <1>2, <1>3, <1>5, <2>1, <2>2, CallSets
  <1>6. CASE UNCHANGED run /\ CallGoesTo("decide")
    BY <1>2, <1>5, <1>6, LiveFacts
  <1>7. CASE CanMarkEnqueued(v) /\ SetRun(v, EnqueuedRun(run[v])) /\ CallGoesTo("decide")
    BY <1>5, <1>7, CallMarks
  <1> QED
    BY <1>1, <1>4, <1>6, <1>7 DEF Promote

LEMMA DecideInv == AsyncInv /\ Decide => AsyncInv'
  <1> SUFFICES ASSUME AsyncInv, Decide PROVE AsyncInv'
    OBVIOUS
  <1>0. api.pc \in Plain /\ Calling("decide")
    BY DEF Decide, Calling, Plain, ApiStep, PurgeStep
  <1>1. PICK v \in Session : v = A
    BY <1>0, CallFacts
  <1>2. /\ run[v].exists /\ ~Tombstone(v) /\ v \notin boot.todo /\ api \in CallRow
        /\ Serves("decide", v, api.status, run[v], tasks[v].status)
        /\ api.receipt => run[v].receipt
    BY <1>0, <1>1, CallFacts DEF Calling
  <1>3. ApiFrame /\ QueueFrame /\ UNCHANGED <<doc, purge, blocked>>
    BY DEF Decide
  <1>4. CASE UNCHANGED run /\ CallEnds
    BY <1>0, <1>3, <1>4, CallQuits
  <1>5. CASE UNCHANGED run /\ CallGoesTo("recover_fts") /\ api.receipt
    <2>1. /\ api' \in CallRow /\ api'.pc = "recover_fts" /\ api'.session = v
          /\ api'.receipt /\ (api'.receipt <=> api.receipt)
          /\ api'.status = api.status
      BY <1>1, <1>2, <1>5, CallGoes DEF ApiStep
    <2>2. /\ Serves("recover_fts", v, api.status, run[v], tasks[v].status)
          /\ api'.pc \notin PurgeStep /\ ~Projecting(api'.pc)
      BY <2>1 DEF Serves, PurgeStep, Projecting
    <2> QED
      BY <1>1, <1>2, <1>3, <1>5, <2>1, <2>2, CallTurns
  <1>6. CASE api.status = "completed" /\ CallEnds
             /\ IF CanClose(A, TRUE) THEN SetRun(A, ClosedRun(run[A], TRUE)) ELSE UNCHANGED run
    <2>1. tasks[A].status = "completed"
      BY <1>1, <1>2, <1>6 DEF Serves
    <2> QED
      BY <1>0, <1>3, <1>6, <2>1, CallCloseEnds
  <1>7. CASE api.status = "failed" /\ CallEnds
             /\ IF CanClose(A, FALSE) THEN SetRun(A, ClosedRun(run[A], FALSE)) ELSE UNCHANGED run
    <2>1. tasks[A].status = "failed"
      BY <1>1, <1>2, <1>7 DEF Serves
    <2> QED
      BY <1>0, <1>3, <1>7, <2>1, CallCloseEnds
  <1>8. CASE api.status = "completed"
    BY <1>4, <1>5, <1>6, <1>8 DEF Decide
  <1>9. CASE api.status # "completed"
    BY <1>4, <1>5, <1>7, <1>9 DEF Decide
  <1> QED
    BY <1>8, <1>9

\* The recovery of a durable receipt: search, privacy, row, run.
LEMMA CallIndexingInv == AsyncInv /\ (RecoverIndex \/ BootIndexes) => AsyncInv'
  <1> SUFFICES ASSUME AsyncInv, RecoverIndex \/ BootIndexes PROVE AsyncInv'
    OBVIOUS
  <1>0. api.pc \in Plain
    BY DEF RecoverIndex, BootIndexes, Calling, Plain, ApiStep, PurgeStep
  <1>1. PICK v \in Session : v = A
    BY <1>0, CallFacts
  <1>2. /\ run[v].exists /\ ~Tombstone(v) /\ v \notin boot.todo /\ api \in CallRow
        /\ api.receipt => run[v].receipt
        /\ api.pc \in Recovering => api.receipt
    BY <1>0, <1>1, CallFacts
  <1>3. /\ run[v] \in Run /\ run \in [Session -> Run]
        /\ Answerable(v, run[v], tasks[v].status, tasks[v].max_retries)
    BY <1>2, LiveFacts DEF AsyncInv, Typed
  <1>4. ProjectSearch(v)
    BY <1>1 DEF RecoverIndex, BootIndexes
  <1>5. PICK r \in Run : /\ SetRun(v, r)
                         /\ r.async = run[v].async /\ r.projection = run[v].projection
                         /\ r.exists <=> run[v].exists
                         /\ r.receipt <=> run[v].receipt
                         /\ r.audio <=> run[v].audio
                         /\ r.provenance <=> run[v].provenance
    BY <1>3, <1>4, Indexes
  <1>6. Answerable(v, r, tasks[v].status, tasks[v].max_retries)
    BY <1>3, <1>5 DEF Answerable
  <1>7. ApiFrame /\ QueueFrame /\ UNCHANGED <<doc, purge, blocked>>
    BY DEF RecoverIndex, BootIndexes
  <1>8. CASE BootIndexes
    <2>1. api' \in CallRow /\ api'.pc = "idle" /\ api'.pc \notin PurgeStep /\ ~Projecting(api'.pc)
      BY <1>8, CallStops DEF BootIndexes, PurgeStep, Projecting
    <2> QED
      BY <1>1, <1>2, <1>5, <1>6, <1>7, <2>1, CallSets
  <1>9. CASE RecoverIndex
    <2>1. /\ api' \in CallRow /\ api'.pc = "recover_privacy" /\ api'.session = v
          /\ api'.receipt /\ (api'.receipt <=> api.receipt)
          /\ api'.status = api.status
      BY <1>1, <1>2, <1>9, CallGoes DEF RecoverIndex, ApiStep, Calling, Recovering
    <2>2. /\ Serves("recover_privacy", v, api.status, r, tasks[v].status)
          /\ api'.pc \notin PurgeStep /\ ~Projecting(api'.pc)
      BY <2>1 DEF Serves, PurgeStep, Projecting
    <2> QED
      BY <1>1, <1>2, <1>5, <1>6, <1>7, <2>1, <2>2, CallSets
  <1> QED
    BY <1>8, <1>9

LEMMA RecoverPrivacyInv == AsyncInv /\ RecoverPrivacy => AsyncInv'
  <1> SUFFICES ASSUME AsyncInv, RecoverPrivacy PROVE AsyncInv'
    OBVIOUS
  <1>0. api.pc \in Plain /\ Calling("recover_privacy")
    BY DEF RecoverPrivacy, Calling, Plain, ApiStep, PurgeStep
  <1>1. PICK v \in Session : v = A
    BY <1>0, CallFacts
  <1>2. /\ run[v].exists /\ ~Tombstone(v) /\ v \notin boot.todo /\ api \in CallRow
        /\ api.receipt /\ run[v].receipt
    BY <1>0, <1>1, CallFacts DEF Calling, Recovering
  <1>3. /\ run[v] \in Run /\ Answerable(v, run[v], tasks[v].status, tasks[v].max_retries)
    BY <1>2, LiveFacts
  <1>4. ApiFrame /\ QueueFrame /\ UNCHANGED <<doc, purge, blocked>>
    BY DEF RecoverPrivacy
  <1>5. CASE UNCHANGED run /\ CallEnds
    BY <1>0, <1>4, <1>5, CallQuits
  <1>6. CASE SetRun(A, CleanedRun(A)) /\ CallGoesTo("recover_complete")
    <2> DEFINE r == CleanedRun(v)
    <2>1. /\ r \in Run /\ r.async = run[v].async /\ r.projection = run[v].projection
          /\ r.exists <=> run[v].exists
          /\ r.receipt <=> run[v].receipt
          /\ r.provenance <=> run[v].provenance
          /\ r.audio => run[v].audio
          /\ v \in Private => ~r.audio
      BY <1>3, Cleans
    <2>2. SetRun(v, r)
      BY <1>1, <1>6
    <2> HIDE DEF r
    <2>3. Answerable(v, r, tasks[v].status, tasks[v].max_retries)
      BY <1>3, <2>1 DEF Answerable
    <2>4. /\ api' \in CallRow /\ api'.pc = "recover_complete" /\ api'.session = v
          /\ api'.receipt /\ api'.status = api.status
      BY <1>1, <1>2, <1>6, CallGoes DEF ApiStep
    <2>5. /\ Serves("recover_complete", v, api.status, r, tasks[v].status)
          /\ api'.pc \notin PurgeStep /\ ~Projecting(api'.pc)
      BY <2>1, <2>4 DEF Serves, PurgeStep, Projecting
    <2> QED
      BY <1>1, <1>2, <1>4, <2>1, <2>2, <2>3, <2>4, <2>5, CallSets
  <1> QED
    BY <1>5, <1>6 DEF RecoverPrivacy

LEMMA RecoverCompleteInv == AsyncInv /\ RecoverComplete => AsyncInv'
  <1> SUFFICES ASSUME AsyncInv, RecoverComplete PROVE AsyncInv'
    OBVIOUS
  <1>0. api.pc \in Plain /\ Calling("recover_complete")
    BY DEF RecoverComplete, Calling, Plain, ApiStep, PurgeStep
  <1>1. PICK v \in Session : v = A
    BY <1>0, CallFacts
  <1>2. /\ run[v].exists /\ ~Tombstone(v) /\ v \notin boot.todo /\ api \in CallRow
        /\ api.receipt /\ run[v].receipt
        /\ Serves("recover_complete", v, api.status, run[v], tasks[v].status)
    BY <1>0, <1>1, CallFacts DEF Calling, Recovering
  <1>3. /\ run[v] \in Run /\ (SetRun(v, run[v]) <=> run' = run) /\ Rows
        /\ Answerable(v, run[v], tasks[v].status, tasks[v].max_retries)
    BY <1>2, LiveFacts DEF AsyncInv
  <1>4. ApiFrame /\ UNCHANGED <<run, doc, purge, blocked>>
    BY DEF RecoverComplete
  <1>5. CASE ~Exists(v)
    <2>1. QueueFrame /\ CallEnds
      BY <1>1, <1>5 DEF RecoverComplete, Exists
    <2> QED
      BY <1>0, <1>4, <2>1, CallQuits
  <1>6. CASE Exists(v)
    <2>1. CallGoesTo("recover_mark") /\ (\/ QueueFrame /\ tasks[v].status = "completed"
                                         \/ CompleteFromDurableProviderReceipt(v))
      BY <1>1, <1>6 DEF RecoverComplete, Exists
    <2>2. /\ Rows' /\ \A u \in Session : u # v => tasks'[u] = tasks[u]
          /\ tasks'[v].status = "completed" /\ tasks'[v].max_retries = tasks[v].max_retries
      BY <1>3, <2>1, Closes, FrameRows DEF Sets
    <2>3. Answerable(v, run[v], "completed", tasks[v].max_retries)
      BY <1>2, <1>3 DEF Answerable, Serves
    <2>4. /\ api' \in CallRow /\ api'.pc = "recover_mark" /\ api'.session = v
          /\ api'.receipt /\ api'.status = api.status
      BY <1>1, <1>2, <2>1, CallGoes DEF ApiStep
    <2>5. /\ Serves("recover_mark", v, api.status, run[v], "completed")
          /\ api'.pc \notin PurgeStep /\ ~Projecting(api'.pc)
      BY <2>4 DEF Serves, PurgeStep, Projecting
    <2> QED
      BY <1>1, <1>2, <1>3, <1>4, <2>2, <2>3, <2>4, <2>5, CallActs
  <1> QED
    BY <1>5, <1>6

LEMMA RecoverMarkInv == AsyncInv /\ RecoverMark => AsyncInv'
  <1> SUFFICES ASSUME AsyncInv, RecoverMark PROVE AsyncInv'
    OBVIOUS
  <1>0. api.pc \in Plain /\ Calling("recover_mark")
    BY DEF RecoverMark, Calling, Plain, ApiStep, PurgeStep
  <1>1. tasks[A].status = "completed"
    BY <1>0, CallFacts DEF Serves, Calling
  <1> QED
    BY <1>0, <1>1, CallCloseEnds DEF RecoverMark

\* The projection, by a call.
LEMMA CallReprojects ==
    ASSUME AsyncInv, ApiFrame, QueueFrame, UNCHANGED <<purge, blocked>>,
           NEW v \in Session, run[v].exists, ~Tombstone(v), v \notin boot.todo,
           ~Calling("idle") => A = v,
           NEW state \in ProjectionState,
           run[v].async = "completed", ~(Projecting(worker.pc) /\ W = v),
           SetRun(v, [run[v] EXCEPT !.projection = state]),
           doc' = doc \/ doc' = doc \cup {v},
           api' \in CallRow, api'.pc \in {"idle", "project", "write", "publish"},
           api'.pc # "idle" => api'.session = v /\ (api'.receipt => run[v].receipt),
           Projecting(api'.pc) => state = "projecting"
    PROVE  AsyncInv'
  <1>1. run[v] \in Run /\ Answerable(v, run[v], tasks[v].status, tasks[v].max_retries)
    BY LiveFacts
  <1>2. PICK r \in Run : /\ r = [run[v] EXCEPT !.projection = state]
                         /\ r.async = run[v].async /\ r.projection = state
                         /\ r.exists <=> run[v].exists
                         /\ r.receipt <=> run[v].receipt
                         /\ r.provenance <=> run[v].provenance
                         /\ r.audio <=> run[v].audio
    BY <1>1, Reprojects
  <1>3. SetRun(v, r) /\ Answerable(v, r, tasks[v].status, tasks[v].max_retries)
    BY <1>1, <1>2 DEF Answerable
  <1>4. /\ api'.pc \notin PurgeStep /\ api'.pc \notin Recovering
        /\ api'.pc # "idle" => Serves(api'.pc, v, api'.status, r, tasks[v].status)
    BY DEF PurgeStep, Recovering, Serves
  <1> QED
    BY <1>2, <1>3, <1>4, CallSets

LEMMA CallProjectionInv ==
    AsyncInv /\ (CallProjects \/ CallWrites \/ CallPublishes) => AsyncInv'
  <1> SUFFICES ASSUME AsyncInv, CallProjects \/ CallWrites \/ CallPublishes
               PROVE  AsyncInv'
    OBVIOUS
  <1>0. api.pc \in Plain
    BY DEF CallProjects, CallWrites, CallPublishes, Calling, Plain, ApiStep, PurgeStep
  <1>1. PICK v \in Session : v = A
    BY <1>0, CallFacts
  <1>2. /\ run[v].exists /\ ~Tombstone(v) /\ v \notin boot.todo /\ api \in CallRow
        /\ api.receipt => run[v].receipt
    BY <1>0, <1>1, CallFacts
  <1>3. /\ run[v] \in Run /\ run \in [Session -> Run] /\ Agrees(v) /\ ProjectingOK
        /\ Projecting(worker.pc) /\ W = v => run[v].projection = "projecting"
    BY <1>2, LiveFacts DEF AsyncInv, ActorsOK, Typed
  <1>4. ApiFrame /\ QueueFrame /\ UNCHANGED <<purge, blocked>>
    BY DEF CallProjects, CallWrites, CallPublishes
  <1>5. ASSUME NEW pc \in {"idle", "write", "publish"}, CallGoesTo(pc) \/ (CallEnds /\ pc = "idle")
        PROVE  /\ api' \in CallRow /\ api'.pc = pc
               /\ api'.pc \in {"idle", "project", "write", "publish"}
               /\ api'.pc # "idle" => api'.session = v /\ (api'.receipt => run[v].receipt)
    <2>1. CASE CallEnds /\ pc = "idle"
      BY <2>1, CallStops
    <2>2. CASE CallGoesTo(pc)
      BY <1>1, <1>2, <2>2, CallGoes DEF ApiStep
    <2> QED
      BY <1>5, <2>1, <2>2
  <1>6. CASE CallProjects /\ ~CanProject(v)
    BY <1>0, <1>1, <1>4, <1>6, CallQuits DEF CallProjects
  <1>7. CASE CallProjects /\ CanProject(v)
    <2>1. /\ SetRun(v, [run[v] EXCEPT !.projection = "projecting"])
          /\ CallGoesTo("write") /\ doc' = doc
          /\ run[v].async = "completed" /\ run[v].projection = "pending"
      BY <1>1, <1>7 DEF CallProjects, CanProject, BeginProjection
    <2> QED
      BY <1>1, <1>2, <1>3, <1>4, <1>5, <2>1, CallReprojects DEF ProjectionState, Projecting
  <1>8. CASE CallWrites \/ CallPublishes
    <2>1. /\ run[v].projection = "projecting" /\ run[v].async = "completed"
          /\ ~(Projecting(worker.pc) /\ W = v)
      BY <1>1, <1>3, <1>8 DEF CallWrites, CallPublishes, Calling, ProjectingOK, Projecting, Agrees
    <2>2. CASE CallPublishes
      <3>1. /\ SetRun(v, [run[v] EXCEPT !.projection = IF Tombstone(v) THEN "failed" ELSE "ready"])
            /\ CallEnds /\ doc' = doc
        BY <1>1, <2>2 DEF CallPublishes, PublishProjection
      <3> QED
        BY <1>1, <1>2, <1>4, <1>5, <2>1, <3>1, CallReprojects DEF ProjectionState, Projecting
    <2>3. CASE CallWrites /\ DocumentFails(v) /\ CallEnds
      BY <1>1, <1>2, <1>4, <1>5, <2>1, <2>3, CallReprojects
         DEF ProjectionState, Projecting, DocumentFails
    <2>4. CASE CallWrites /\ DocumentWritten(v) /\ CallGoesTo("publish")
      <3>1. run[v] = [run[v] EXCEPT !.projection = "projecting"]
        BY <1>3, <2>1 DEF Run
      <3>2. run' = [run EXCEPT ![v] = run[v]]
        BY <1>3, <2>4 DEF DocumentWritten
      <3>3. SetRun(v, [run[v] EXCEPT !.projection = "projecting"]) /\ doc' = doc \cup {v}
        BY <2>4, <3>1, <3>2 DEF SetRun, DocumentWritten
      <3> QED
        BY <1>1, <1>2, <1>4, <1>5, <2>1, <2>4, <3>3, CallReprojects
           DEF ProjectionState, Projecting
    <2> QED
      BY <1>1, <1>8, <2>2, <2>3, <2>4 DEF CallWrites
  <1> QED
    BY <1>6, <1>7, <1>8

-----------------------------------------------------------------------------
(* The steps that begin a call.                                              *)

LEMMA EnsureCall ==
    ASSUME NEW s \in Session, NEW state \in AsyncState, api' = EnsureFrom(s, state)
    PROVE  /\ api' \in CallRow /\ api'.session = s /\ ~api'.receipt
           /\ api'.pc = IF state = "pending" THEN "reserve" ELSE "read_receipt"
  BY DEF EnsureFrom, NoCall, CallRow, ApiStep, AsyncState, Status

LEMMA RequestInv ==
    ASSUME AsyncInv, NEW s \in Session, Request(s)
    PROVE  AsyncInv'
  <1>0. /\ boot.phase = "running" /\ Calling("idle") /\ run[s].exists /\ ~Tombstone(s)
        /\ ApiFrame /\ QueueFrame /\ UNCHANGED <<doc, purge, blocked>>
        /\ run[s].async \in {"none", "pending", "reserved", "enqueued"}
    BY DEF Request, MayAuthorize, Serving
  <1>1. s \notin boot.todo
    BY <1>0 DEF AsyncInv, ActorsOK, BootOK
  <1>2. /\ Agrees(s) /\ run[s] \in Run
        /\ Projecting(worker.pc) /\ W = s => run[s].projection = "projecting"
        /\ Answerable(s, run[s], tasks[s].status, tasks[s].max_retries)
    BY <1>0, LiveFacts
  <1> DEFINE state == IF run[s].async = "none" THEN "pending" ELSE run[s].async
             r == [run[s] EXCEPT !.async = state]
  <1>3. /\ state \in {"pending", "reserved", "enqueued"}
        /\ state = "pending" => run[s].async \in {"none", "pending"}
        /\ state # "pending" => run[s].async = state
    BY <1>0
  <1>4. SetRun(s, r) /\ api' = EnsureFrom(s, state)
    BY DEF Request
  <1> HIDE DEF state
  <1>5. /\ r \in Run /\ r.async = state /\ r.projection = run[s].projection
        /\ r.exists <=> run[s].exists
        /\ r.receipt <=> run[s].receipt
        /\ r.provenance <=> run[s].provenance
        /\ r.audio <=> run[s].audio
    BY <1>2, <1>3 DEF Run, AsyncState
  <1> HIDE DEF r
  <1>6. /\ api' \in CallRow /\ api'.session = s /\ ~api'.receipt
        /\ api'.pc = IF state = "pending" THEN "reserve" ELSE "read_receipt"
    BY <1>3, <1>4, EnsureCall DEF AsyncState
  <1>7. run[s].projection = "none"
    BY <1>0, <1>2 DEF Agrees
  <1>8. Answerable(s, r, tasks[s].status, tasks[s].max_retries)
    BY <1>2, <1>3, <1>5, <1>7 DEF Answerable, Agrees
  <1>9. /\ api'.pc \notin PurgeStep /\ ~Projecting(api'.pc) /\ api'.pc \notin Recovering
        /\ Serves(api'.pc, s, api'.status, r, tasks[s].status)
    BY <1>3, <1>5, <1>6 DEF PurgeStep, Projecting, Recovering, Serves
  <1> QED
    BY <1>0, <1>1, <1>4, <1>6, <1>8, <1>9, CallSets

\* A call that begins at pc, and has read nothing.
LEMMA FreshCall ==
    ASSUME NEW s \in Session, NEW pc \in ApiStep,
           api' = [NoCall EXCEPT !.pc = pc, !.session = s]
    PROVE  api' \in CallRow /\ api'.pc = pc /\ api'.session = s /\ ~api'.receipt
  BY DEF NoCall, CallRow, AsyncState, Status

LEMMA RetryProjectionInv ==
    ASSUME AsyncInv, NEW s \in Session, RetryProjection(s)
    PROVE  AsyncInv'
  <1>0. /\ boot.phase = "running" /\ Calling("idle") /\ run[s].exists /\ ~Tombstone(s)
        /\ ApiFrame /\ QueueFrame /\ UNCHANGED <<doc, purge, blocked>>
        /\ run[s].projection \in {"failed", "pending"}
        /\ SetRun(s, [run[s] EXCEPT !.projection = "pending"])
        /\ api' = [NoCall EXCEPT !.pc = "project", !.session = s]
    BY DEF RetryProjection, Serving
  <1>1. s \notin boot.todo
    BY <1>0 DEF AsyncInv, ActorsOK, BootOK
  <1>2. /\ run[s].async = "completed" /\ ~(Projecting(worker.pc) /\ W = s)
    BY <1>0, LiveFacts DEF Agrees
  <1>3. api' \in CallRow /\ api'.pc = "project" /\ api'.session = s /\ ~api'.receipt
    BY <1>0, FreshCall DEF ApiStep
  <1> QED
    BY <1>0, <1>1, <1>2, <1>3, CallReprojects DEF ProjectionState, Projecting

-----------------------------------------------------------------------------
(* Delete Forever.                                                           *)

\* The session's stores change only when no handler of it is left.
LEMMA PurgeActs ==
    ASSUME AsyncInv, UNCHANGED <<boot, uploads, crashes>>,
           NEW v \in Session, v \notin boot.todo, ~Calling("idle") => A = v, Elsewise(v),
           Typed', Rows', blocked' = blocked \/ blocked' = blocked \cup {v},
           worker'.pc = worker.pc, worker'.session = W, worker'.result = worker.result,
           worker'.registered <=> worker.registered,
           worker'.cancelled => worker.cancelled \/ (W = v /\ v \in blocked'),
           \/ run'[v] = run[v] /\ tasks'[v].status = tasks[v].status
           \/ ~Holds(v) /\ v \in blocked,
           api'.pc \in PurgeStep \cup {"idle"}, api'.pc # "idle" => api'.session = v,
           PurgeOK', SessionOK(v)',
           \A s \in Session : s # v => SessionOK(s)'
    PROVE  AsyncInv'
  <1>1. /\ WorkerOK /\ HandlerOK /\ ProjectingOK
        /\ boot' = boot /\ blocked \subseteq blocked'
    BY DEF AsyncInv, ActorsOK
  <1>2. W \in Session =>
           \/ run'[W] = run[W] /\ tasks'[W].status = tasks[W].status
           \/ ~worker.registered /\ W \in blocked
    BY DEF Elsewise, Holds
  <1>3. WorkerOK'
    BY <1>1, <1>2 DEF WorkerOK, At, W
  <1>4. HandlerOK'
    <2>1. /\ Fits(worker.pc, W, run[W], tasks[W].status, worker.result)
          /\ worker.pc \in Handling \cup {"fts", "finalize", "complete"}
                => W \in Session /\ worker.registered
          /\ worker.result = "ok" => W \in Session /\ worker.registered
      BY <1>1 DEF HandlerOK, WorkerOK, At, Handling, Owned, WorkerStep
    <2>2. Fits(worker.pc, W, run'[W], tasks'[W].status, worker.result)
      <3>1. CASE W \in Session /\ worker.registered
        <4>1. run'[W] = run[W] /\ tasks'[W].status = tasks[W].status
          BY <1>2, <3>1
        <4> QED
          BY <2>1, <4>1
      <3>2. CASE ~(W \in Session /\ worker.registered)
        BY <2>1, <3>2 DEF Fits, Handling
      <3> QED
        BY <3>1, <3>2
    <2> QED
      BY <2>2 DEF HandlerOK, W
  <1>5. CallOK'
    <2>1. api'.pc # "idle" => api'.session = v /\ api'.pc \in PurgeStep /\ ~api'.receipt
      BY DEF PurgeOK
    <2>2. api'.pc \in PurgeStep =>
             /\ api'.pc \notin Recovering
             /\ Serves(api'.pc, v, api'.status, run'[v], tasks'[v].status)
      BY DEF Serves, PurgeStep, Recovering
    <2> QED
      BY <1>1, <2>1, <2>2 DEF CallOK, Calling, A
  <1>6. ProjectingOK'
    <2>1. Projecting(worker.pc) => worker.registered /\ W \in Session
      BY <1>1 DEF WorkerOK, Projecting, Owned, WorkerStep
    <2>2. ~Projecting(api'.pc)
      BY DEF Projecting, PurgeStep
    <2> QED
      BY <1>1, <1>2, <2>1, <2>2 DEF ProjectingOK, W
  <1>7. BootOK'
    BY <1>1 DEF AsyncInv, ActorsOK, BootOK, Elsewise, Tombstone, Typed, BootRow
  <1>8. \A s \in Session : SessionOK(s)'
    OBVIOUS
  <1> QED
    BY <1>3, <1>4, <1>5, <1>6, <1>7, <1>8 DEF AsyncInv, ActorsOK

LEMMA PurgeFacts ==
    ASSUME AsyncInv, api.pc \in PurgeStep
    PROVE  /\ A \in Session /\ A \notin boot.todo /\ Tombstone(A) /\ ~api.receipt
           /\ api.pc # "block" => A \in blocked
           /\ api.pc \in Erasing => ~Holds(A)
           /\ api.pc \in {"effect", "advance"} => purge[A] < LastPhase
           /\ Calling("finish") => purge[A] = LastPhase
           /\ api \in CallRow /\ purge[A] \in 0..LastPhase
           /\ SessionOK(A) /\ run[A] \in Run /\ ~Calling("idle")
  <1>1. /\ A \in Session /\ A \notin boot.todo /\ Tombstone(A) /\ ~api.receipt
        /\ api.pc # "block" => A \in blocked
        /\ api.pc \in Erasing => ~Holds(A)
        /\ api.pc \in {"effect", "advance"} => purge[A] < LastPhase
        /\ Calling("finish") => purge[A] = LastPhase
    BY DEF AsyncInv, ActorsOK, CallOK, PurgeOK, Calling, PurgeStep
  <1>2. api \in CallRow /\ purge[A] \in NoPurge..LastPhase /\ run[A] \in Run
    BY <1>1 DEF AsyncInv, Typed
  <1>3. purge[A] \in 0..LastPhase
    BY <1>1, <1>2 DEF Tombstone, NoPurge, LastPhase
  <1>4. SessionOK(A)
    BY <1>1 DEF AsyncInv
  <1>5. ~Calling("idle")
    BY DEF Calling, PurgeStep
  <1> QED
    BY <1>1, <1>2, <1>3, <1>4, <1>5

\* A purge step that writes none of the session's stores.
LEMMA PurgeTurns ==
    ASSUME AsyncInv, UNCHANGED <<boot, uploads, crashes, run, doc>>, QueueFrame,
           NEW v \in Session, v \notin boot.todo, ~Calling("idle") => A = v,
           purge' \in [Session -> NoPurge..LastPhase],
           \A s \in Session : s # v => purge'[s] = purge[s],
           blocked' = blocked \/ blocked' = blocked \cup {v},
           worker' = worker \/ (W = v /\ v \in blocked' /\ worker' = [worker EXCEPT !.cancelled = TRUE]),
           api' \in CallRow,
           api'.pc \in PurgeStep \cup {"idle"}, api'.pc # "idle" => api'.session = v,
           PurgeOK', Blocks(v)', Gone(v)',
           Tombstone(v)' \/ ~run[v].exists
    PROVE  AsyncInv'
  <1>1. /\ run' = run /\ doc' = doc /\ uploads' = uploads /\ crashes' = crashes /\ boot' = boot
        /\ tasks' = tasks /\ Rows' /\ worker \in WorkerRow /\ blocked \subseteq Session
    BY FrameRows DEF AsyncInv, Typed
  <1>2. Elsewise(v)
    BY <1>1 DEF Elsewise
  <1>3. /\ worker' \in WorkerRow
        /\ worker'.pc = worker.pc /\ worker'.session = W /\ worker'.result = worker.result
        /\ worker'.registered <=> worker.registered
        /\ worker'.cancelled => worker.cancelled \/ (W = v /\ v \in blocked')
    <2>1. CASE worker' = worker
      BY <1>1, <2>1 DEF W
    <2>2. CASE W = v /\ v \in blocked' /\ worker' = [worker EXCEPT !.cancelled = TRUE]
      BY <1>1, <2>2 DEF WorkerRow, W
    <2> QED
      BY <2>1, <2>2
  <1>4. Typed'
    BY <1>1, <1>3 DEF AsyncInv, Typed
  <1>5. SessionOK(v)
    BY DEF AsyncInv
  <1>6. Agrees(v)' /\ Counted(v)'
    <2>1. Agrees(v)'
      BY <1>1, <1>5 DEF SessionOK, Agrees, Gone, ErasedRun, StoppedRun, Tombstone, Exists
    <2>2. Spent(v)'
      BY <1>1 DEF Spent
    <2> QED
      BY <1>1, <1>5, <2>1, <2>2, AsyncAssumption DEF SessionOK, Counted, AsyncInv, Typed
  <1>7. SessionOK(v)'
    BY <1>6 DEF SessionOK
  <1>8. ASSUME NEW s \in Session, s # v
        PROVE  SessionOK(s)'
    <2>1. SessionOK(s)
      BY DEF AsyncInv
    <2>2. Agrees(s)'
      BY <1>1, <1>8, <2>1 DEF SessionOK, Agrees, Tombstone, Exists
    <2>3. Blocks(s)'
      BY <1>1, <1>3, <1>8, <2>1 DEF SessionOK, Blocks, Tombstone, Calling, A, Holds, W
    <2>4. Gone(s)'
      BY <1>1, <1>3, <1>8, <2>1 DEF SessionOK, Gone, Reached, Tombstone, Calling, A, Holds, W, Exists
    <2>5. Counted(s)'
      BY <1>1, <1>3, <1>8, <2>1 DEF SessionOK, Counted, Spent, Tombstone, W
    <2> QED
      BY <2>2, <2>3, <2>4, <2>5 DEF SessionOK
  <1> QED
    BY <1>1, <1>2, <1>3, <1>4, <1>7, <1>8, PurgeActs

LEMMA BeginPurgeInv ==
    ASSUME AsyncInv, NEW s \in Session, BeginPurge(s)
    PROVE  AsyncInv'
  <1>0. /\ boot.phase = "running" /\ Calling("idle") /\ ApiFrame /\ QueueFrame
        /\ UNCHANGED <<run, doc, blocked>> /\ api' = PurgeCall(s)
        /\ purge' = [purge EXCEPT ![s] = IF Tombstone(s) THEN @ ELSE 0]
    BY DEF BeginPurge, Serving
  <1>1. /\ s \notin boot.todo /\ SessionOK(s) /\ purge \in [Session -> NoPurge..LastPhase]
    BY <1>0 DEF AsyncInv, ActorsOK, BootOK, Typed
  <1>2. /\ purge'[s] = IF Tombstone(s) THEN purge[s] ELSE 0
        /\ \A u \in Session : u # s => purge'[u] = purge[u]
        /\ purge' \in [Session -> NoPurge..LastPhase]
    BY <1>0, <1>1 DEF NoPurge, LastPhase
  <1>3. Tombstone(s)'
    BY <1>2 DEF Tombstone, NoPurge
  <1>4. api' \in CallRow /\ api'.pc = "block" /\ api'.session = s /\ ~api'.receipt
    BY <1>0, FreshCall DEF PurgeCall, ApiStep
  <1>5. PurgeOK'
    BY <1>3, <1>4 DEF PurgeOK, A, Erasing, Calling
  <1>6. Blocks(s)'
    <2>1. Tombstone(s) => s \in blocked
      BY <1>0, <1>1 DEF SessionOK, Blocks, Calling
    <2>2. purge'[s] >= 1 => ~Holds(s)
      BY <1>1, <1>2 DEF SessionOK, Blocks
    <2> QED
      BY <1>0, <1>2, <1>3, <1>4, <2>1, <2>2 DEF Blocks, Calling, A, ApiFrame, Holds, W
  <1>7. Gone(s)'
    <2>1. Reached(s) = purge[s] /\ Gone(s)
      BY <1>0, <1>1 DEF Reached, Calling, SessionOK
    <2>2. Reached(s)' = IF Tombstone(s) THEN purge[s] ELSE 0
      BY <1>2, <1>4 DEF Reached, Calling, A
    <2> QED
      BY <1>0, <2>1, <2>2 DEF Gone, QueueFrame, queueVars, ApiFrame, Exists, Holds, W
  <1>8. /\ UNCHANGED <<boot, uploads, crashes, run, doc>> /\ worker' = worker
        /\ api'.pc \in PurgeStep \cup {"idle"} /\ blocked' = blocked
    BY <1>0, <1>4 DEF ApiFrame, PurgeStep
  <1> QED
    BY <1>0, <1>1, <1>2, <1>3, <1>4, <1>5, <1>6, <1>7, <1>8, PurgeTurns

LEMMA BlockAndCancelInv == AsyncInv /\ BlockAndCancel => AsyncInv'
  <1> SUFFICES ASSUME AsyncInv, BlockAndCancel PROVE AsyncInv'
    OBVIOUS
  <1>0. /\ Calling("block") /\ api.pc \in PurgeStep /\ QueueFrame
        /\ UNCHANGED <<run, doc, purge, boot, uploads, crashes>>
        /\ blocked' = blocked \cup {A} /\ CallGoesTo("wait")
    BY DEF BlockAndCancel, Calling, PurgeStep
  <1>1. PICK v \in Session : v = A
    BY <1>0, PurgeFacts
  <1>2. /\ v \notin boot.todo /\ Tombstone(v) /\ ~api.receipt /\ api \in CallRow /\ SessionOK(v)
        /\ purge \in [Session -> NoPurge..LastPhase]
    BY <1>0, <1>1, PurgeFacts DEF AsyncInv, Typed
  <1>3. api' \in CallRow /\ api'.pc = "wait" /\ api'.session = v /\ ~api'.receipt
    BY <1>0, <1>1, <1>2, CallGoes DEF ApiStep
  <1>4. \/ worker' = worker
        \/ W = v /\ v \in blocked' /\ worker' = [worker EXCEPT !.cancelled = TRUE]
    BY <1>0, <1>1 DEF BlockAndCancel, Holds
  <1>5. Holds(v)' <=> Holds(v)
    BY <1>4 DEF Holds, W, AsyncInv, Typed, WorkerRow
  <1>6. Tombstone(v)'
    BY <1>0, <1>2 DEF Tombstone
  <1>7. PurgeOK'
    BY <1>0, <1>1, <1>3, <1>6 DEF PurgeOK, A, Erasing, Calling
  <1>8. Blocks(v)'
    BY <1>0, <1>1, <1>2, <1>5, <1>6 DEF SessionOK, Blocks
  <1>9. Gone(v)'
    <2>1. Reached(v)' = Reached(v)
      BY <1>0, <1>3 DEF Reached, Calling
    <2> QED
      BY <1>0, <1>2, <1>5, <2>1 DEF SessionOK, Gone, QueueFrame, queueVars, Exists
  <1>10. api'.pc \in PurgeStep \cup {"idle"}
    BY <1>3 DEF PurgeStep
  <1>11. blocked' = blocked \cup {v} /\ purge' = purge
    BY <1>0, <1>1
  <1> QED
    BY <1>0, <1>1, <1>2, <1>3, <1>4, <1>6, <1>7, <1>8, <1>9, <1>10, <1>11, PurgeTurns

\* A step of the saga that leaves every store as it is.
LEMMA SagaTurnsInv == AsyncInv /\ (HandlersStopped \/ WaitTimesOut \/ PurgeFails) => AsyncInv'
  <1> SUFFICES ASSUME AsyncInv, HandlersStopped \/ WaitTimesOut \/ PurgeFails PROVE AsyncInv'
    OBVIOUS
  <1>0. /\ api.pc \in PurgeStep \ {"block"} /\ QueueFrame /\ ApiFrame
        /\ UNCHANGED <<run, doc, purge, blocked>> /\ ~Calling("advance")
    BY DEF HandlersStopped, WaitTimesOut, PurgeFails, Calling, PurgeStep
  <1>1. PICK v \in Session : v = A
    BY <1>0, PurgeFacts
  <1>2. /\ v \notin boot.todo /\ Tombstone(v) /\ ~api.receipt /\ api \in CallRow /\ SessionOK(v)
        /\ v \in blocked /\ purge[v] \in 0..LastPhase
        /\ purge \in [Session -> NoPurge..LastPhase]
    BY <1>0, <1>1, PurgeFacts DEF AsyncInv, Typed
  <1>3. /\ api' \in CallRow /\ api'.pc \in {"idle", "finish", "effect"}
        /\ api'.pc # "idle" => api'.session = v /\ ~api'.receipt /\ ~Holds(v)
        /\ api'.pc = "finish" => purge[v] = LastPhase
        /\ api'.pc = "effect" => purge[v] < LastPhase
    <2>1. CASE WaitTimesOut \/ PurgeFails
      BY <2>1, CallStops DEF WaitTimesOut, PurgeFails
    <2>2. CASE HandlersStopped
      <3>1. PICK pc \in {"finish", "effect"} :
               /\ CallGoesTo(pc) /\ ~Holds(v)
               /\ pc = "finish" => purge[v] = LastPhase
               /\ pc = "effect" => purge[v] # LastPhase
        BY <1>1, <2>2 DEF HandlersStopped
      <3>2. api' \in CallRow /\ api'.pc = pc /\ api'.session = v /\ ~api'.receipt
        BY <1>1, <1>2, <3>1, CallGoes DEF ApiStep
      <3>3. purge[v] # LastPhase => purge[v] < LastPhase
        BY <1>2 DEF LastPhase
      <3> QED
        BY <3>1, <3>2, <3>3
    <2> QED
      BY <2>1, <2>2
  <1>4. /\ worker' = worker /\ boot' = boot /\ UNCHANGED <<boot, uploads, crashes, run, doc>>
    BY <1>0 DEF ApiFrame
  <1>5. Tombstone(v)'
    BY <1>0, <1>2 DEF Tombstone
  <1>6. PurgeOK'
    BY <1>0, <1>2, <1>3, <1>4, <1>5 DEF PurgeOK, A, Erasing, Calling, Holds, W, PurgeStep
  <1>7. Blocks(v)'
    BY <1>0, <1>2, <1>4, <1>5 DEF SessionOK, Blocks, Holds, W
  <1>8. Gone(v)'
    <2>1. Reached(v)' = Reached(v)
      BY <1>0, <1>3 DEF Reached, Calling
    <2> QED
      BY <1>0, <1>2, <1>4, <2>1 DEF SessionOK, Gone, QueueFrame, queueVars, Exists, Holds, W
  <1>9. api'.pc \in PurgeStep \cup {"idle"}
    BY <1>3 DEF PurgeStep
  <1> QED
    BY <1>0, <1>1, <1>2, <1>3, <1>4, <1>5, <1>6, <1>7, <1>8, <1>9, PurgeTurns

LEMMA PurgeAdvancesInv == AsyncInv /\ PurgeAdvances => AsyncInv'
  <1> SUFFICES ASSUME AsyncInv, PurgeAdvances PROVE AsyncInv'
    OBVIOUS
  <1>0. /\ Calling("advance") /\ api.pc \in PurgeStep /\ QueueFrame /\ ApiFrame
        /\ UNCHANGED <<run, doc, blocked>>
        /\ purge' = [purge EXCEPT ![A] = @ + 1]
        /\ CallGoesTo(IF purge[A] + 1 = LastPhase THEN "finish" ELSE "effect")
    BY DEF PurgeAdvances, Calling, PurgeStep
  <1>1. PICK v \in Session : v = A
    BY <1>0, PurgeFacts
  <1>2. /\ v \notin boot.todo /\ Tombstone(v) /\ ~api.receipt /\ api \in CallRow /\ SessionOK(v)
        /\ v \in blocked /\ ~Holds(v) /\ purge[v] \in 0..LastPhase /\ purge[v] < LastPhase
        /\ purge \in [Session -> NoPurge..LastPhase]
    BY <1>0, <1>1, PurgeFacts DEF AsyncInv, Typed, Erasing, Calling
  <1>3. /\ purge'[v] = purge[v] + 1 /\ \A s \in Session : s # v => purge'[s] = purge[s]
        /\ purge'[v] \in 1..LastPhase
        /\ purge' \in [Session -> NoPurge..LastPhase]
    <2>1. purge[v] + 1 \in 1..LastPhase
      BY <1>2 DEF LastPhase
    <2>2. 1..LastPhase \subseteq NoPurge..LastPhase
      BY DEF LastPhase, NoPurge
    <2> QED
      BY <1>0, <1>1, <1>2, <2>1, <2>2
  <1>4. PICK pc \in {"finish", "effect"} :
           /\ CallGoesTo(pc)
           /\ pc = "finish" => purge[v] + 1 = LastPhase
           /\ pc = "effect" => purge[v] + 1 # LastPhase
    BY <1>0, <1>1
  <1>5. /\ api' \in CallRow /\ api'.pc = pc /\ api'.session = v /\ ~api'.receipt
    BY <1>1, <1>2, <1>4, CallGoes DEF ApiStep
  <1>6. worker' = worker /\ boot' = boot /\ UNCHANGED <<boot, uploads, crashes, run, doc>>
    BY <1>0 DEF ApiFrame
  <1>7. Tombstone(v)'
    BY <1>3 DEF Tombstone, NoPurge
  <1>8. PurgeOK'
    <2>1. pc = "effect" => purge'[v] < LastPhase
      BY <1>3, <1>4 DEF LastPhase
    <2> QED
      BY <1>0, <1>2, <1>3, <1>4, <1>5, <1>6, <1>7, <2>1
         DEF PurgeOK, A, Erasing, Calling, Holds, W, PurgeStep
  <1>9. Blocks(v)'
    BY <1>0, <1>2, <1>6, <1>7 DEF Blocks, Holds, W
  <1>10. Gone(v)'
    <2>1. Reached(v)' = Reached(v)
      BY <1>0, <1>1, <1>3, <1>5 DEF Reached, Calling
    <2> QED
      BY <1>0, <1>2, <1>6, <2>1 DEF SessionOK, Gone, QueueFrame, queueVars, Exists, Holds, W
  <1>11. api'.pc \in PurgeStep \cup {"idle"} /\ blocked' = blocked
    BY <1>0, <1>5 DEF PurgeStep
  <1> QED
    BY <1>0, <1>1, <1>2, <1>3, <1>5, <1>6, <1>7, <1>8, <1>9, <1>10, <1>11, PurgeTurns

\* The tombstone goes last, when nothing of the session is left.
LEMMA FinishPurgeInv == AsyncInv /\ FinishPurge => AsyncInv'
  <1> SUFFICES ASSUME AsyncInv, FinishPurge PROVE AsyncInv'
    OBVIOUS
  <1>0. /\ Calling("finish") /\ api.pc \in PurgeStep /\ QueueFrame /\ ApiFrame
        /\ UNCHANGED <<run, doc, blocked>>
        /\ purge' = [purge EXCEPT ![A] = NoPurge] /\ CallEnds
    BY DEF FinishPurge, Calling, PurgeStep
  <1>1. PICK v \in Session : v = A
    BY <1>0, PurgeFacts
  <1>2. /\ v \notin boot.todo /\ SessionOK(v)
        /\ v \in blocked /\ ~Holds(v) /\ purge[v] = LastPhase
        /\ purge \in [Session -> NoPurge..LastPhase]
    BY <1>0, <1>1, PurgeFacts DEF AsyncInv, Typed, Erasing, Calling
  <1>3. /\ purge'[v] = NoPurge /\ \A s \in Session : s # v => purge'[s] = purge[s]
        /\ purge' \in [Session -> NoPurge..LastPhase]
    BY <1>0, <1>1, <1>2 DEF NoPurge, LastPhase
  <1>4. ~run[v].exists
    <2>1. Reached(v) = LastPhase
      BY <1>0, <1>2 DEF Reached, Calling
    <2> QED
      BY <1>2, <2>1 DEF SessionOK, Gone, LastPhase
  <1>5. api' \in CallRow /\ api'.pc = "idle"
    BY <1>0, CallStops
  <1>6. worker' = worker /\ boot' = boot /\ UNCHANGED <<boot, uploads, crashes, run, doc>>
    BY <1>0 DEF ApiFrame
  <1>7. PurgeOK'
    BY <1>5 DEF PurgeOK, Erasing, Calling, PurgeStep
  <1>8. Blocks(v)'
    BY <1>0, <1>2, <1>3, <1>4, <1>6 DEF Blocks, Tombstone, NoPurge
  <1>9. Gone(v)'
    <2>1. Reached(v)' = NoPurge
      BY <1>3, <1>5 DEF Reached, Calling
    <2> QED
      BY <1>0, <1>2, <1>4, <1>6, <2>1
         DEF SessionOK, Gone, QueueFrame, queueVars, Exists, Holds, W, NoPurge
  <1>10. api'.pc \in PurgeStep \cup {"idle"} /\ blocked' = blocked
    BY <1>0, <1>5
  <1>11. ~Calling("idle") => A = v
    BY <1>1
  <1>12. api'.pc # "idle" => api'.session = v
    BY <1>5
  <1> QED
    BY <1>0, <1>2, <1>3, <1>4, <1>5, <1>6, <1>7, <1>8, <1>9, <1>10, <1>11, <1>12, PurgeTurns

\* What reaching a phase leaves of the session's run and row.
LEMMA EffectFacts ==
    ASSUME AsyncInv, PurgeEffect, NEW v \in Session, v = A
    PROVE  /\ v \notin boot.todo /\ Tombstone(v) /\ v \in blocked /\ ~Holds(v)
           /\ purge[v] \in 0..(LastPhase - 1) /\ ~api.receipt
           /\ Calling("effect") /\ ApiFrame /\ UNCHANGED <<purge, blocked>>
           /\ doc' = (IF purge[v] + 1 = 2 THEN doc \ {v} ELSE doc)
           /\ run' \in [Session -> Run] /\ \A s \in Session : s # v => run'[s] = run[s]
           /\ run'[v] = CASE purge[v] + 1 = 4 -> [run[v] EXCEPT !.audio = FALSE]
                          [] purge[v] + 1 = 5 -> ErasedRun
                          [] OTHER -> run[v]
           /\ Rows' /\ tasks' \in [Session -> Row]
           /\ \A s \in Session : s # v => tasks'[s] = tasks[s]
           /\ tasks'[v].max_retries = tasks[v].max_retries
           /\ tasks'[v].status = IF purge[v] + 1 = 3 THEN "absent" ELSE tasks[v].status
           /\ api' \in CallRow /\ api'.pc = "advance" /\ api'.session = v /\ ~api'.receipt
  <1>0. /\ Calling("effect") /\ api.pc \in PurgeStep /\ ApiFrame
        /\ UNCHANGED <<purge, blocked>> /\ CallGoesTo("advance")
        /\ doc' = (IF purge[v] + 1 = 2 THEN doc \ {v} ELSE doc)
        /\ IF purge[v] + 1 = 3 /\ Exists(v) THEN PurgeSession(v) ELSE QueueFrame
        /\ run' = [run EXCEPT ![v] = CASE purge[v] + 1 = 4 -> [@ EXCEPT !.audio = FALSE]
                                       [] purge[v] + 1 = 5 -> ErasedRun
                                       [] OTHER -> @]
    BY DEF PurgeEffect, Calling, PurgeStep
  <1>1. /\ v \notin boot.todo /\ Tombstone(v) /\ v \in blocked /\ ~Holds(v)
        /\ purge[v] \in 0..LastPhase /\ purge[v] < LastPhase /\ ~api.receipt /\ api \in CallRow
    BY <1>0, PurgeFacts DEF Erasing, Calling
  <1>2. purge[v] \in 0..(LastPhase - 1)
    BY <1>1 DEF LastPhase
  <1>3. run \in [Session -> Run] /\ Rows
    BY DEF AsyncInv, Typed
  <1> DEFINE r == CASE purge[v] + 1 = 4 -> [run[v] EXCEPT !.audio = FALSE]
                    [] purge[v] + 1 = 5 -> ErasedRun
                    [] OTHER -> run[v]
  <1>4. r \in Run
    <2>1. run[v] \in Run
      BY <1>3
    <2>2. [run[v] EXCEPT !.audio = FALSE] \in Run /\ ErasedRun \in Run
      BY <2>1 DEF Run, ErasedRun, StoppedRun, AsyncState
    <2> QED
      BY <2>1, <2>2
  <1>5. run' = [run EXCEPT ![v] = r]
    BY <1>0
  <1>6. run'[v] = r /\ run' \in [Session -> Run] /\ \A s \in Session : s # v => run'[s] = run[s]
    <2> HIDE DEF r
    <2> QED
      BY <1>3, <1>4, <1>5
  <1>7. /\ Rows' /\ tasks' \in [Session -> Row]
        /\ \A s \in Session : s # v => tasks'[s] = tasks[s]
        /\ tasks'[v].max_retries = tasks[v].max_retries
        /\ tasks'[v].status = IF purge[v] + 1 = 3 THEN "absent" ELSE tasks[v].status
    <2>1. CASE purge[v] + 1 = 3 /\ Exists(v)
      BY <1>0, <1>3, <2>1, Purges DEF Sets
    <2>2. CASE ~(purge[v] + 1 = 3 /\ Exists(v))
      <3>1. Rows' /\ tasks' = tasks
        BY <1>0, <1>3, <2>2, FrameRows
      <3>2. tasks \in [Session -> Row]
        BY <1>3, AsyncAssumption DEF Rows, QueueInv, QueueTypeOK
      <3>3. purge[v] + 1 = 3 => tasks[v].status = "absent"
        BY <2>2 DEF Exists
      <3> QED
        BY <3>1, <3>2, <3>3
    <2> QED
      BY <2>1, <2>2
  <1>8. api' \in CallRow /\ api'.pc = "advance" /\ api'.session = v /\ ~api'.receipt
    BY <1>0, <1>1, CallGoes DEF ApiStep
  <1> QED
    BY <1>0, <1>1, <1>2, <1>6, <1>7, <1>8

LEMMA PurgeEffectInv == AsyncInv /\ PurgeEffect => AsyncInv'
  <1> SUFFICES ASSUME AsyncInv, PurgeEffect PROVE AsyncInv'
    OBVIOUS
  <1>1. A \in Session
    BY PurgeFacts DEF PurgeEffect, Calling, PurgeStep
  <1>2. PICK v \in Session : v = A
    BY <1>1
  <1>3. /\ v \notin boot.todo /\ Tombstone(v) /\ v \in blocked /\ ~Holds(v)
        /\ purge[v] \in 0..(LastPhase - 1) /\ ~api.receipt
        /\ Calling("effect") /\ ApiFrame /\ UNCHANGED <<purge, blocked>>
    BY <1>2, EffectFacts
  <1>4. /\ doc' = (IF purge[v] + 1 = 2 THEN doc \ {v} ELSE doc)
        /\ run' \in [Session -> Run] /\ \A s \in Session : s # v => run'[s] = run[s]
        /\ run'[v] = CASE purge[v] + 1 = 4 -> [run[v] EXCEPT !.audio = FALSE]
                       [] purge[v] + 1 = 5 -> ErasedRun
                       [] OTHER -> run[v]
    BY <1>2, EffectFacts
  <1>5. /\ Rows' /\ tasks' \in [Session -> Row]
        /\ \A s \in Session : s # v => tasks'[s] = tasks[s]
        /\ tasks'[v].max_retries = tasks[v].max_retries
        /\ tasks'[v].status = IF purge[v] + 1 = 3 THEN "absent" ELSE tasks[v].status
        /\ api' \in CallRow /\ api'.pc = "advance" /\ api'.session = v /\ ~api'.receipt
    BY <1>2, EffectFacts
  <1>6. /\ worker' = worker /\ boot' = boot /\ uploads' = uploads /\ crashes' = crashes
        /\ purge' = purge /\ blocked' = blocked
    BY <1>3 DEF ApiFrame
  <1>7. Typed'
    <2>1. Typed /\ doc' \subseteq Session
      BY <1>4 DEF AsyncInv, Typed
    <2> QED
      BY <1>4, <1>5, <1>6, <2>1 DEF Typed
  <1>8. Elsewise(v)
    BY <1>4, <1>5, <1>6 DEF Elsewise
  <1>9. PurgeOK'
    <2>1. purge[v] < LastPhase
      BY <1>3 DEF LastPhase
    <2> QED
      BY <1>3, <1>5, <1>6, <2>1 DEF PurgeOK, A, Erasing, Calling, Holds, W, Tombstone
  <1>10. SessionOK(v) /\ run[v] \in Run /\ Reached(v) = purge[v]
    BY <1>2, <1>3 DEF AsyncInv, Typed, Reached, Calling
  <1>11. Reached(v)' = purge[v] + 1
    BY <1>5, <1>6 DEF Reached, Calling, A
  <1>12. /\ run'[v].exists => run[v].exists
         /\ run'[v].audio => run[v].audio
         /\ purge[v] + 1 = 4 => ~run'[v].audio
         /\ purge[v] + 1 = 5 => run'[v] = ErasedRun /\ ~run'[v].audio /\ ~run'[v].exists
         /\ purge[v] + 1 # 5 =>
               /\ run'[v].exists <=> run[v].exists
               /\ run'[v].receipt <=> run[v].receipt
               /\ run'[v].async = run[v].async /\ run'[v].projection = run[v].projection
               /\ run[v] = ErasedRun => run'[v] = ErasedRun
    <2>1. CASE purge[v] + 1 = 4
      <3>1. run'[v] = [run[v] EXCEPT !.audio = FALSE]
        BY <1>4, <2>1
      <3>2. [ErasedRun EXCEPT !.audio = FALSE] = ErasedRun
        BY DEF ErasedRun, StoppedRun
      <3> QED
        BY <1>10, <2>1, <3>1, <3>2 DEF Run
    <2>2. CASE purge[v] + 1 = 5
      <3>1. run'[v] = ErasedRun
        BY <1>4, <2>2
      <3> QED
        BY <2>2, <3>1 DEF ErasedRun, StoppedRun
    <2>3. CASE purge[v] + 1 # 4 /\ purge[v] + 1 # 5
      BY <1>4, <2>3
    <2> QED
      BY <2>1, <2>2, <2>3
  <1>13. Gone(v)'
    <2>1. Gone(v) /\ purge[v] \in 0..5
      BY <1>3, <1>10 DEF SessionOK, LastPhase
    <2>2. purge[v] + 1 >= 2 => v \notin doc'
      BY <1>4, <1>10, <2>1 DEF Gone
    <2>3. purge[v] + 1 >= 3 => tasks'[v].status = "absent"
      BY <1>5, <1>10, <2>1 DEF Gone, Exists
    <2>4. purge[v] + 1 >= 4 => ~run'[v].audio
      BY <1>10, <1>12, <2>1 DEF Gone
    <2>5. purge[v] + 1 >= 5 => ~run'[v].exists
      BY <1>10, <1>12, <2>1 DEF Gone
    <2>6. ~run'[v].exists => run'[v] = ErasedRun /\ tasks'[v].status = "absent" /\ v \notin doc'
      BY <1>4, <1>5, <1>10, <1>12, <2>1, <2>2, <2>3 DEF Gone, Exists
    <2> QED
      BY <1>3, <1>6, <1>11, <2>2, <2>3, <2>4, <2>5, <2>6 DEF Gone, Exists, Holds, W
  <1>14. Agrees(v)'
    <2>1. Tombstone(v)'
      BY <1>3, <1>6 DEF Tombstone
    <2>2. CASE purge[v] + 1 = 5
      <3>1. /\ run'[v].async = "none" /\ run'[v].projection = "none"
        BY <1>12, <2>2 DEF ErasedRun, StoppedRun
      <3>2. tasks'[v].status = "absent" /\ ~run'[v].receipt
        <4>1. ~run'[v].exists
          BY <1>12, <2>2
        <4> QED
          BY <1>12, <1>13, <2>2, <4>1 DEF Gone, Exists, ErasedRun, StoppedRun
      <3> QED
        BY <3>1, <3>2 DEF Agrees, Exists
    <2>3. CASE purge[v] + 1 # 5
      <3>1. Agrees(v) /\ (tasks'[v].status = tasks[v].status \/ tasks'[v].status = "absent")
        BY <1>5, <1>10 DEF SessionOK
      <3> QED
        BY <1>5, <1>12, <2>1, <2>3, <3>1 DEF Agrees, Exists
    <2> QED
      BY <2>2, <2>3
  <1>15. Blocks(v)'
    BY <1>3, <1>6 DEF Blocks, Tombstone, Holds, W
  <1>16. Counted(v)'
    <2>1. Spent(v)'
      BY <1>3, <1>6 DEF Spent, Tombstone
    <2>2. uploads[v] <= crashes + 1
      BY <1>10, AsyncAssumption DEF SessionOK, Counted, AsyncInv, Typed
    <2> QED
      BY <1>6, <2>1, <2>2 DEF Counted
  <1>17. SessionOK(v)'
    BY <1>13, <1>14, <1>15, <1>16 DEF SessionOK
  <1>18. api'.pc \in PurgeStep \cup {"idle"} /\ (~Calling("idle") => A = v)
    BY <1>2, <1>5 DEF PurgeStep
  <1>19. \A s \in Session : s # v => SessionOK(s)'
    BY <1>3, <1>5, <1>6, <1>8, <1>18, CallElsewhere
  <1>20. /\ worker'.pc = worker.pc /\ worker'.session = W /\ worker'.result = worker.result
         /\ worker'.registered <=> worker.registered
         /\ worker'.cancelled => worker.cancelled
    BY <1>6 DEF W
  <1> QED
    BY <1>3, <1>5, <1>6, <1>7, <1>8, <1>9, <1>17, <1>18, <1>19, <1>20, PurgeActs

-----------------------------------------------------------------------------
(* Startup, and process death.                                               *)

\* What startup does while the worker waits changes no store.
LEMMA BootActs ==
    ASSUME AsyncInv, QueueFrame, Calling("idle"), boot.phase # "running",
           UNCHANGED <<run, doc, purge, worker, blocked, uploads, crashes>>,
           api' \in CallRow, boot' \in BootRow, BootOK', CallOK', PurgeOK',
           ~Projecting(api'.pc), api'.pc # "advance",
           \A s \in Session : Tombstone(s) /\ s \in boot.todo /\ boot.phase = "purges" =>
              \/ Calling("block")' /\ A' = s /\ boot'.phase = "purges"
              \/ boot'.phase = "purges" /\ s \in boot'.todo
    PROVE  AsyncInv'
  <1>1. /\ run' = run /\ doc' = doc /\ purge' = purge /\ worker' = worker
        /\ blocked' = blocked /\ uploads' = uploads /\ crashes' = crashes
        /\ tasks' = tasks /\ Rows'
    BY FrameRows DEF AsyncInv
  <1>2. At("idle") /\ WorkerOK /\ HandlerOK
    BY DEF AsyncInv, ActorsOK, WorkerOK
  <1>3. Typed'
    BY <1>1 DEF AsyncInv, Typed
  <1>4. WorkerOK' /\ HandlerOK'
    BY <1>1, <1>2 DEF WorkerOK, HandlerOK, At, W, Owned
  <1>5. ProjectingOK'
    BY <1>1, <1>2 DEF ProjectingOK, Projecting, At
  <1>6. ASSUME NEW s \in Session
        PROVE  SessionOK(s)'
    <2>1. SessionOK(s)
      BY DEF AsyncInv
    <2>2. Agrees(s)'
      BY <1>1, <2>1 DEF SessionOK, Agrees, Tombstone, Exists
    <2>3. Blocks(s)'
      <3>1. Tombstone(s) /\ s \notin blocked => boot.phase = "purges" /\ s \in boot.todo
        BY <2>1 DEF SessionOK, Blocks, Calling
      <3> QED
        BY <1>1, <2>1, <3>1 DEF SessionOK, Blocks, Tombstone, Calling, A, Holds, W
    <2>4. Gone(s)'
      <3>1. Reached(s) = purge[s] /\ Reached(s)' = purge[s]
        BY <1>1 DEF Reached, Calling
      <3> QED
        BY <1>1, <2>1, <3>1 DEF SessionOK, Gone, Exists, Holds, W
    <2>5. Counted(s)'
      BY <1>1, <2>1 DEF SessionOK, Counted, Spent, Tombstone, W
    <2> QED
      BY <2>2, <2>3, <2>4, <2>5 DEF SessionOK
  <1> QED
    BY <1>1, <1>3, <1>4, <1>5, <1>6 DEF AsyncInv, ActorsOK

LEMMA BootVisitsInv ==
    ASSUME AsyncInv, NEW s \in Session, BootVisits(s)
    PROVE  AsyncInv'
  <1>0. /\ Calling("idle") /\ s \in boot.todo /\ QueueFrame
        /\ UNCHANGED <<run, doc, purge, worker, blocked, uploads, crashes>>
        /\ boot' = [boot EXCEPT !.todo = @ \ {s}]
    BY DEF BootVisits
  <1>1. boot \in BootRow /\ BootOK /\ run \in [Session -> Run]
    BY DEF AsyncInv, ActorsOK, Typed
  <1>2. boot.phase \in BootPhase \ {"running"}
    BY <1>0, <1>1 DEF BootOK, BootRow
  <1>3. boot' \in BootRow /\ boot'.phase = boot.phase /\ boot'.todo = boot.todo \ {s}
    BY <1>0, <1>1 DEF BootRow
  <1>4. /\ run[s].async \in AsyncState
        /\ boot.phase = "purges" => Tombstone(s)
        /\ boot.phase # "purges" => run[s].exists /\ ~Tombstone(s)
        /\ boot.phase = "compensate" => run[s].async # "completed"
    BY <1>0, <1>1 DEF BootOK, Run
  <1>5. /\ api' \in CallRow /\ api'.session = s /\ ~api'.receipt
        /\ boot.phase = "purges" => api'.pc = "block"
        /\ boot.phase # "purges" => api'.pc \in {"search", "project", "reserve", "read_receipt"}
        /\ api'.pc = "reserve" => run[s].async = "pending"
        /\ api'.pc = "read_receipt" => run[s].async # "completed"
    <2>1. CASE boot.phase = "purges"
      <3>1. api' = [NoCall EXCEPT !.pc = "block", !.session = s]
        BY <2>1 DEF BootVisits, PurgeCall
      <3> QED
        BY <2>1, <3>1, FreshCall DEF ApiStep
    <2>2. CASE boot.phase = "search"
      <3>1. api' = [NoCall EXCEPT !.pc = "search", !.session = s]
        BY <2>2 DEF BootVisits
      <3> QED
        BY <2>2, <3>1, FreshCall DEF ApiStep
    <2>3. CASE boot.phase = "compensate"
      <3>1. api' = EnsureFrom(s, run[s].async)
        BY <2>3 DEF BootVisits
      <3> QED
        BY <1>4, <2>3, <3>1, EnsureCall
    <2>4. CASE boot.phase = "projections"
      <3>1. api' = [NoCall EXCEPT !.pc = "project", !.session = s]
        BY <2>4 DEF BootVisits
      <3> QED
        BY <2>4, <3>1, FreshCall DEF ApiStep
    <2> QED
      BY <1>2, <2>1, <2>2, <2>3, <2>4 DEF BootPhase
  <1>6. run' = run /\ purge' = purge /\ tasks' = tasks /\ blocked' = blocked /\ worker' = worker
    BY <1>0 DEF QueueFrame, queueVars
  <1>7. BootOK'
    BY <1>1, <1>3, <1>6 DEF BootOK, Tombstone
  <1>8. CallOK'
    <2>1. Serves(api'.pc, s, api'.status, run[s], tasks[s].status) /\ api'.pc \notin Recovering
      BY <1>2, <1>5 DEF Serves, Recovering
    <2>2. api'.pc \notin PurgeStep => run[s].exists /\ ~Tombstone(s)
      BY <1>4, <1>5 DEF PurgeStep
    <2> QED
      BY <1>3, <1>5, <1>6, <2>1, <2>2 DEF CallOK, A, Tombstone
  <1>9. PurgeOK'
    BY <1>4, <1>5, <1>6 DEF PurgeOK, A, PurgeStep, Erasing, Calling, Tombstone
  <1>10. ~Projecting(api'.pc) /\ api'.pc # "advance"
    BY <1>5 DEF Projecting
  <1>11. \A u \in Session : Tombstone(u) /\ u \in boot.todo /\ boot.phase = "purges" =>
            \/ Calling("block")' /\ A' = u /\ boot'.phase = "purges"
            \/ boot'.phase = "purges" /\ u \in boot'.todo
    BY <1>3, <1>5 DEF Calling, A
  <1> QED
    BY <1>0, <1>2, <1>3, <1>5, <1>7, <1>8, <1>9, <1>10, <1>11, BootActs

LEMMA BootAdvancesInv == AsyncInv /\ BootAdvances => AsyncInv'
  <1> SUFFICES ASSUME AsyncInv, BootAdvances PROVE AsyncInv'
    OBVIOUS
  <1>0. /\ Calling("idle") /\ boot.phase # "running" /\ boot.todo = {} /\ QueueFrame
        /\ UNCHANGED <<run, doc, purge, worker, blocked, api, uploads, crashes>>
        /\ boot' = [phase |-> PassAfter[boot.phase], todo |-> Visits(PassAfter[boot.phase])]
    BY DEF BootAdvances
  <1>1. boot \in BootRow /\ api \in CallRow /\ run \in [Session -> Run]
    BY DEF AsyncInv, Typed
  <1>2. PICK phase \in {"search", "compensate", "projections", "running"} :
           boot' = [phase |-> phase, todo |-> Visits(phase)]
    BY <1>0, <1>1 DEF BootRow, BootPhase, PassAfter
  <1>3. boot' \in BootRow /\ boot'.phase = phase /\ boot'.todo = Visits(phase)
    BY <1>2 DEF BootRow, BootPhase, Visits
  <1>4. \A s \in Session : run[s].receipt \/ run[s].async # "none" => run[s].exists
    <2> SUFFICES ASSUME NEW s \in Session, ~run[s].exists
                 PROVE  ~run[s].receipt /\ run[s].async = "none"
      OBVIOUS
    <2>1. run[s] = ErasedRun
      BY DEF AsyncInv, SessionOK, Gone
    <2> QED
      BY <2>1 DEF ErasedRun, StoppedRun
  <1>5. BootOK'
    <2>1. phase = "running" => Visits(phase) = {}
      BY DEF Visits
    <2>2. phase = "search" => \A s \in Visits(phase) : ~Tombstone(s) /\ run[s].exists
      BY <1>4 DEF Visits
    <2>3. phase = "compensate" =>
             \A s \in Visits(phase) :
                ~Tombstone(s) /\ run[s].exists /\ run[s].async # "completed"
      BY <1>4 DEF Visits
    <2>4. phase = "projections" => \A s \in Visits(phase) : ~Tombstone(s) /\ run[s].exists
      BY <1>4 DEF Visits
    <2>5. run' = run /\ purge' = purge
      BY <1>0
    <2> QED
      BY <1>3, <2>1, <2>2, <2>3, <2>4, <2>5 DEF BootOK, Tombstone
  <1>6. CallOK' /\ PurgeOK' /\ ~Projecting(api'.pc) /\ api'.pc # "advance" /\ api' \in CallRow
    BY <1>0, <1>1 DEF CallOK, PurgeOK, Calling, PurgeStep, Erasing, Projecting
  <1> QED
    BY <1>0, <1>3, <1>5, <1>6, BootActs

LEMMA CrashInv == AsyncInv /\ Crash => AsyncInv'
  <1> SUFFICES ASSUME AsyncInv, Crash PROVE AsyncInv'
    OBVIOUS
  <1>0. /\ crashes < MaxCrash /\ crashes' = crashes + 1 /\ (Restart \/ QueueFileLost)
        /\ run' = [s \in Session |-> IF run[s].projection = "projecting"
                                     THEN [run[s] EXCEPT !.projection = "failed"] ELSE run[s]]
        /\ worker' = NoWork /\ api' = NoCall /\ blocked' = {}
        /\ boot' = [phase |-> "purges", todo |-> Visits("purges")]
        /\ doc' = doc /\ purge' = purge /\ uploads' = uploads
    BY DEF Crash
  <1>1. Rows /\ Typed
    BY DEF AsyncInv
  <1>2. /\ Rows' /\ tasks' \in [Session -> Row]
        /\ \A t \in Session :
              /\ tasks'[t].max_retries = tasks[t].max_retries
              /\ \/ tasks'[t].status = "absent"
                 \/ tasks'[t].status = "pending" /\ tasks[t].status = "running"
                 \/ tasks'[t].status = tasks[t].status
    <2>1. Tick => \A t \in Session : tasks'[t].status = tasks[t].status
      BY <1>0, <1>1, RowsPass
    <2> QED
      BY <1>0, <1>1, <2>1, RowsPass
  <1>3. \A s \in Session :
           /\ run'[s] \in Run
           /\ run'[s].exists <=> run[s].exists
           /\ run'[s].receipt <=> run[s].receipt
           /\ run'[s].audio <=> run[s].audio
           /\ run'[s].async = run[s].async
           /\ run[s].projection = "none" => run'[s] = run[s]
    BY <1>0, <1>1 DEF Typed, Run
  <1>4. \A s \in Session : s \in boot'.todo <=> Tombstone(s)
    BY <1>0 DEF Visits
  <1>5. worker'.pc = "idle" /\ ~worker'.registered /\ ~worker'.cancelled /\ worker'.result = "none"
    BY <1>0 DEF NoWork
  <1>6. api'.pc = "idle"
    BY <1>0 DEF NoCall
  <1>7. Typed'
    <2>1. crashes' \in 0..MaxCrash
      BY <1>0, <1>1, AsyncAssumption DEF Typed
    <2>2. run' \in [Session -> Run]
      BY <1>0, <1>3
    <2>3. worker' \in WorkerRow /\ api' \in CallRow
      BY <1>0, CallStops DEF WorkerRow, NoWork, WorkerStep, CallEnds
    <2>4. boot' \in BootRow
      BY <1>0 DEF BootRow, BootPhase, Visits
    <2> QED
      BY <1>0, <1>1, <2>1, <2>2, <2>3, <2>4 DEF Typed
  <1>8. WorkerOK' /\ HandlerOK' /\ ProjectingOK'
    BY <1>5, <1>6 DEF WorkerOK, HandlerOK, Fits, ProjectingOK, Projecting, At, W, Owned, Handling
  <1>9. CallOK' /\ PurgeOK'
    BY <1>6 DEF CallOK, PurgeOK, Calling, PurgeStep, Erasing
  <1>10. BootOK'
    <2>1. boot'.phase = "purges" /\ purge' = purge /\ boot'.todo \subseteq Session
      BY <1>0 DEF Visits
    <2> QED
      BY <1>4, <2>1 DEF BootOK, Tombstone
  <1>11. ASSUME NEW s \in Session
         PROVE  SessionOK(s)'
    <2>1. SessionOK(s)
      BY DEF AsyncInv
    <2>2. Agrees(s)'
      <3>1. run'[s].projection # "none" => run[s].projection # "none"
        BY <1>3
      <3>2. Tombstone(s)' <=> Tombstone(s)
        BY <1>0 DEF Tombstone
      <3>3. /\ tasks'[s].status = "completed" => tasks[s].status = "completed"
            /\ tasks[s].status \in {"completed", "absent"}
                  => tasks'[s].status \in {"completed", "absent"}
            /\ Exists(s)' => Exists(s)
        BY <1>2 DEF Exists
      <3> QED
        BY <1>2, <1>3, <2>1, <3>1, <3>2, <3>3 DEF SessionOK, Agrees
    <2>3. ~Holds(s)'
      BY <1>5 DEF Holds
    <2>4. Blocks(s)'
      BY <1>0, <1>4, <2>3 DEF Blocks, Tombstone
    <2>5. Gone(s)'
      <3>1. Reached(s)' = purge[s]
        BY <1>0, <1>6 DEF Reached, Calling
      <3>2. purge[s] <= Reached(s) /\ purge[s] \in NoPurge..LastPhase
        BY <1>1 DEF Reached, Typed, NoPurge, LastPhase
      <3>3. Exists(s)' => Exists(s)
        BY <1>2 DEF Exists
      <3>4. ~run'[s].exists => run'[s] = ErasedRun
        <4>1. ~run[s].exists => run[s] = ErasedRun
          BY <2>1 DEF SessionOK, Gone
        <4>2. run[s] = ErasedRun => run[s].projection = "none"
          BY DEF ErasedRun, StoppedRun
        <4> QED
          BY <1>3, <4>1, <4>2
      <3>5. /\ purge[s] >= 2 => s \notin doc
            /\ purge[s] >= 3 => ~Exists(s)
            /\ purge[s] >= 4 => ~run[s].audio
            /\ purge[s] >= 5 => ~run[s].exists
        <4>1. Reached(s) \in Int /\ Gone(s)
          BY <1>1, <2>1 DEF SessionOK, Reached, Typed, NoPurge, LastPhase
        <4> QED
          BY <3>2, <4>1 DEF Gone, NoPurge, LastPhase
      <3> QED
        BY <1>0, <1>3, <2>1, <2>3, <3>1, <3>3, <3>4, <3>5 DEF SessionOK, Gone
    <2>6. Counted(s)'
      BY <1>0, <1>1, <2>1, AsyncAssumption DEF SessionOK, Counted, Typed
    <2> QED
      BY <2>2, <2>4, <2>5, <2>6 DEF SessionOK
  <1> QED
    BY <1>2, <1>7, <1>8, <1>9, <1>10, <1>11 DEF AsyncInv, ActorsOK

-----------------------------------------------------------------------------
(* The invariant.                                                            *)

LEMMA InitInv == Init => AsyncInv
  <1> SUFFICES ASSUME Init PROVE AsyncInv
    OBVIOUS
  <1>1. Rows
    <2>1. tasks \in [Task -> Row] /\ \A t \in Task : RowOK(tasks[t])
      <3>1. 0 \in 0..MaxStamp /\ 1 \in 1..20 /\ 10 \in Priority
        BY QueueAssumption, AsyncAssumption
      <3>2. \A t \in Task : [session |-> t, kind |-> "valid"] \in Payload
        BY AsyncAssumption DEF Payload, PayloadKind
      <3> QED
        BY <3>1, <3>2 DEF Init, RowOK, Row, Status, NoLease
    <2>2. slot \in [Slot -> Task \cup {NoHandle}] /\ stamp \in 0..MaxStamp
      BY QueueAssumption DEF Init
    <2>3. QueueInv
      BY <2>1, <2>2 DEF QueueInv, QueueTypeOK, RetryBudget, RunningHasLease,
                        OnlyAuthorizedRuns, RowOK, Valid
    <2> QED
      BY <2>3, AsyncAssumption DEF Init, Rows, Payloads
  <1>2. Typed
    <2>1. StoppedRun \in Run
      BY DEF StoppedRun, Run, AsyncState
    <2>2. worker \in WorkerRow /\ api \in CallRow /\ boot \in BootRow
      BY DEF Init, WorkerRow, NoWork, WorkerStep, CallRow, NoCall, ApiStep, AsyncState,
             Status, BootRow, BootPhase
    <2> QED
      BY <2>1, <2>2, AsyncAssumption DEF Init, Typed, NoPurge, LastPhase
  <1>3. At("idle") /\ Calling("idle") /\ ~worker.registered /\ ~worker.cancelled
        /\ worker.result = "none" /\ boot.phase = "running" /\ boot.todo = {}
    BY DEF Init, NoWork, NoCall, At, Calling
  <1>4. ActorsOK
    BY <1>3 DEF ActorsOK, WorkerOK, HandlerOK, Fits, CallOK, PurgeOK, ProjectingOK, BootOK,
                Projecting, At, Calling, Owned, Handling, PurgeStep, Erasing
  <1>5. ASSUME NEW s \in Session
        PROVE  SessionOK(s)
    <2>1. /\ run[s] = StoppedRun /\ purge[s] = NoPurge /\ uploads[s] = 0 /\ crashes = 0
          /\ tasks[s].status = "absent" /\ doc = {} /\ blocked = {} /\ ~Holds(s)
      BY <1>3, AsyncAssumption DEF Init, Holds
    <2> QED
      BY <1>3, <2>1 DEF SessionOK, Agrees, Blocks, Gone, Reached, Counted, Tombstone, NoPurge,
                        Exists, StoppedRun, Calling
  <1> QED
    BY <1>1, <1>2, <1>4, <1>5 DEF AsyncInv

LEMMA WorkerNextInv == AsyncInv /\ NotYetUploaded /\ WorkerNext => AsyncInv'
  BY PollsInv, ClaimedInv, LeavesInv, TurningSteps, CheckStopsInv, VerifyPassesInv,
     OwnerQueueInv, GateOpensInv, UploadBeginsInv, CommitReceiptInv, IndexingInv, FinalizeCleansInv,
     ClosingInv, WorkerProjectionInv
     DEF WorkerNext

LEMMA CallNextInv == AsyncInv /\ CallNext => AsyncInv'
  BY ReserveInv, EnqueueRowInv, MarkEnqueuedInv, ReadReceiptInv, ReadRowInv, PromoteInv,
     DecideInv, CallIndexingInv, RecoverPrivacyInv, RecoverCompleteInv, RecoverMarkInv,
     CallProjectionInv, BlockAndCancelInv, SagaTurnsInv, PurgeEffectInv, PurgeAdvancesInv,
     FinishPurgeInv, BootAdvancesInv, BootVisitsInv
     DEF CallNext

LEMMA UserNextInv == AsyncInv /\ UserNext => AsyncInv'
  BY RequestInv, RetryProjectionInv, BeginPurgeInv DEF UserNext

LEMMA StutterInv == AsyncInv /\ UNCHANGED vars => AsyncInv'
  BY DEF vars, queueVars, asyncVars, AsyncInv, Rows, QueueInv, QueueTypeOK, RetryBudget,
         RunningHasLease, OnlyAuthorizedRuns, Valid, Payloads, Typed, ActorsOK, WorkerOK,
         HandlerOK, CallOK, PurgeOK, ProjectingOK, BootOK, At, Calling, W, A, Tombstone, Holds,
         SessionOK, Agrees, Blocks, Gone, Reached, Counted, Spent, Exists

LEMMA NextInv == AsyncInv /\ NotYetUploaded /\ [Next]_vars => AsyncInv'
  BY WorkerNextInv, CallNextInv, UserNextInv, TimeInv, CrashInv, StutterInv DEF Next

\* No step but these two begins an upload or clears a handler for one.
LEMMA UploadSteps ==
    ASSUME AsyncInv, [Next]_vars, ~GateOpens, ~UploadBegins
    PROVE  uploads' = uploads /\ \A s \in Session : Cleared(s)' => Cleared(s) /\ crashes' = crashes
  <1> USE DEF Cleared, At, W
  <1>0. worker \in WorkerRow
    BY DEF AsyncInv, Typed
  <1>1. CASE worker' = worker /\ UNCHANGED <<uploads, crashes>>
    BY <1>1
  <1>2. CASE JournalOpens
    BY <1>0, <1>2, GoesTo DEF JournalOpens, WorkerStep, WorkerFrame
  <1>3. ASSUME uploads' = uploads, worker'.pc \notin {"journal", "upload"}
        PROVE  uploads' = uploads /\ \A s \in Session : Cleared(s)' => Cleared(s) /\ crashes' = crashes
    BY <1>3
  <1>4. CASE BlockAndCancel
    BY <1>0, <1>4 DEF BlockAndCancel, WorkerRow
  <1>5. CASE Crash
    BY <1>5 DEF Crash, NoWork
  <1>6. CASE WorkerNext
    <2>1. CASE \/ \E s \in Session : PollReconciles(s) \/ PollClaimsReceipt(s) \/ PollClaimsNext(s)
               \/ WorkerDrops
      <3>1. CASE WorkerDrops
        BY <1>3, <3>1 DEF WorkerDrops, NoWork
      <3>2. ASSUME NEW s \in Session, PollReconciles(s)
            PROVE  uploads' = uploads /\ worker'.pc = "r_register"
        BY <3>2 DEF PollReconciles, NoWork
      <3>3. ASSUME NEW s \in Session, PollClaimsReceipt(s) \/ PollClaimsNext(s)
            PROVE  uploads' = uploads /\ worker'.pc = "claimed"
        BY <3>3 DEF PollClaimsReceipt, PollClaimsNext, NoWork
      <3>4. CASE \E s \in Session : PollReconciles(s) \/ PollClaimsReceipt(s) \/ PollClaimsNext(s)
        <4>1. uploads' = uploads /\ worker'.pc \in {"r_register", "claimed"}
          BY <3>2, <3>3, <3>4
        <4> QED
          BY <1>3, <4>1
      <3> QED
        BY <2>1, <3>1, <3>4
    <2>2. CASE \/ PollFindsNoReceipt \/ PollEndsEmpty \/ CredentialVanishes \/ ReleaseUnkeyed
               \/ Register \/ RegisterRefused \/ CheckStops \/ VerifyPasses \/ VerifyRejects
               \/ PreflightFails \/ DispatchReplays \/ DispatchPrepares
      BY <1>0, <1>3, <2>2
         DEF PollFindsNoReceipt, PollEndsEmpty, CredentialVanishes, ReleaseUnkeyed, Register,
             RegisterRefused, CheckStops, VerifyPasses, VerifyRejects, PreflightFails,
             DispatchReplays, DispatchPrepares, GoTo, WorkerRow
    <2>3. CASE \/ DispatchRefuses \/ GateRefuses \/ JournalRefuses \/ ProviderFails
               \/ CommitRefused \/ HandlerIndexes
      BY <1>0, <1>3, <2>3
         DEF DispatchRefuses, GateRefuses, JournalRefuses, ProviderFails, CommitRefused,
             HandlerIndexes, HandlerReturns, WorkerRow
    <2>4. CASE \/ ProviderSucceeds \/ CommitReceipt \/ JoinHandler \/ FinalizeCleans
               \/ FinalizeFails \/ CompleteRow \/ HandlerFailed \/ CloseRun
      BY <1>0, <1>3, <2>4
         DEF ProviderSucceeds, CommitReceipt, JoinHandler, FinalizeCleans, FinalizeFails,
             CompleteRow, HandlerFailed, CloseRun, GoTo, WorkerRow
    <2>5. CASE \/ WorkerProjects \/ WorkerWrites \/ WorkerPublishes
               \/ RecoveryCloses \/ RecoveryIndexes
      BY <1>0, <1>3, <2>5
         DEF WorkerProjects, WorkerWrites, WorkerPublishes, RecoveryCloses,
             RecoveryIndexes, GoTo, WorkerRow
    <2>6. CASE CheckPasses
      <3>1. /\ worker.pc \in {"check1", "check2", "check3", "check4", "r_check1", "r_check2",
                               "r_check3"}
            /\ GoTo(NextAfterCheck(worker.pc)) /\ uploads' = uploads
        BY <2>6 DEF CheckPasses, ChecksCancel
      <3>2. NextAfterCheck(worker.pc) \notin {"journal", "upload"}
        BY <3>1 DEF NextAfterCheck
      <3>3. worker'.pc = NextAfterCheck(worker.pc)
        BY <1>0, <3>1 DEF GoTo, WorkerRow
      <3> QED
        BY <1>3, <3>1, <3>2, <3>3
    <2>7. CASE RecoveryRegisters
      <3>1. uploads' = uploads /\ worker'.pc \in {"r_check1", "idle"}
        BY <1>0, <2>7 DEF RecoveryRegisters, NoWork, WorkerRow
      <3> QED
        BY <1>3, <3>1
    <2> QED
      BY <1>2, <1>6, <2>1, <2>2, <2>3, <2>4, <2>5, <2>6, <2>7 DEF WorkerNext
  <1>7. CASE CallNext /\ ~BlockAndCancel
    BY <1>1, <1>7
       DEF CallNext, Reserve, EnqueueRow, MarkEnqueued, ReadReceipt, ReadRow, Promote, Decide,
           RecoverIndex, RecoverPrivacy, RecoverComplete, RecoverMark, CallProjects,
           CallWrites, CallPublishes, HandlersStopped, WaitTimesOut, PurgeEffect, PurgeFails,
           PurgeAdvances, FinishPurge, BootAdvances, BootIndexes, BootVisits, ApiFrame
  <1>8. CASE UserNext \/ HeartbeatRuns \/ LeaseRunsOut \/ UNCHANGED vars
    <2>1. ASSUME NEW s \in Session, Request(s) \/ RetryProjection(s) \/ BeginPurge(s)
          PROVE  worker' = worker /\ UNCHANGED <<uploads, crashes>>
      BY <2>1 DEF Request, RetryProjection, BeginPurge, ApiFrame
    <2>2. CASE HeartbeatRuns \/ LeaseRunsOut \/ UNCHANGED vars
      BY <1>1, <2>2 DEF HeartbeatRuns, LeaseRunsOut, asyncVars, vars
    <2> QED
      BY <1>1, <1>8, <2>1, <2>2 DEF UserNext
  <1> QED
    BY <1>4, <1>5, <1>6, <1>7, <1>8 DEF Next

LEMMA NotYetUploadedInv == AsyncInv /\ NotYetUploaded /\ [Next]_vars => NotYetUploaded'
  <1> SUFFICES ASSUME AsyncInv, NotYetUploaded, [Next]_vars, NEW s \in Session, Cleared(s)'
               PROVE  uploads'[s] <= crashes'
    BY DEF NotYetUploaded
  <1>1. CASE GateOpens
    <2>1. /\ worker.pc \in Owned /\ worker.pc \notin Uploading /\ At("gate")
          /\ GoTo("journal") /\ UNCHANGED <<uploads, crashes>> /\ MayClaim(W)
      BY <1>1 DEF GateOpens, At, Owned, WorkerStep, Uploading, WorkerFrame
    <2>2. s = W
      BY <2>1, GoesTo DEF Cleared, AsyncInv, Typed, WorkerStep, W
    <2>3. ~Spent(s) /\ SessionOK(s)
      BY <2>1, <2>2, OwnedFacts DEF Spent, MayClaim, AsyncInv, ActorsOK, HandlerOK, Fits,
                                    Handling, At
    <2> QED
      BY <2>1, <2>3 DEF SessionOK, Counted
  <1>2. CASE UploadBegins
    BY <1>2, GoesTo DEF UploadBegins, Cleared, AsyncInv, Typed, WorkerStep
  <1>3. CASE ~GateOpens /\ ~UploadBegins
    <2>1. Cleared(s) /\ UNCHANGED <<uploads, crashes>>
      BY <1>3, UploadSteps
    <2> QED
      BY <2>1 DEF NotYetUploaded
  <1> QED
    BY <1>1, <1>2, <1>3

LEMMA NotYetUploadedInit == Init => NotYetUploaded
  BY DEF Init, NotYetUploaded, Cleared, NoWork

\* Every state the worker loop, the API, startup and process death can reach
\* satisfies the inductive invariant.
THEOREM AsyncSafety == Spec => []AsyncInv
  BY InitInv, NextInv, NotYetUploadedInit, NotYetUploadedInv, PTL DEF Spec

LEMMA InvBacks == AsyncInv => ProviderWorkIsBacked
  <1> SUFFICES ASSUME AsyncInv PROVE ProviderWorkIsBacked
    OBVIOUS
  <1>1. AsyncTypeOK
    BY DEF AsyncInv, Rows, QueueInv, Typed, AsyncTypeOK, WorkerRow, CallRow, BootRow
  <1>2. ProviderCallIsCovered
    BY DEF AsyncInv, ActorsOK, WorkerOK, HandlerOK, Fits, ProviderCallIsCovered, At,
           Owned, WorkerStep, Handling
  <1>3. OneUploadPerLife
    <2> SUFFICES ASSUME NEW s \in Session PROVE uploads[s] <= 1 + crashes
      BY DEF OneUploadPerLife
    <2>1. Counted(s) /\ uploads[s] \in Nat /\ crashes \in Nat
      BY AsyncAssumption DEF AsyncInv, SessionOK, Typed
    <2> QED
      BY <2>1 DEF Counted
  <1>4. CompletedIsBacked
    BY DEF AsyncInv, SessionOK, Agrees, CompletedIsBacked
  <1> QED
    BY <1>1, <1>2, <1>3, <1>4 DEF ProviderWorkIsBacked

(***************************************************************************)
(* Whatever dies, whoever interferes: the provider is called only under    *)
(* the reservation, the provenance claim and the running row that          *)
(* verify_capture_async_task_receipt and dispatch_task demand, once per    *)
(* life of the process; and no run is completed without its receipt.       *)
(***************************************************************************)
THEOREM ProviderWork == Spec => []ProviderWorkIsBacked
  BY AsyncSafety, InvBacks, PTL

-----------------------------------------------------------------------------
(* Deletion.                                                                 *)

LEMMA InvPurges == AsyncInv => PurgeIsFinal
  <1> SUFFICES ASSUME AsyncInv, NEW s \in Session
               PROVE  /\ purge[s] >= 1 => ~Holds(s)
                      /\ ~run[s].exists /\ ~Tombstone(s) =>
                            /\ ~Exists(s) /\ s \notin doc /\ ~run[s].audio
                            /\ ~run[s].receipt /\ ~Holds(s)
    BY DEF PurgeIsFinal, NoHandlerUnderPurge, PurgedIsGone
  <1>1. Blocks(s) /\ Gone(s)
    BY DEF AsyncInv, SessionOK
  <1> QED
    BY <1>1 DEF Blocks, Gone, ErasedRun, StoppedRun

-----------------------------------------------------------------------------
(* How a step may move one session's run: the abstraction shared by both     *)
(* promises below.                                                           *)

Open == {"pending", "reserved", "enqueued"}
Moves(r, q) ==
    /\ q.exists <=> r.exists
    /\ r.receipt => q.receipt
    /\ q.receipt => r.receipt \/ (r.async = "enqueued" /\ q.async = "enqueued")
    /\ \/ /\ q.async = r.async
          /\ r.projection = "ready" => q.projection = "ready"
       \/ r.async = "none" /\ q.async \in Open
       \/ r.async \in Open /\ q.async \in Open \cup {"failed"}
       \/ r.async = "enqueued" /\ q.async = "completed" /\ q.projection # "ready"
    /\ RowChecks(r) => Accepted(r, q)

\* How a projection goes on.
Turns(old, new) ==
    <<old, new>> \in {<<"pending", "pending">>, <<"pending", "projecting">>,
                     <<"projecting", "ready">>, <<"projecting", "failed">>,
                     <<"failed", "pending">>}

\* A move that makes no receipt.
Keeps(r, q) == Moves(r, q) /\ (q.receipt => r.receipt)

\* The writes of the main database.
LEMMA RunMoves ==
    ASSUME NEW r \in Run
    PROVE  /\ Keeps(r, r)
           /\ Keeps(r, [r EXCEPT !.provenance = TRUE])
           /\ Keeps(r, [r EXCEPT !.audio = FALSE])
           /\ r.receipt => \A x \in {"pending", "ready", "failed"} :
                 Keeps(r, [r EXCEPT !.search = x])
           /\ r.async \in {"reserved", "enqueued"} => Keeps(r, EnqueuedRun(r))
           /\ r.async = "enqueued" /\ r.provenance /\ ~r.receipt => Moves(r, CommittedRun(r))
           /\ r.async \in {"completed", "enqueued"} => Keeps(r, ClosedRun(r, TRUE))
           /\ r.async \in {"failed", "reserved", "enqueued"} => Keeps(r, ClosedRun(r, FALSE))
           /\ r.async = "none" => Keeps(r, [r EXCEPT !.async = "pending"])
           /\ r.async = "pending" => Keeps(r, [r EXCEPT !.async = "reserved"])
           /\ \A x \in ProjectionState :
                 Turns(r.projection, x) => Keeps(r, [r EXCEPT !.projection = x])
  <1> USE DEF Run, AsyncState, Moves, Keeps, Open, Accepted, Takes, TriggersAllow, RowChecks
  <1>1. /\ Keeps(r, r)
        /\ Keeps(r, [r EXCEPT !.provenance = TRUE])
        /\ Keeps(r, [r EXCEPT !.audio = FALSE])
    OBVIOUS
  <1>2. r.receipt => \A x \in {"pending", "ready", "failed"} : Keeps(r, [r EXCEPT !.search = x])
    OBVIOUS
  <1>3. r.async \in {"reserved", "enqueued"} => Keeps(r, EnqueuedRun(r))
    BY DEF EnqueuedRun
  <1>4. r.async = "enqueued" /\ r.provenance /\ ~r.receipt => Moves(r, CommittedRun(r))
    BY DEF CommittedRun
  <1>5. r.async \in {"completed", "enqueued"} => Keeps(r, ClosedRun(r, TRUE))
    BY DEF ClosedRun, Desired
  <1>6. r.async \in {"failed", "reserved", "enqueued"} => Keeps(r, ClosedRun(r, FALSE))
    BY DEF ClosedRun, Desired, EnqueuedRun
  <1>7. r.async = "none" => Keeps(r, [r EXCEPT !.async = "pending"])
    OBVIOUS
  <1>8. r.async = "pending" => Keeps(r, [r EXCEPT !.async = "reserved"])
    OBVIOUS
  <1>9. \A x \in ProjectionState :
           Turns(r.projection, x) => Keeps(r, [r EXCEPT !.projection = x])
    BY DEF ProjectionState, Turns
  <1> QED
    BY <1>1, <1>2, <1>3, <1>4, <1>5, <1>6, <1>7, <1>8, <1>9

\* The step writes no run but this session's, and under a tombstone does not
\* commit.
Writes(v) ==
    /\ purge' = purge
    /\ \A s \in Session : s # v => run'[s] = run[s]
    /\ v \in Session => /\ Moves(run[v], run'[v])
                        /\ Tombstone(v) /\ run'[v].receipt => run[v].receipt

LEMMA WritesNothing ==
    ASSUME AsyncInv, NEW v, UNCHANGED <<run, purge>>
    PROVE  Writes(v)
  <1>1. v \in Session => run[v] \in Run
    BY DEF AsyncInv, Typed
  <1> QED
    BY <1>1, RunMoves DEF Writes, Keeps

LEMMA WritesRun ==
    ASSUME AsyncInv, NEW v \in Session, NEW r, SetRun(v, r), purge' = purge,
           Moves(run[v], r), Tombstone(v) /\ r.receipt => run[v].receipt
    PROVE  Writes(v)
  <1>1. run \in [Session -> Run]
    BY DEF AsyncInv, Typed
  <1> QED
    BY <1>1 DEF Writes, SetRun

\* An update of the run that makes no receipt.
LEMMA WritesKeeping ==
    ASSUME AsyncInv, NEW v \in Session, NEW r, SetRun(v, r), purge' = purge,
           Keeps(run[v], r)
    PROVE  Writes(v)
  BY WritesRun DEF Keeps

(* The writes that both actors make. *)

LEMMA SearchWrites ==
    ASSUME AsyncInv, NEW v \in Session, ProjectSearch(v), purge' = purge
    PROVE  Writes(v)
  <1>0. run[v] \in Run
    BY DEF AsyncInv, Typed
  <1>1. CASE UNCHANGED run
    BY <1>1, WritesNothing
  <1>2. CASE run[v].receipt /\ \E x \in {"ready", "failed"} : SetRun(v, [run[v] EXCEPT !.search = x])
    <2>1. PICK x \in {"ready", "failed"} : SetRun(v, [run[v] EXCEPT !.search = x])
      BY <1>2
    <2>2. Keeps(run[v], [run[v] EXCEPT !.search = x])
      BY <1>0, <1>2, RunMoves
    <2> QED
      BY <2>1, <2>2, WritesKeeping
  <1> QED
    BY <1>1, <1>2 DEF ProjectSearch, IndexReady, IndexFails

LEMMA CloseWrites ==
    ASSUME AsyncInv, NEW v \in Session, NEW success \in BOOLEAN, CanClose(v, success),
           SetRun(v, ClosedRun(run[v], success)), purge' = purge
    PROVE  Writes(v)
  <1>0. run[v] \in Run
    BY DEF AsyncInv, Typed
  <1>1. CASE success
    <2>1. Keeps(run[v], ClosedRun(run[v], TRUE))
      BY <1>0, <1>1, RunMoves DEF CanClose, Desired
    <2>2. SetRun(v, ClosedRun(run[v], TRUE))
      BY <1>1
    <2> QED
      BY <2>1, <2>2, WritesKeeping
  <1>2. CASE ~success
    <2>1. Keeps(run[v], ClosedRun(run[v], FALSE))
      BY <1>0, <1>2, RunMoves DEF CanClose, Desired
    <2>2. SetRun(v, ClosedRun(run[v], FALSE))
      BY <1>2
    <2> QED
      BY <2>1, <2>2, WritesKeeping
  <1> QED
    BY <1>1, <1>2

LEMMA ProjectionWrites ==
    ASSUME AsyncInv, NEW v \in Session, NEW x \in ProjectionState,
           Turns(run[v].projection, x),
           SetRun(v, [run[v] EXCEPT !.projection = x]), purge' = purge
    PROVE  Writes(v)
  <1>0. run[v] \in Run
    BY DEF AsyncInv, Typed
  <1>1. Keeps(run[v], [run[v] EXCEPT !.projection = x])
    BY <1>0, RunMoves
  <1> QED
    BY <1>1, WritesKeeping

LEMMA EnqueuedWrites ==
    ASSUME AsyncInv, NEW v \in Session, run[v].async \in {"reserved", "enqueued"},
           SetRun(v, EnqueuedRun(run[v])), purge' = purge
    PROVE  Writes(v)
  <1>0. run[v] \in Run
    BY DEF AsyncInv, Typed
  <1>1. Keeps(run[v], EnqueuedRun(run[v]))
    BY <1>0, RunMoves
  <1> QED
    BY <1>1, WritesKeeping

LEMMA CleanedWrites ==
    ASSUME AsyncInv, NEW v \in Session, SetRun(v, CleanedRun(v)), purge' = purge
    PROVE  Writes(v)
  <1>0. run[v] \in Run
    BY DEF AsyncInv, Typed
  <1>1. Keeps(run[v], CleanedRun(v))
    BY <1>0, RunMoves DEF CleanedRun
  <1> QED
    BY <1>1, WritesKeeping

\* A projection is begun where it is pending and ended where it is being written.
LEMMA ProjectionTurns ==
    ASSUME AsyncInv, NEW v \in Session, NEW x,
           \/ CanProject(v) /\ x = "projecting"
           \/ /\ (Projecting(worker.pc) /\ W = v) \/ (Projecting(api.pc) /\ A = v)
              /\ x \in {"ready", "failed"}
    PROVE  x \in ProjectionState /\ Turns(run[v].projection, x)
  BY DEF CanProject, AsyncInv, ActorsOK, ProjectingOK, ProjectionState, Turns

LEMMA WorkerWritesOne == AsyncInv /\ WorkerNext => \E v \in Session \cup {NoSession} : Writes(v)
  <1> SUFFICES ASSUME AsyncInv, WorkerNext PROVE Writes(W)
    BY DEF AsyncInv, Typed, WorkerRow, W
  <1>0. WorkerOK /\ worker \in WorkerRow /\ run \in [Session -> Run]
    BY DEF AsyncInv, ActorsOK, Typed
  <1>1. CASE \/ \E s \in Session : PollReconciles(s) \/ PollClaimsReceipt(s) \/ PollClaimsNext(s)
             \/ PollFindsNoReceipt \/ PollEndsEmpty \/ CredentialVanishes \/ ReleaseUnkeyed
             \/ Register \/ RegisterRefused \/ CheckPasses \/ CheckStops
    BY <1>1, WritesNothing
       DEF PollReconciles, PollClaimsReceipt, PollClaimsNext, PollFindsNoReceipt,
           PollEndsEmpty, CredentialVanishes, ReleaseUnkeyed, Register, RegisterRefused,
           CheckPasses, CheckStops, WorkerFrame
  <1>2. CASE \/ VerifyRejects \/ PreflightFails \/ DispatchReplays \/ DispatchRefuses
             \/ DispatchPrepares \/ GateRefuses \/ JournalOpens \/ JournalRefuses
             \/ UploadBegins \/ ProviderSucceeds \/ ProviderFails
             \/ CommitRefused \/ JoinHandler \/ FinalizeFails \/ CompleteRow \/ HandlerFailed
             \/ WorkerDrops \/ RecoveryRegisters
    BY <1>2, WritesNothing
       DEF VerifyRejects, PreflightFails, DispatchReplays, DispatchRefuses, DispatchPrepares,
           GateRefuses, JournalOpens, JournalRefuses, UploadBegins, ProviderSucceeds,
           ProviderFails, CommitRefused, JoinHandler, FinalizeFails, CompleteRow, HandlerFailed, WorkerDrops, RecoveryRegisters, WorkerFrame
  <1>3. CASE VerifyPasses
    <2>1. W \in Session /\ run[W].async \in {"reserved", "enqueued"}
      BY <1>0, <1>3 DEF VerifyPasses, Verified, WorkerOK, At
    <2> QED
      BY <1>3, <2>1, EnqueuedWrites DEF VerifyPasses, WorkerFrame
  <1>4. CASE GateOpens
    <2>1. W \in Session
      BY <1>0, <1>4 DEF GateOpens, WorkerOK, At
    <2>2. Keeps(run[W], [run[W] EXCEPT !.provenance = TRUE])
      BY <1>0, <2>1, RunMoves
    <2> QED
      BY <1>4, <2>1, <2>2, WritesKeeping DEF GateOpens, WorkerFrame
  <1>5. CASE CommitReceipt
    <2>1. W \in Session /\ ~Tombstone(W)
      BY <1>0, <1>5 DEF CommitReceipt, CanCommit, WorkerOK, At
    <2>2. Moves(run[W], CommittedRun(run[W]))
      BY <1>0, <1>5, <2>1, RunMoves DEF CommitReceipt, CanCommit
    <2> QED
      BY <1>5, <2>1, <2>2, WritesRun DEF CommitReceipt, WorkerFrame
  <1>6. CASE HandlerIndexes \/ RecoveryIndexes
    <2>1. W \in Session
      BY <1>0, <1>6 DEF HandlerIndexes, RecoveryIndexes, WorkerOK, At
    <2> QED
      BY <1>6, <2>1, SearchWrites DEF HandlerIndexes, RecoveryIndexes, WorkerFrame
  <1>7. CASE FinalizeCleans
    <2>1. W \in Session
      BY <1>0, <1>7 DEF FinalizeCleans, WorkerOK, At
    <2> QED
      BY <1>7, <2>1, CleanedWrites DEF FinalizeCleans, WorkerFrame
  <1>8. CASE CloseRun \/ RecoveryCloses
    <2>1. W \in Session /\ purge' = purge
      BY <1>0, <1>8 DEF CloseRun, RecoveryCloses, WorkerOK, At, WorkerFrame
    <2>2. \/ UNCHANGED run
          \/ \E success \in BOOLEAN : CanClose(W, success) /\ SetRun(W, ClosedRun(run[W], success))
      <3>1. (tasks[W].status # "failed") \in BOOLEAN /\ TRUE \in BOOLEAN
        OBVIOUS
      <3>2. CASE CloseRun
        BY <3>1, <3>2 DEF CloseRun
      <3>3. CASE RecoveryCloses
        BY <3>1, <3>3 DEF RecoveryCloses
      <3> QED
        BY <1>8, <3>2, <3>3
    <2> QED
      BY <2>1, <2>2, WritesNothing, CloseWrites
  <1>9. CASE WorkerProjects \/ WorkerWrites \/ WorkerPublishes
    <2>1. W \in Session /\ purge' = purge
      BY <1>0, <1>9 DEF WorkerProjects, WorkerWrites, WorkerPublishes, WorkerOK, At, WorkerFrame
    <2>2. \/ UNCHANGED run
          \/ \E x \in {"projecting", "ready", "failed"} :
                /\ \/ CanProject(W) /\ x = "projecting"
                   \/ Projecting(worker.pc) /\ x \in {"ready", "failed"}
                /\ SetRun(W, [run[W] EXCEPT !.projection = x])
      <3>1. CASE WorkerProjects
        BY <3>1 DEF WorkerProjects, BeginProjection
      <3>2. CASE WorkerWrites
        BY <3>2 DEF WorkerWrites, DocumentWritten, DocumentFails, At, Projecting
      <3>3. CASE WorkerPublishes
        BY <3>3 DEF WorkerPublishes, PublishProjection, At, Projecting
      <3> QED
        BY <1>9, <3>1, <3>2, <3>3
    <2>3. CASE UNCHANGED run
      BY <2>1, <2>3, WritesNothing
    <2>4. CASE ~UNCHANGED run
      <3>1. PICK x \in {"projecting", "ready", "failed"} :
               /\ \/ CanProject(W) /\ x = "projecting"
                  \/ Projecting(worker.pc) /\ x \in {"ready", "failed"}
               /\ SetRun(W, [run[W] EXCEPT !.projection = x])
        BY <2>2, <2>4
      <3>2. x \in ProjectionState /\ Turns(run[W].projection, x)
        BY <2>1, <3>1, ProjectionTurns
      <3> QED
        BY <2>1, <3>1, <3>2, ProjectionWrites
    <2> QED
      BY <2>3, <2>4
  <1> QED
    BY <1>1, <1>2, <1>3, <1>4, <1>5, <1>6, <1>7, <1>8, <1>9 DEF WorkerNext

LEMMA CallWritesOne ==
    ASSUME AsyncInv,
           \/ Reserve \/ EnqueueRow \/ MarkEnqueued \/ ReadReceipt \/ ReadRow \/ Promote
           \/ Decide \/ RecoverIndex \/ RecoverPrivacy \/ RecoverComplete \/ RecoverMark
           \/ CallProjects \/ CallWrites \/ CallPublishes \/ BootIndexes
    PROVE  \E v \in Session \cup {NoSession} : Writes(v)
  <1>0. /\ api.pc \in Plain /\ purge' = purge
    BY DEF Reserve, EnqueueRow, MarkEnqueued, ReadReceipt, ReadRow, Promote, Decide,
           RecoverIndex, RecoverPrivacy, RecoverComplete, RecoverMark, CallProjects,
           CallWrites, CallPublishes, BootIndexes, Calling, Plain, ApiStep, PurgeStep, ApiFrame
  <1>1. PICK v \in Session : v = A
    BY <1>0, CallFacts
  <1>2. run[v] \in Run
    BY DEF AsyncInv, Typed
  <1> SUFFICES Writes(v)
    OBVIOUS
  <1>3. CASE UNCHANGED run
    BY <1>0, <1>3, WritesNothing
  <1>4. CASE Reserve
    <2>1. run[v].async = "pending"
      BY <1>0, <1>1, <1>4, CallFacts DEF Reserve, Serves, Calling
    <2>2. Keeps(run[v], [run[v] EXCEPT !.async = "reserved"])
      BY <1>2, <2>1, RunMoves
    <2> QED
      BY <1>0, <1>1, <1>4, <2>2, WritesKeeping DEF Reserve
  <1>5. CASE ~UNCHANGED run /\ (MarkEnqueued \/ Promote)
    <2>1. CanMarkEnqueued(v) /\ SetRun(v, EnqueuedRun(run[v]))
      BY <1>1, <1>5 DEF MarkEnqueued, Promote
    <2> QED
      BY <1>0, <2>1, EnqueuedWrites DEF CanMarkEnqueued
  <1>6. CASE ~UNCHANGED run /\ (ReadRow \/ Decide \/ RecoverMark)
    <2>1. PICK success \in BOOLEAN : CanClose(v, success) /\ SetRun(v, ClosedRun(run[v], success))
      <3>1. (api.status = "completed") \in BOOLEAN /\ TRUE \in BOOLEAN /\ FALSE \in BOOLEAN
        OBVIOUS
      <3>2. CASE ReadRow
        BY <1>1, <1>6, <3>1, <3>2 DEF ReadRow
      <3>3. CASE Decide
        BY <1>1, <1>6, <3>1, <3>3 DEF Decide
      <3>4. CASE RecoverMark
        BY <1>1, <1>6, <3>1, <3>4 DEF RecoverMark
      <3> QED
        BY <1>6, <3>2, <3>3, <3>4
    <2> QED
      BY <1>0, <2>1, CloseWrites
  <1>7. CASE RecoverIndex \/ BootIndexes
    BY <1>0, <1>1, <1>7, SearchWrites DEF RecoverIndex, BootIndexes
  <1>8. CASE ~UNCHANGED run /\ RecoverPrivacy
    BY <1>0, <1>1, <1>8, CleanedWrites DEF RecoverPrivacy
  <1>9. CASE ~UNCHANGED run /\ (CallProjects \/ CallWrites \/ CallPublishes)
    <2>1. \E x \in {"projecting", "ready", "failed"} :
             /\ \/ CanProject(v) /\ x = "projecting"
                \/ Projecting(api.pc) /\ x \in {"ready", "failed"}
             /\ SetRun(v, [run[v] EXCEPT !.projection = x])
      <3>1. CASE CallProjects
        BY <1>1, <1>9, <3>1 DEF CallProjects, BeginProjection
      <3>2. CASE CallWrites
        BY <1>1, <1>9, <3>2 DEF CallWrites, DocumentWritten, DocumentFails, Calling, Projecting
      <3>3. CASE CallPublishes
        BY <1>1, <1>9, <3>3 DEF CallPublishes, PublishProjection, Calling, Projecting
      <3> QED
        BY <1>9, <3>1, <3>2, <3>3
    <2>2. PICK x \in {"projecting", "ready", "failed"} :
             /\ \/ CanProject(v) /\ x = "projecting"
                \/ Projecting(api.pc) /\ x \in {"ready", "failed"}
             /\ SetRun(v, [run[v] EXCEPT !.projection = x])
      BY <2>1
    <2>3. x \in ProjectionState /\ Turns(run[v].projection, x)
      BY <1>1, <2>2, ProjectionTurns
    <2> QED
      BY <1>0, <2>2, <2>3, ProjectionWrites
  <1>10. CASE EnqueueRow \/ ReadReceipt \/ RecoverComplete
    BY <1>3, <1>10 DEF EnqueueRow, ReadReceipt, RecoverComplete
  <1> QED
    BY <1>3, <1>4, <1>5, <1>6, <1>7, <1>8, <1>9, <1>10

\* The user's calls, and every other step that leaves runs and sagas alone.
LEMMA OthersWriteOne ==
    ASSUME AsyncInv,
           \/ \E s \in Session : Request(s) \/ RetryProjection(s) \/ BootVisits(s)
           \/ BlockAndCancel \/ HandlersStopped \/ WaitTimesOut \/ PurgeFails \/ BootAdvances
           \/ HeartbeatRuns \/ LeaseRunsOut \/ UNCHANGED vars
    PROVE  \E v \in Session \cup {NoSession} : Writes(v)
  <1>1. CASE \E s \in Session : Request(s)
    <2>1. PICK s \in Session : Request(s)
      BY <1>1
    <2>2. run[s] \in Run
      BY DEF AsyncInv, Typed
    <2> DEFINE state == IF run[s].async = "none" THEN "pending" ELSE run[s].async
    <2>3. SetRun(s, [run[s] EXCEPT !.async = state]) /\ purge' = purge
      BY <2>1 DEF Request, ApiFrame
    <2>4. Keeps(run[s], [run[s] EXCEPT !.async = state])
      <3>1. CASE run[s].async = "none"
        BY <2>2, <3>1, RunMoves
      <3>2. CASE run[s].async # "none"
        <4>1. [run[s] EXCEPT !.async = state] = run[s]
          BY <2>2, <3>2 DEF Run
        <4> HIDE DEF state
        <4> QED
          BY <2>2, <4>1, RunMoves
      <3> QED
        BY <3>1, <3>2
    <2> HIDE DEF state
    <2>5. Writes(s)
      BY <2>3, <2>4, WritesKeeping
    <2> QED
      BY <2>5
  <1>2. CASE \E s \in Session : RetryProjection(s)
    <2>1. PICK s \in Session : RetryProjection(s)
      BY <1>2
    <2>2. "pending" \in ProjectionState /\ Turns(run[s].projection, "pending")
      BY <2>1 DEF RetryProjection, ProjectionState, Turns
    <2>3. Writes(s)
      BY <2>1, <2>2, ProjectionWrites DEF RetryProjection, ApiFrame
    <2> QED
      BY <2>3
  <1>3. CASE UNCHANGED <<run, purge>>
    BY <1>3, WritesNothing
  <1>4. CASE \/ \E s \in Session : BootVisits(s)
             \/ BlockAndCancel \/ HandlersStopped \/ WaitTimesOut \/ PurgeFails \/ BootAdvances
             \/ HeartbeatRuns \/ LeaseRunsOut \/ UNCHANGED vars
    BY <1>3, <1>4 DEF BootVisits, BlockAndCancel, HandlersStopped, WaitTimesOut, PurgeFails,
                      BootAdvances, HeartbeatRuns, LeaseRunsOut, vars, asyncVars, ApiFrame
  <1> QED
    BY <1>1, <1>2, <1>4

\* Every step is one of these.
LEMMA StepKinds ==
    AsyncInv /\ [Next]_vars =>
       \/ \E v \in Session \cup {NoSession} : Writes(v)
       \/ \E s \in Session : BeginPurge(s)
       \/ PurgeEffect \/ PurgeAdvances \/ FinishPurge \/ Crash
  BY WorkerWritesOne, CallWritesOne, OthersWriteOne DEF Next, CallNext, UserNext

\* What is left of a run under its saga, or over a crash.
LEMMA EffectForgets ==
    ASSUME AsyncInv, PurgeEffect
    PROVE  /\ UNCHANGED <<purge, uploads>> /\ A \in Session /\ Tombstone(A)
           /\ \A s \in Session : s # A => run'[s] = run[s]
           /\ run'[A].receipt => run[A].receipt
  <1>1. A \in Session
    BY PurgeFacts DEF PurgeEffect, Calling, PurgeStep
  <1>2. PICK v \in Session : v = A
    BY <1>1
  <1>3. /\ Tombstone(v) /\ ApiFrame /\ purge' = purge
        /\ \A s \in Session : s # v => run'[s] = run[s]
        /\ run'[v] = CASE purge[v] + 1 = 4 -> [run[v] EXCEPT !.audio = FALSE]
                       [] purge[v] + 1 = 5 -> ErasedRun
                       [] OTHER -> run[v]
    BY <1>2, EffectFacts
  <1>4. run[v] \in Run
    BY DEF AsyncInv, Typed
  <1>5. run'[v].receipt => run[v].receipt
    <2>1. CASE purge[v] + 1 = 4
      BY <1>3, <1>4, <2>1 DEF Run
    <2>2. CASE purge[v] + 1 = 5
      <3>1. run'[v] = ErasedRun
        BY <1>3, <2>2
      <3> QED
        BY <3>1 DEF ErasedRun, StoppedRun
    <2>3. CASE purge[v] + 1 # 4 /\ purge[v] + 1 # 5
      BY <1>3, <2>3
    <2> QED
      BY <2>1, <2>2, <2>3
  <1> QED
    BY <1>1, <1>2, <1>3, <1>5 DEF ApiFrame

LEMMA CrashKeeps ==
    ASSUME AsyncInv, Crash
    PROVE  /\ UNCHANGED <<purge, uploads>>
           /\ \A s \in Session :
                 /\ run'[s].exists <=> run[s].exists
                 /\ run'[s].receipt <=> run[s].receipt
                 /\ run'[s].async = run[s].async
                 /\ run'[s].projection = "ready" <=> run[s].projection = "ready"
  <1>1. run \in [Session -> Run]
    BY DEF AsyncInv, Typed
  <1>2. run' = [s \in Session |-> IF run[s].projection = "projecting"
                                  THEN [run[s] EXCEPT !.projection = "failed"] ELSE run[s]]
    BY DEF Crash
  <1>3. ASSUME NEW s \in Session
        PROVE  /\ run'[s].exists <=> run[s].exists
               /\ run'[s].receipt <=> run[s].receipt
               /\ run'[s].async = run[s].async
               /\ run'[s].projection = "ready" <=> run[s].projection = "ready"
    BY <1>1, <1>2 DEF Run
  <1> QED
    BY <1>3 DEF Crash

LEMMA DeletionStep ==
    AsyncInv /\ AsyncInv' /\ [Next]_vars => NothingNewUnderTombstone /\ PurgeIsFinal'
  <1> SUFFICES ASSUME AsyncInv, AsyncInv', [Next]_vars
               PROVE  NothingNewUnderTombstone /\ PurgeIsFinal'
    OBVIOUS
  <1>1. PurgeIsFinal'
    BY InvPurges, PTL
  <1>2. \A s \in Session : Tombstone(s) /\ run'[s].receipt => run[s].receipt
    <2>1. CASE \E v \in Session \cup {NoSession} : Writes(v)
      BY <2>1 DEF Writes
    <2>2. CASE \/ \E s \in Session : BeginPurge(s)
               \/ PurgeAdvances \/ FinishPurge
      BY <2>2 DEF BeginPurge, PurgeAdvances, FinishPurge
    <2>3. CASE PurgeEffect
      BY <2>3, EffectForgets
    <2>4. CASE Crash
      BY <2>4, CrashKeeps
    <2> QED
      BY <2>1, <2>2, <2>3, <2>4, StepKinds
  <1>3. ASSUME NEW s \in Session, Tombstone(s)
        PROVE  /\ Cleared(s)' => Cleared(s)
               /\ uploads'[s] # uploads[s] => Cleared(s) /\ purge[s] = 0
    <2>1. CASE GateOpens
      <3>1. At("gate") /\ GoTo("journal") /\ uploads' = uploads /\ W # s
        BY <1>3, <2>1 DEF GateOpens, MayClaim
      <3>2. ~Cleared(s)'
        BY <3>1, GoesTo DEF Cleared, AsyncInv, Typed, WorkerStep, W
      <3> QED
        BY <3>1, <3>2
    <2>2. CASE UploadBegins
      <3>1. /\ worker.pc \in Owned /\ At("upload") /\ GoTo("provider")
            /\ uploads' = [uploads EXCEPT ![W] = @ + 1]
        BY <2>2 DEF UploadBegins, At, Owned, WorkerStep
      <3>2. ~Cleared(s)'
        BY <3>1, GoesTo DEF Cleared, AsyncInv, Typed, WorkerStep
      <3>3. uploads'[s] # uploads[s] => W = s
        BY <3>1 DEF AsyncInv, Typed
      <3>4. W = s => purge[s] = 0
        BY <1>3, <3>1, OwnedFacts DEF Tombstone
      <3> QED
        BY <3>1, <3>2, <3>3, <3>4 DEF Cleared, At
    <2>3. CASE ~GateOpens /\ ~UploadBegins
      BY <2>3, UploadSteps
    <2> QED
      BY <2>1, <2>2, <2>3
  <1> QED
    BY <1>1, <1>2, <1>3 DEF NothingNewUnderTombstone

(***************************************************************************)
(* From the durable tombstone of purge_session_forever on, no handler of    *)
(* the session passes the provenance gate and nothing is committed for it, *)
(* wherever the handler is; the one upload of a handler that had passed    *)
(* the gate can begin only before task_handlers_stopped is recorded; past  *)
(* it no handler of the session holds on or comes back, in this process or *)
(* the next; and when complete_session_purge_job has removed the tombstone *)
(* no store has anything left of it.                                       *)
(***************************************************************************)
THEOREM Deletion == Spec => DeletionHolds
  <1>1. AsyncInv /\ AsyncInv' /\ [Next]_vars
           => [NothingNewUnderTombstone /\ PurgeIsFinal']_vars
    BY DeletionStep
  <1> QED
    BY <1>1, AsyncSafety, PTL DEF Spec, DeletionHolds

-----------------------------------------------------------------------------
(* The refinement: what a step makes of one session's outcome.               *)

Steps(o, p) == p = o \/ p = "erased" \/ p \in Promise!Follows[o]

LEMMA FollowSteps ==
    /\ Steps("idle", "requested")
    /\ Steps("requested", "transcribed") /\ Steps("requested", "failed")
    /\ Steps("transcribed", "completed") /\ Steps("transcribed", "failed")
    /\ Steps("completed", "published")
    /\ \A o \in Promise!Outcome : Steps(o, o) /\ Steps(o, "erased")
  BY DEF Steps, Promise!Follows

\* A live run's outcome.
LiveOutcome(r) ==
    CASE r.async = "completed" -> IF r.projection = "ready" THEN "published" ELSE "completed"
      [] r.async = "failed" -> "failed"
      [] r.async = "none" -> "idle"
      [] OTHER -> IF r.receipt THEN "transcribed" ELSE "requested"

LEMMA OutcomeCases ==
    ASSUME NEW r \in Run
    PROVE  /\ r.async = "none" => LiveOutcome(r) = "idle"
           /\ r.async \in Open =>
                 LiveOutcome(r) = IF r.receipt THEN "transcribed" ELSE "requested"
           /\ r.async = "completed" =>
                 LiveOutcome(r) = IF r.projection = "ready" THEN "published" ELSE "completed"
           /\ r.async = "failed" => LiveOutcome(r) = "failed"
           /\ LiveOutcome(r) \in Promise!Outcome
  <1> USE DEF Promise!Outcome
  <1>0. r.async \in AsyncState /\ r.receipt \in BOOLEAN
    BY DEF Run
  <1>1. CASE r.async = "none"
    <2>1. LiveOutcome(r) = "idle"
      BY <1>1 DEF LiveOutcome
    <2> QED
      BY <1>1, <2>1 DEF Open
  <1>2. CASE r.async \in Open
    <2>1. LiveOutcome(r) = IF r.receipt THEN "transcribed" ELSE "requested"
      BY <1>2 DEF LiveOutcome, Open
    <2>2. LiveOutcome(r) \in {"transcribed", "requested"}
      BY <2>1
    <2> QED
      BY <1>2, <2>1, <2>2 DEF Open
  <1>3. CASE r.async = "completed"
    <2>1. LiveOutcome(r) = IF r.projection = "ready" THEN "published" ELSE "completed"
      BY <1>3 DEF LiveOutcome
    <2>2. LiveOutcome(r) \in {"published", "completed"}
      BY <2>1
    <2> QED
      BY <1>3, <2>1, <2>2 DEF Open
  <1>4. CASE r.async = "failed"
    <2>1. LiveOutcome(r) = "failed"
      BY <1>4 DEF LiveOutcome
    <2> QED
      BY <1>4, <2>1 DEF Open
  <1> QED
    BY <1>0, <1>1, <1>2, <1>3, <1>4 DEF AsyncState, Open

LEMMA MovesFollow ==
    ASSUME NEW r \in Run, NEW q \in Run, Moves(r, q),
           r.async = "none" => ~r.receipt, q.async = "completed" => q.receipt
    PROVE  Steps(LiveOutcome(r), LiveOutcome(q))
  <1>1. /\ r.async \in AsyncState /\ LiveOutcome(r) \in Promise!Outcome
        /\ q.receipt \in BOOLEAN /\ r.receipt \in BOOLEAN
    BY OutcomeCases DEF Run
  <1>2. CASE LiveOutcome(q) = LiveOutcome(r)
    BY <1>2 DEF Steps
  <1>3. CASE /\ q.async = r.async
             /\ r.projection = "ready" => q.projection = "ready"
    <2>1. CASE r.async \in {"none", "failed"}
      BY <1>2, <1>3, <2>1, OutcomeCases
    <2>2. CASE r.async \in Open
      <3>1. CASE r.receipt
        BY <1>2, <1>3, <2>2, <3>1, OutcomeCases DEF Moves
      <3>2. CASE ~r.receipt
        BY <1>2, <1>3, <2>2, <3>2, OutcomeCases, FollowSteps
      <3> QED
        BY <3>1, <3>2
    <2>3. CASE r.async = "completed"
      BY <1>2, <1>3, <2>3, OutcomeCases, FollowSteps
    <2> QED
      BY <1>1, <2>1, <2>2, <2>3 DEF AsyncState, Open
  <1>4. CASE r.async = "none" /\ q.async \in Open
    <2>1. ~q.receipt
      BY <1>4 DEF Moves
    <2> QED
      BY <1>4, <2>1, OutcomeCases, FollowSteps
  <1>5. CASE r.async \in Open /\ q.async \in Open
    <2>1. CASE r.receipt
      BY <1>2, <1>5, <2>1, OutcomeCases DEF Moves
    <2>2. CASE ~r.receipt
      BY <1>2, <1>5, <2>2, OutcomeCases, FollowSteps
    <2> QED
      BY <2>1, <2>2
  <1>6. CASE r.async \in Open /\ q.async = "failed"
    BY <1>6, OutcomeCases, FollowSteps
  <1>7. CASE r.async = "enqueued" /\ q.async = "completed" /\ q.projection # "ready"
    <2>1. r.receipt
      BY <1>7 DEF Moves
    <2> QED
      BY <1>7, <2>1, OutcomeCases, FollowSteps DEF Open
  <1> QED
    BY <1>3, <1>4, <1>5, <1>6, <1>7 DEF Moves

LEMMA OutcomeIs ==
    ASSUME NEW s
    PROVE  OutcomeOf(s) = IF Tombstone(s) \/ ~run[s].exists THEN "erased"
                          ELSE LiveOutcome(run[s])
  BY DEF OutcomeOf, LiveOutcome

LEMMA OutcomeIsNext ==
    ASSUME NEW s
    PROVE  OutcomeOf(s)' = IF Tombstone(s)' \/ ~run'[s].exists THEN "erased"
                           ELSE LiveOutcome(run'[s])
  BY DEF OutcomeOf, LiveOutcome

\* A step that moves one session's outcome along is a step of the promise.
LEMMA OneOutcome ==
    ASSUME NEW v \in Session,
           \A s \in Session : s # v => OutcomeOf(s)' = OutcomeOf(s),
           Steps(OutcomeOf(v), OutcomeOf(v)')
    PROVE  Promise!PromiseNext \/ UNCHANGED [s \in Session |-> OutcomeOf(s)]
  <1> DEFINE out == [s \in Session |-> OutcomeOf(s)]
  <1>1. out' = [out EXCEPT ![v] = OutcomeOf(v)'] /\ out[v] = OutcomeOf(v)
    OBVIOUS
  <1>2. CASE OutcomeOf(v)' = OutcomeOf(v)
    <2>1. out' = out
      BY <1>2
    <2> QED
      BY <2>1
  <1>3. CASE OutcomeOf(v)' = "erased" /\ OutcomeOf(v) # "erased"
    <2>1. Promise!Erase(v)
      BY <1>1, <1>3 DEF Promise!Erase
    <2> QED
      BY <2>1 DEF Promise!PromiseNext
  <1>4. CASE OutcomeOf(v)' \in Promise!Follows[OutcomeOf(v)]
    <2>1. Promise!Advance(v)
      BY <1>1, <1>4 DEF Promise!Advance
    <2> QED
      BY <2>1 DEF Promise!PromiseNext
  <1> QED
    BY <1>2, <1>3, <1>4 DEF Steps

LEMMA WritesFollow ==
    ASSUME AsyncInv, AsyncInv', NEW v \in Session, Writes(v)
    PROVE  Steps(OutcomeOf(v), OutcomeOf(v)')
  <1>1. run[v] \in Run /\ run'[v] \in Run
    BY DEF AsyncInv, Typed
  <1>2. (Tombstone(v)' <=> Tombstone(v)) /\ Moves(run[v], run'[v])
    BY DEF Writes, Tombstone
  <1>3. /\ run[v].async = "none" => ~run[v].receipt
        /\ run'[v].async = "completed" => run'[v].receipt
    BY DEF AsyncInv, SessionOK, Agrees
  <1>4. run'[v].exists <=> run[v].exists
    BY <1>2 DEF Moves
  <1>5. CASE Tombstone(v) \/ ~run[v].exists
    <2>1. OutcomeOf(v)' = "erased"
      BY <1>2, <1>4, <1>5, OutcomeIsNext
    <2> QED
      BY <2>1 DEF Steps
  <1>6. CASE ~(Tombstone(v) \/ ~run[v].exists)
    <2>1. OutcomeOf(v) = LiveOutcome(run[v]) /\ OutcomeOf(v)' = LiveOutcome(run'[v])
      BY <1>2, <1>4, <1>6, OutcomeIs, OutcomeIsNext
    <2> QED
      BY <1>1, <1>2, <1>3, <2>1, MovesFollow
  <1> QED
    BY <1>5, <1>6

\* What is neither written nor purged keeps its outcome.
LEMMA SameOutcome ==
    ASSUME NEW s, run'[s] = run[s], purge'[s] = purge[s]
    PROVE  OutcomeOf(s)' = OutcomeOf(s)
  BY DEF OutcomeOf, Tombstone

LEMMA PromiseStep ==
    AsyncInv /\ AsyncInv' /\ [Next]_vars
       => Promise!PromiseNext \/ UNCHANGED [s \in Session |-> OutcomeOf(s)]
  <1> SUFFICES ASSUME AsyncInv, AsyncInv', [Next]_vars
               PROVE  Promise!PromiseNext \/ UNCHANGED [s \in Session |-> OutcomeOf(s)]
    OBVIOUS
  <1>0. purge \in [Session -> NoPurge..LastPhase]
    BY DEF AsyncInv, Typed
  <1>1. CASE \E v \in Session \cup {NoSession} : Writes(v)
    <2>1. PICK v \in Session \cup {NoSession} : Writes(v)
      BY <1>1
    <2>2. \A s \in Session : s # v => OutcomeOf(s)' = OutcomeOf(s)
      BY <2>1, SameOutcome DEF Writes
    <2>3. CASE v \in Session
      BY <2>1, <2>2, <2>3, WritesFollow, OneOutcome
    <2>4. CASE v \notin Session
      BY <2>2, <2>4
    <2> QED
      BY <2>3, <2>4
  <1>2. CASE \E s \in Session : BeginPurge(s)
    <2>1. PICK v \in Session : BeginPurge(v)
      BY <1>2
    <2>2. /\ run' = run /\ purge' = [purge EXCEPT ![v] = IF Tombstone(v) THEN @ ELSE 0]
      BY <2>1 DEF BeginPurge
    <2>3. Tombstone(v)' /\ \A s \in Session : s # v => purge'[s] = purge[s]
      BY <1>0, <2>2 DEF Tombstone, NoPurge
    <2>4. \A s \in Session : s # v => OutcomeOf(s)' = OutcomeOf(s)
      BY <2>2, <2>3, SameOutcome
    <2>5. Steps(OutcomeOf(v), OutcomeOf(v)')
      BY <2>3, OutcomeIsNext DEF Steps
    <2> QED
      BY <2>4, <2>5, OneOutcome
  <1>3. CASE PurgeAdvances \/ FinishPurge \/ PurgeEffect
    <2>1. api.pc \in PurgeStep
      BY <1>3 DEF PurgeAdvances, FinishPurge, PurgeEffect, Calling, PurgeStep
    <2>2. PICK v \in Session : v = A
      BY <2>1, PurgeFacts
    <2>3. /\ purge[v] \in 0..LastPhase /\ (FinishPurge => purge[v] = LastPhase)
          /\ SessionOK(v) /\ SessionOK(v)'
      BY <2>1, <2>2, PurgeFacts DEF FinishPurge, AsyncInv
    <2>4. \A s \in Session : s # v => run'[s] = run[s] /\ purge'[s] = purge[s]
      <3>1. CASE PurgeAdvances \/ FinishPurge
        BY <1>0, <2>2, <3>1 DEF PurgeAdvances, FinishPurge
      <3>2. CASE PurgeEffect
        BY <2>2, <3>2, EffectForgets
      <3> QED
        BY <1>3, <3>1, <3>2
    <2>5. \A s \in Session : s # v => OutcomeOf(s)' = OutcomeOf(s)
      BY <2>4, SameOutcome
    <2>6. OutcomeOf(v)' = "erased"
      <3>1. CASE PurgeAdvances
        <4>1. purge'[v] = purge[v] + 1
          BY <1>0, <2>2, <3>1 DEF PurgeAdvances
        <4>2. Tombstone(v)'
          BY <2>3, <4>1 DEF Tombstone, NoPurge, LastPhase
        <4> QED
          BY <4>2, OutcomeIsNext
      <3>2. CASE PurgeEffect
        <4>1. Tombstone(v)'
          BY <2>2, <3>2, EffectForgets DEF Tombstone
        <4> QED
          BY <4>1, OutcomeIsNext
      <3>3. CASE FinishPurge
        <4>1. Reached(v) = LastPhase
          BY <2>3, <3>3 DEF Reached, Calling, FinishPurge
        <4>2. ~run'[v].exists
          BY <2>3, <3>3, <4>1 DEF SessionOK, Gone, FinishPurge, LastPhase
        <4> QED
          BY <4>2, OutcomeIsNext
      <3> QED
        BY <1>3, <3>1, <3>2, <3>3
    <2> QED
      BY <2>5, <2>6, OneOutcome DEF Steps
  <1>4. CASE Crash
    <2>1. ASSUME NEW s \in Session
          PROVE  OutcomeOf(s)' = OutcomeOf(s)
      <3>1. /\ Tombstone(s)' <=> Tombstone(s)
            /\ run'[s].exists <=> run[s].exists
            /\ run'[s].receipt <=> run[s].receipt
            /\ run'[s].async = run[s].async
            /\ run'[s].projection = "ready" <=> run[s].projection = "ready"
        BY <1>4, CrashKeeps DEF Tombstone
      <3>2. run[s] \in Run /\ run'[s] \in Run
        BY DEF AsyncInv, Typed
      <3>3. LiveOutcome(run'[s]) = LiveOutcome(run[s])
        BY <3>1, <3>2, OutcomeCases DEF Run, AsyncState, Open
      <3> QED
        BY <3>1, <3>3, OutcomeIs, OutcomeIsNext
    <2> QED
      BY <2>1
  <1> QED
    BY <1>1, <1>2, <1>3, <1>4, StepKinds

LEMMA PromiseStart == Init => Promise!PromiseInit
  <1> SUFFICES ASSUME Init PROVE Promise!PromiseInit
    OBVIOUS
  <1>1. \A s \in Session : run[s] = StoppedRun /\ ~Tombstone(s)
    BY DEF Init, Tombstone
  <1>2. \A s \in Session : OutcomeOf(s) = "idle"
    BY <1>1 DEF OutcomeOf, StoppedRun
  <1> QED
    BY <1>2 DEF Promise!PromiseInit

(***************************************************************************)
(* Refinement: two databases, the worker, the API and startup together     *)
(* move each session only along the outcomes TranscriptionPromise allows.  *)
(* No crash, replay, retry or race takes a session back, completes it      *)
(* without its durable receipt, or brings it back after an erasure.        *)
(***************************************************************************)
THEOREM PromiseHolds == Spec => PromiseKept
  <1>1. AsyncInv /\ AsyncInv' /\ [Next]_vars
           => [Promise!PromiseNext]_[s \in Session |-> OutcomeOf(s)]
    BY PromiseStep
  <1> QED
    BY <1>1, PromiseStart, AsyncSafety, PTL DEF Spec, PromiseKept, Promise!PromiseSpec

-----------------------------------------------------------------------------
(* The schema.  Whether an update is let through depends on what the row is,  *)
(* so the CHECKs of every row are invariant as well.                          *)

Checked == \A s \in Session : RowChecks(run[s])

LEMMA AcceptedIsChecked ==
    ASSUME NEW r, NEW q, Accepted(r, q)
    PROVE  RowChecks(q)
  BY DEF Accepted, Takes

\* What the phases of Delete Forever leave of a row.
LEMMA ErasingChecks ==
    ASSUME NEW r \in Run, RowChecks(r)
    PROVE  /\ Takes(r, r)
           /\ Takes(r, [r EXCEPT !.audio = FALSE])
           /\ RowChecks(ErasedRun) /\ ~ErasedRun.exists
  BY DEF Run, Takes, TriggersAllow, RowChecks, ErasedRun, StoppedRun

\* recover_unfinished_runs: a projection that was being written is retryable.
LEMMA RecoveredChecks ==
    ASSUME NEW r \in Run, RowChecks(r), r.projection = "projecting"
    PROVE  Takes(r, [r EXCEPT !.projection = "failed"])
  BY DEF Run, Takes, TriggersAllow, RowChecks

\* A step lets every row stand, or takes it along by what the schema accepts,
\* or erases it.
LEMMA SchemaStep ==
    ASSUME AsyncInv, Checked, [Next]_vars, NEW s \in Session
    PROVE  \/ Accepted(run[s], run'[s])
           \/ RowChecks(run'[s]) /\ ~run'[s].exists
  <1>0. run[s] \in Run /\ RowChecks(run[s]) /\ run \in [Session -> Run]
    BY DEF AsyncInv, Typed, Checked
  <1>1. CASE run'[s] = run[s]
    BY <1>0, <1>1, ErasingChecks DEF Accepted
  <1>2. CASE \E v \in Session \cup {NoSession} : Writes(v)
    <2>1. PICK v \in Session \cup {NoSession} : Writes(v)
      BY <1>2
    <2>2. CASE s = v
      BY <1>0, <2>1, <2>2 DEF Writes, Moves
    <2>3. CASE s # v
      BY <1>1, <2>1, <2>3 DEF Writes
    <2> QED
      BY <2>2, <2>3
  <1>3. CASE (\E v \in Session : BeginPurge(v)) \/ PurgeAdvances \/ FinishPurge
    BY <1>1, <1>3 DEF BeginPurge, PurgeAdvances, FinishPurge
  <1>4. CASE PurgeEffect
    <2>1. PICK v \in Session : v = A
      BY <1>4, EffectForgets
    <2>2. /\ \A k \in Session : k # v => run'[k] = run[k]
          /\ run'[v] = CASE purge[v] + 1 = 4 -> [run[v] EXCEPT !.audio = FALSE]
                         [] purge[v] + 1 = 5 -> ErasedRun
                         [] OTHER -> run[v]
      BY <1>4, <2>1, EffectFacts
    <2>3. CASE s # v
      BY <1>1, <2>2, <2>3
    <2>4. CASE s = v /\ purge[v] + 1 = 4
      <3>1. run'[s] = [run[s] EXCEPT !.audio = FALSE]
        BY <2>2, <2>4
      <3> QED
        BY <1>0, <3>1, ErasingChecks DEF Accepted
    <2>5. CASE s = v /\ purge[v] + 1 = 5
      <3>1. run'[s] = ErasedRun
        BY <2>2, <2>5
      <3> QED
        BY <1>0, <3>1, ErasingChecks
    <2>6. CASE s = v /\ purge[v] + 1 # 4 /\ purge[v] + 1 # 5
      BY <1>1, <2>2, <2>6
    <2> QED
      BY <2>3, <2>4, <2>5, <2>6
  <1>5. CASE Crash
    <2>1. run'[s] = IF run[s].projection = "projecting"
                    THEN [run[s] EXCEPT !.projection = "failed"] ELSE run[s]
      BY <1>5 DEF Crash
    <2>2. CASE run[s].projection = "projecting"
      BY <1>0, <2>1, <2>2, RecoveredChecks DEF Accepted
    <2>3. CASE run[s].projection # "projecting"
      BY <1>1, <2>1, <2>3
    <2> QED
      BY <2>2, <2>3
  <1> QED
    BY <1>2, <1>3, <1>4, <1>5, StepKinds

LEMMA CheckedStays == AsyncInv /\ Checked /\ [Next]_vars => Checked'
  BY SchemaStep, AcceptedIsChecked DEF Checked

LEMMA CheckedStarts == Init => Checked
  BY DEF Init, Checked, StoppedRun, RowChecks

LEMMA SchemaAccepts ==
    AsyncInv /\ Checked /\ [Next]_vars
       => \A s \in Session : run[s].exists /\ run'[s].exists => Accepted(run[s], run'[s])
  BY SchemaStep

(***************************************************************************)
(* No write of the worker, of a call, of startup or of the saga asks of    *)
(* notebook_capture_runs what its CHECKs and triggers would abort: every   *)
(* transition they were written to forbid is excluded by what the actors   *)
(* know, however they interleave and die.                                  *)
(***************************************************************************)
THEOREM SchemaTakes == Spec => SchemaTakesEveryWrite
  <1> DEFINE Step == \A s \in Session :
                        run[s].exists /\ run'[s].exists => Accepted(run[s], run'[s])
  <1>1. Spec => []Checked
    BY CheckedStarts, CheckedStays, AsyncSafety, PTL DEF Spec
  <1>2. AsyncInv /\ Checked /\ [Next]_vars => [Step]_run
    BY SchemaAccepts
  <1> QED
    BY <1>1, <1>2, AsyncSafety, PTL DEF Spec, SchemaTakesEveryWrite
=============================================================================
