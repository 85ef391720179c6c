------------------------------ MODULE TaskQueue ------------------------------
(***************************************************************************)
(* The durable task queue of tasks.db (crates/vt-pipeline/task_queue.rs):  *)
(* rows with a status, a retry budget and a lease, claimed under a         *)
(* semaphore by handlers that may stall, fail or die with the process.     *)
(*                                                                         *)
(* A lease is modelled by the time it has left, so that "expired"          *)
(* (lease_expires_at_ms <= now) is "nothing left"; the SQL NULL of a row   *)
(* that nobody holds is NoLease.  created_at has a resolution of one       *)
(* second, so several rows may carry the same stamp.                       *)
(***************************************************************************)
EXTENDS Integers, FiniteSets

CONSTANTS Task,        \* stable task ids
          Session,     \* recording sessions a payload can name
          Slot,        \* the permits of the claim semaphore
          Priority,    \* task priorities
          RetryPolicy, \* the max_retries values callers pass
          Lease,       \* lease_seconds, in ticks of the clock
          MaxStamp,    \* bound on created_at stamps
          MaxCharge    \* bound on how often fail_terminal charges one row

NoLease == -1
NoHandle == "free"

ASSUME QueueAssumption ==
    /\ Priority \subseteq Int
    /\ RetryPolicy \subseteq 1..20
    /\ Lease \in Nat \ {0}
    /\ MaxStamp \in Nat
    /\ MaxCharge \in Nat
    /\ NoHandle \notin Task

VARIABLES tasks,   \* the tasks table, one row (or its absence) per id
          slot,    \* the task each permit is held for: the live Task handles
          stamp    \* the wall clock's current created_at stamp

queueVars == <<tasks, slot, stamp>>

(***************************************************************************)
(* A payload is well formed, or it parses but carries no valid             *)
(* authorization, or it does not even parse.  enqueue only writes the      *)
(* first kind; the others are rows an older build left behind.             *)
(***************************************************************************)
PayloadKind == {"valid", "unauthorized", "undecodable"}
Payload == [session : Session, kind : PayloadKind]

Status == {"absent", "pending", "running", "completed", "failed"}
Row == [status      : Status,
        payload     : Payload,
        priority    : Priority,
        retry_count : Nat,
        max_retries : 1..20,
        lease       : {NoLease} \cup 0..Lease,
        created     : 0..MaxStamp]

\* Mutant: the stored budget is one short of the one the caller passed.
NewRowShortBudget(payload, prio, max) ==
    [status |-> "pending", payload |-> payload, priority |-> prio,
     retry_count |-> 0, max_retries |-> max - 1, lease |-> NoLease, created |-> stamp]

NewRow(payload, prio, max) ==
    [status      |-> "pending",
     payload     |-> payload,
     priority    |-> prio,
     retry_count |-> 0,
     max_retries |-> max,
     lease       |-> NoLease,
     created     |-> stamp]

Absent(r) == [r EXCEPT !.status = "absent", !.lease = NoLease, !.retry_count = 0]

Exists(t) == tasks[t].status # "absent"

\* Mutant: a payload is accepted because it parses.
ValidWithoutAuthorization(r) == r.payload.kind # "undecodable"

\* validate_payload: only an authorized, parsable payload may be dispatched.
Valid(r) == r.payload.kind = "valid"

\* Mutant: the claim query forgets running rows whose lease has expired.
ClaimablePendingOnly(r) == r.status = "pending"

\* WHERE status = 'pending' OR (status = 'running' AND lease_expires_at_ms <= now)
Claimable(r) == r.status = "pending" \/ (r.status = "running" /\ r.lease = 0)

\* ORDER BY priority DESC, created_at ASC
Precedes(r, q) == \/ r.priority > q.priority
                  \/ r.priority = q.priority /\ r.created <= q.created

Update(t, r) == tasks' = [tasks EXCEPT ![t] = r]

-----------------------------------------------------------------------------
(* Operations.  A call that returns an error changes nothing and is no step. *)

\* INSERT ... ON CONFLICT(id) DO NOTHING of a validated payload: an id that is
\* already bound keeps its row.
Enqueue(t, s, prio, max) ==
    /\ ~Exists(t)
    /\ Update(t, NewRow([session |-> s, kind |-> "valid"], prio, max))
    /\ UNCHANGED <<slot, stamp>>

\* Mutant: the claim forgets to write the lease.
ClaimedRowWithoutLease(r) == [r EXCEPT !.status = "running"]

ClaimedRow(r) == [r EXCEPT !.status = "running", !.lease = Lease]

\* An unusable row met on the way is failed in the same call.
QuarantinedRow(r) == [r EXCEPT !.status = "failed", !.retry_count = @ + 1,
                               !.lease = NoLease]

\* The unusable claimable rows that claim_next's loop meets before it returns t.
RejectedBefore(t, rejected) ==
    /\ \A u \in rejected : Claimable(tasks[u]) /\ ~Valid(tasks[u])
                           /\ Precedes(tasks[u], tasks[t])
    /\ \A u \in Task \ rejected : u # t /\ Claimable(tasks[u])
                                    => Precedes(tasks[t], tasks[u])

\* claim_next: the first valid row in claim order becomes running; every
\* unusable row in front of it is quarantined.
ClaimNext(p, t) ==
    /\ slot[p] = NoHandle
    /\ Claimable(tasks[t]) /\ Valid(tasks[t])
    /\ \E rejected \in SUBSET (Task \ {t}) :
          /\ RejectedBefore(t, rejected)
          /\ tasks' = [u \in Task |->
                         IF u = t THEN ClaimedRow(tasks[u])
                         ELSE IF u \in rejected THEN QuarantinedRow(tasks[u])
                         ELSE tasks[u]]
    /\ slot' = [slot EXCEPT ![p] = t]
    /\ UNCHANGED stamp

\* claim_next when no valid row is claimable: the loop quarantines every
\* claimable row, finds none left and gives the permit back.
ClaimNextDrains ==
    /\ \E p \in Slot : slot[p] = NoHandle
    /\ \A t \in Task : Claimable(tasks[t]) => ~Valid(tasks[t])
    /\ \E t \in Task : Claimable(tasks[t])
    /\ tasks' = [t \in Task |-> IF Claimable(tasks[t])
                                THEN QuarantinedRow(tasks[t]) ELSE tasks[t]]
    /\ UNCHANGED <<slot, stamp>>

\* claim_by_id: one exact row; an unusable payload is an error, not a failure.
ClaimById(p, t) ==
    /\ slot[p] = NoHandle
    /\ Claimable(tasks[t]) /\ Valid(tasks[t])
    /\ Update(t, ClaimedRow(tasks[t]))
    /\ slot' = [slot EXCEPT ![p] = t]
    /\ UNCHANGED stamp

Heartbeat(t) ==
    /\ tasks[t].status = "running"
    /\ Update(t, [tasks[t] EXCEPT !.lease = Lease])
    /\ UNCHANGED <<slot, stamp>>

Closed(r, status) == [r EXCEPT !.status = status, !.lease = NoLease]

Complete(t) ==
    /\ tasks[t].status = "running"
    /\ Update(t, Closed(tasks[t], "completed"))
    /\ UNCHANGED <<slot, stamp>>

CompleteFromDurableProviderReceipt(t) ==
    /\ tasks[t].status \in {"pending", "running", "failed"}
    /\ Update(t, Closed(tasks[t], "completed"))
    /\ UNCHANGED <<slot, stamp>>

ReleaseWithoutRetry(t) ==
    /\ tasks[t].status = "running"
    /\ Update(t, Closed(tasks[t], "pending"))
    /\ UNCHANGED <<slot, stamp>>

\* Mutant: the budget is compared before the failed attempt is counted.
FailedRowOffByOne(r) ==
    [Closed(r, IF r.retry_count >= r.max_retries THEN "failed" ELSE "pending")
       EXCEPT !.retry_count = @ + 1]

\* fail: the attempt is charged; the row is terminal when the budget is spent.
FailedRow(r) ==
    [Closed(r, IF r.retry_count + 1 >= r.max_retries THEN "failed" ELSE "pending")
       EXCEPT !.retry_count = @ + 1]

Fail(t) ==
    /\ tasks[t].status = "running"
    /\ Update(t, FailedRow(tasks[t]))
    /\ UNCHANGED <<slot, stamp>>

\* fail_terminal has no status guard: it fails whatever row the id has.
FailTerminal(t) ==
    /\ Exists(t)
    /\ tasks[t].retry_count < MaxCharge
    /\ Update(t, QuarantinedRow(tasks[t]))
    /\ UNCHANGED <<slot, stamp>>

\* fail_local_preflight: terminal, but no provider attempt is charged.
FailLocalPreflight(t) ==
    /\ tasks[t].status = "running"
    /\ Update(t, Closed(tasks[t], "failed"))
    /\ UNCHANGED <<slot, stamp>>

PurgeTask(t) ==
    /\ Exists(t)
    /\ Update(t, Absent(tasks[t]))
    /\ UNCHANGED <<slot, stamp>>

\* Mutant: the purge forgets to compare the session.
PurgeSessionOfAnyone(s) ==
    /\ \E t \in Task : Exists(t)
    /\ tasks' = [t \in Task |-> Absent(tasks[t])]
    /\ UNCHANGED <<slot, stamp>>

\* matching_task_ids parses every row: one that does not parse aborts the purge.
PurgeSession(s) ==
    /\ \A t \in Task : Exists(t) => tasks[t].payload.kind # "undecodable"
    /\ \E t \in Task : Exists(t) /\ tasks[t].payload.session = s
    /\ tasks' = [t \in Task |-> IF tasks[t].payload.session = s
                                THEN Absent(tasks[t]) ELSE tasks[t]]
    /\ UNCHANGED <<slot, stamp>>

\* Dropping the Task handle gives its permit back; the row is not touched.
DropHandle(p) ==
    /\ slot[p] # NoHandle
    /\ slot' = [slot EXCEPT ![p] = NoHandle]
    /\ UNCHANGED <<tasks, stamp>>

\* Wall-clock time passes: every lease shrinks, or a new created_at stamp begins.
Tick ==
    /\ \E t \in Task : tasks[t].lease > 0
    /\ tasks' = [t \in Task |-> IF tasks[t].lease > 0
                                THEN [tasks[t] EXCEPT !.lease = @ - 1]
                                ELSE tasks[t]]
    /\ UNCHANGED <<slot, stamp>>

NextSecond ==
    /\ stamp < MaxStamp
    /\ stamp' = stamp + 1
    /\ UNCHANGED <<tasks, slot>>

\* Mutant: startup recovery also revives failed rows, with a fresh budget.
RecoveredRowWithFailed(r) ==
    IF r.status \in {"running", "failed"}
    THEN [Closed(r, "pending") EXCEPT !.retry_count = 0] ELSE r

RecoveredRow(r) == IF r.status = "running" THEN Closed(r, "pending") ELSE r

\* The process dies and the next one recovers the leases it left behind
\* (recover_abandoned_tasks runs before anything can claim).
Restart ==
    /\ tasks' = [t \in Task |-> RecoveredRow(tasks[t])]
    /\ slot' = [p \in Slot |-> NoHandle]
    /\ UNCHANGED stamp

-----------------------------------------------------------------------------
\* A fresh or an upgraded tasks.db: a row is absent, or was left pending or
\* running by an older build with a payload of any kind.
QueueInit ==
    /\ tasks \in [Task -> [status      : {"absent", "pending"},
                           payload     : Payload,
                           priority    : Priority,
                           retry_count : {0},
                           max_retries : RetryPolicy,
                           lease       : {NoLease},
                           created     : {0}]]
    /\ slot = [p \in Slot |-> NoHandle]
    /\ stamp = 0

\* What a handler does with the task its slot holds.
HandlerStep(p) ==
    /\ slot[p] \in Task
    /\ \/ Heartbeat(slot[p])
       \/ Complete(slot[p])
       \/ ReleaseWithoutRetry(slot[p])
       \/ Fail(slot[p])
       \/ FailLocalPreflight(slot[p])

QueueNext ==
    \/ \E t \in Task, s \in Session, prio \in Priority, max \in RetryPolicy :
          Enqueue(t, s, prio, max)
    \/ \E p \in Slot, t \in Task : ClaimNext(p, t)
    \/ ClaimNextDrains
    \/ \E p \in Slot, t \in Task : ClaimById(p, t)
    \/ \E p \in Slot : HandlerStep(p) \/ DropHandle(p)
    \/ \E t \in Task : \/ CompleteFromDurableProviderReceipt(t)
                       \/ FailTerminal(t)
                       \/ PurgeTask(t)
    \/ \E s \in Session : PurgeSession(s)
    \/ Tick \/ NextSecond \/ Restart

QueueSpec == QueueInit /\ [][QueueNext]_queueVars

\* The clock is fair; handlers, users and crashes are not.
FairQueueSpec == QueueSpec /\ WF_queueVars(Tick)

-----------------------------------------------------------------------------
(* Properties *)

QueueTypeOK ==
    /\ tasks \in [Task -> Row]
    /\ slot \in [Slot -> Task \cup {NoHandle}]
    /\ stamp \in 0..MaxStamp

\* fail() and claim_next(): a row that can still be dispatched has part of its
\* retry budget left, so no task is ever handed out more often than max_retries
\* counted failures allow.
RetryBudget ==
    \A t \in Task : tasks[t].status \in {"pending", "running"}
                       => tasks[t].retry_count < tasks[t].max_retries

\* Every write of status also writes the lease: a row is running exactly when
\* it has one.  A running row with a NULL lease would match neither branch of
\* the claim query and would never be claimed again.
RunningHasLease ==
    \A t \in Task : tasks[t].status = "running" <=> tasks[t].lease # NoLease

\* validate_payload at claim time: a row whose payload carries no valid remote
\* authorization is never handed to a handler, also if an older build wrote it.
OnlyAuthorizedRuns ==
    \A t \in Task : tasks[t].status = "running" => tasks[t].payload.kind = "valid"

\* What may be handed to a handler, how often and how: the parts together.
DispatchIsSound == QueueTypeOK /\ RetryBudget /\ RunningHasLease /\ OnlyAuthorizedRuns

\* A failed row is terminal for the provider: no operation, and no restart,
\* makes it claimable again.  Only a durable provider receipt may still close it.
FailedNeverRunsAgain ==
    [][\A t \in Task : tasks[t].status = "failed"
                         => tasks'[t].status \in {"failed", "completed", "absent"}]_queueVars

\* A running row whose handle was dropped without closing it (a cancelled or a
\* panicked handler) does not stay stuck: again and again a task is not running,
\* or it has a handle, or its lease has run out so that it can be claimed.
AbandonedIsReclaimable ==
    \A t \in Task :
        []<>(\/ tasks[t].status # "running" \/ Claimable(tasks[t])
             \/ \E p \in Slot : slot[p] = t)
=============================================================================
