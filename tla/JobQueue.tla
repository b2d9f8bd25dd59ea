------------------------------ MODULE JobQueue ------------------------------
(***************************************************************************)
(* The durable job queue (src/src/ooh/db/repos/jobs.py) and the worker     *)
(* loop that drains it (src/src/ooh/worker/runner.py, worker/main.py).     *)
(*                                                                         *)
(* A row of the jobs table is a record.  Timestamps are kept only as the   *)
(* comparisons the queries make: `due' is run_after <= now, and `lease' is *)
(* "none" (NULL), "live" (lease_expires_at > now) or "expired".            *)
(*                                                                         *)
(* claim_next is one transaction of two steps: BeginClaim runs its SELECT  *)
(* ... FOR UPDATE SKIP LOCKED queries and takes the row locks, CommitClaim *)
(* makes the result visible.  mark_succeeded and mark_failed read the row  *)
(* without a lock (session.get), validate the lease on what they read, and *)
(* update the row by primary key: ReadForFinalize and WriteFinalize.       *)
(***************************************************************************)
EXTENDS Naturals, FiniteSets, FiniteSetsExt

CONSTANTS
  Worker,         \* worker processes
  WorkerId,       \* the hostname:pid of each process; nothing makes it unique
  Handles,        \* the OOH_WORKER_JOB_TYPES of each worker
  Job,            \* job ids, numbered in the order of created_at
  JobType,
  SupportedType,  \* the job types JobRunner.dispatch knows
  IngestType,     \* the type whose final failure is reported to the repository
  Key,            \* idempotency keys
  MaxAttempts,
  RecoveryLimit,  \* how many expired leases one claim_next recovers
  NoOverlap,      \* FALSE: the code.  TRUE: assume that no recovery of a job
                  \* overlaps the read-to-update window of its finalisation
  NoOne, NoKey, NoJob

ASSUME JobAssumption      == Job \subseteq Nat /\ NoJob \notin Job
ASSUME AttemptsAssumption == MaxAttempts \in Nat \ {0}
ASSUME LimitAssumption    == RecoveryLimit \in Nat \ {0}
ASSUME IdAssumption       == NoOne \notin Worker
                             /\ \A w \in Worker : WorkerId[w] # NoOne
ASSUME TypeAssumption     == IngestType \in JobType
ASSUME OverlapAssumption  == NoOverlap \in BOOLEAN

VARIABLES
  jobs,        \* the committed rows of the jobs table
  rowLock,     \* the worker whose open transaction holds the row FOR UPDATE
  pc,          \* where each worker is in process_once
  claim,       \* the JobRead a worker works from: its job and attempt_count
  recovering,  \* the expired rows a worker's open claim_next has recovered
  outcome,     \* what dispatch returned or raised
  reported     \* ingest jobs whose failure mark_repository_failed recorded

vars == <<jobs, rowLock, pc, claim, recovering, outcome, reported>>

-----------------------------------------------------------------------------
Waiting  == {"queued", "retry_wait"}
Terminal == {"succeeded", "failed"}
Status   == {"absent", "running"} \cup Waiting \cup Terminal

Ids == {WorkerId[w] : w \in Worker}

JobRow ==
  [status   : Status,
   type     : JobType,
   key      : Key \cup {NoKey},
   attempts : 0 .. MaxAttempts,
   owner    : Ids \cup {NoOne},
   lease    : {"none", "live", "expired"},
   due      : BOOLEAN,
   result   : 0 .. MaxAttempts]  \* the attempt that wrote result_metadata

NoClaim == [job |-> NoJob, attempt |-> 0]
Claims  == [job : Job \cup {NoJob}, attempt : 0 .. MaxAttempts]

\* The stages of process_once; "down" is a process that crashed or was stopped.
Stage   == {"idle", "claiming", "dispatching", "dispatched", "finalizing",
            "reporting", "down"}
\* The stages in which a worker acts for the attempt it claimed.
Holding == {"dispatching", "dispatched", "finalizing"}

AbsentRow ==
  [status |-> "absent", type |-> IngestType, key |-> NoKey, attempts |-> 0,
   owner |-> NoOne, lease |-> "none", due |-> TRUE, result |-> 0]

-----------------------------------------------------------------------------
(* Row updates.                                                            *)

\* enqueue_job: the inserted row, run_after and attempt_count by default.
Queued(t, k) ==
  [status |-> "queued", type |-> t, key |-> k, attempts |-> 0,
   owner |-> NoOne, lease |-> "none", due |-> TRUE, result |-> 0]

\* Mutant of Recovered: lease_expires_at is not cleared.
RecoveredKeepsLease(r) ==
  [status |-> IF r.attempts >= MaxAttempts THEN "failed" ELSE "queued",
   type |-> r.type, key |-> r.key, attempts |-> r.attempts,
   owner |-> NoOne, lease |-> r.lease, due |-> TRUE, result |-> r.result]

\* Mutant of Recovered: exhausted attempts do not fail the job.
RecoveredNeverFails(r) ==
  [status |-> "queued",
   type |-> r.type, key |-> r.key, attempts |-> r.attempts,
   owner |-> NoOne, lease |-> "none", due |-> TRUE, result |-> r.result]

\* Mutant of Recovered: off by one, the last attempt is never made.
RecoveredFailsEarly(r) ==
  [status |-> IF r.attempts + 1 >= MaxAttempts THEN "failed" ELSE "queued",
   type |-> r.type, key |-> r.key, attempts |-> r.attempts,
   owner |-> NoOne, lease |-> "none", due |-> TRUE, result |-> r.result]

\* _recover_expired_leases: the row after its lease expired.
Recovered(r) ==
  [status |-> IF r.attempts >= MaxAttempts THEN "failed" ELSE "queued",
   type |-> r.type, key |-> r.key, attempts |-> r.attempts,
   owner |-> NoOne, lease |-> "none", due |-> TRUE, result |-> r.result]

\* claim_next: the row as the claiming worker writes it.
Claimed(r, w) ==
  [status |-> "running",
   type |-> r.type, key |-> r.key, attempts |-> r.attempts + 1,
   owner |-> WorkerId[w], lease |-> "live", due |-> r.due, result |-> 0]

\* mark_succeeded: only the columns it assigns change.
Succeeded(r, n) ==
  [status |-> "succeeded",
   type |-> r.type, key |-> r.key, attempts |-> r.attempts,
   owner |-> NoOne, lease |-> "none", due |-> r.due, result |-> n]

\* Mutant of Failed: attempt_count <= max_attempts.
FailedRetriesOnceMore(r, n) ==
  LET retry == n <= MaxAttempts
  IN  [status |-> IF retry THEN "retry_wait" ELSE "failed",
       type |-> r.type, key |-> r.key, attempts |-> r.attempts,
       owner |-> NoOne, lease |-> "none", due |-> ~retry /\ r.due,
       result |-> n]

\* mark_failed: whether to retry is decided on the row as it was read, whose
\* attempt_count n the validation has compared with the worker's claim.
Failed(r, n) ==
  LET retry == n < MaxAttempts
  IN  [status |-> IF retry THEN "retry_wait" ELSE "failed",
       type |-> r.type, key |-> r.key, attempts |-> r.attempts,
       owner |-> NoOne, lease |-> "none", due |-> ~retry /\ r.due,
       result |-> n]

\* The passage of lease_expires_at and of run_after.
Lapsed(r) ==
  [status |-> r.status, type |-> r.type, key |-> r.key, attempts |-> r.attempts,
   owner |-> r.owner, lease |-> "expired", due |-> r.due, result |-> r.result]
Due(r) ==
  [status |-> r.status, type |-> r.type, key |-> r.key, attempts |-> r.attempts,
   owner |-> r.owner, lease |-> r.lease, due |-> TRUE, result |-> r.result]

\* Mutant of ValidLease: expected_attempt_count is not compared.
ValidLeaseOfAnyAttempt(w) ==
  LET r == jobs[claim[w].job]
  IN  r.status = "running" /\ r.owner = WorkerId[w]

\* _validate_lease_owner, on the committed row.
ValidLease(w) ==
  LET r == jobs[claim[w].job]
  IN  /\ r.status = "running"
      /\ r.owner = WorkerId[w]
      /\ r.attempts = claim[w].attempt

-----------------------------------------------------------------------------
(* What claim_next selects.                                                *)

Finalizing(j) == \E w \in Worker : pc[w] = "finalizing" /\ claim[w].job = j

Expired ==
  {j \in Job : /\ jobs[j].status = "running"
               /\ jobs[j].lease = "expired"
               /\ rowLock[j] = NoOne
               /\ NoOverlap => ~Finalizing(j)}

\* The rows one claim_next recovers: all expired ones, up to the limit.
RecoverySets ==
  {R \in SUBSET Expired :
     Cardinality(R) = Min({RecoveryLimit, Cardinality(Expired)})}

AfterRecovery(R) ==
  [j \in Job |-> IF j \in R THEN Recovered(jobs[j]) ELSE jobs[j]]

\* Mutants of Claimable: a SELECT without FOR UPDATE SKIP LOCKED, and without the
\* status condition.
ClaimableUnlocked(w, rows) ==
  {j \in Job : /\ rows[j].status \in Waiting
               /\ rows[j].due
               /\ rows[j].attempts < MaxAttempts
               /\ rows[j].type \in Handles[w]}
ClaimableInAnyStatus(w, rows) ==
  {j \in Job : /\ rows[j].status # "absent"
               /\ rows[j].due
               /\ rows[j].attempts < MaxAttempts
               /\ rows[j].type \in Handles[w]
               /\ rowLock[j] = NoOne}

\* The rows the second SELECT matches, skipping those others hold locked.
Claimable(w, rows) ==
  {j \in Job : /\ rows[j].status \in Waiting
               /\ rows[j].due
               /\ rows[j].attempts < MaxAttempts
               /\ rows[j].type \in Handles[w]
               /\ rowLock[j] = NoOne}

\* ORDER BY created_at LIMIT 1: the oldest row, or none.
Oldest(S) == IF S = {} THEN {NoJob} ELSE {j \in S : \A i \in S : j <= i}

-----------------------------------------------------------------------------
Init ==
  /\ jobs = [j \in Job |-> AbsentRow]
  /\ rowLock = [j \in Job |-> NoOne]
  /\ pc = [w \in Worker |-> "idle"]
  /\ claim = [w \in Worker |-> NoClaim]
  /\ recovering = [w \in Worker |-> {}]
  /\ outcome = [w \in Worker |-> "none"]
  /\ reported = {}

\* enqueue_job: a repeated idempotency key returns the existing row, whatever
\* its status, and changes nothing.
Enqueue(t, k) ==
  /\ k # NoKey => \A j \in Job : jobs[j].status # "absent" => jobs[j].key # k
  /\ \E j \in Job :
       /\ jobs[j].status = "absent"
       /\ \A i \in Job : i < j => jobs[i].status # "absent"
       /\ jobs' = [jobs EXCEPT ![j] = Queued(t, k)]
  /\ UNCHANGED <<rowLock, pc, claim, recovering, outcome, reported>>

\* The row locks the two SELECTs take, and what the transaction will write.
LockSelected(w, R, p) ==
  /\ recovering' = [recovering EXCEPT ![w] = R]
  /\ claim' = [claim EXCEPT ![w] =
                 IF p = NoJob THEN NoClaim
                 ELSE [job |-> p, attempt |-> jobs[p].attempts + 1]]
  /\ rowLock' = [j \in Job |-> IF j \in R \cup {p} THEN w ELSE rowLock[j]]

\* claim_next up to its commit.  A worker that finds nothing returns None and
\* stays idle.
BeginClaim(w) ==
  /\ pc[w] = "idle"
  /\ \E R \in RecoverySets :
     \E p \in Oldest(Claimable(w, AfterRecovery(R))) :
       /\ R # {} \/ p # NoJob
       /\ LockSelected(w, R, p)
  /\ pc' = [pc EXCEPT ![w] = "claiming"]
  /\ UNCHANGED <<jobs, outcome, reported>>

\* The commit of claim_next: recovered rows and the claimed row become visible
\* together and their locks are released.
CommitClaim(w) ==
  /\ pc[w] = "claiming"
  /\ LET rows == AfterRecovery(recovering[w])
     IN  jobs' = [j \in Job |-> IF j = claim[w].job THEN Claimed(rows[j], w)
                                ELSE rows[j]]
  /\ pc' = [pc EXCEPT ![w] = IF claim[w].job = NoJob THEN "idle"
                             ELSE "dispatching"]
  /\ recovering' = [recovering EXCEPT ![w] = {}]
  /\ rowLock' = [j \in Job |-> IF rowLock[j] = w THEN NoOne ELSE rowLock[j]]
  /\ UNCHANGED <<claim, outcome, reported>>

\* JobRunner.dispatch: the handler returns, or raises anything at all; a job
\* type dispatch does not know always raises.
Dispatch(w, o) ==
  /\ pc[w] = "dispatching"
  /\ o = "ok" => jobs[claim[w].job].type \in SupportedType
  /\ outcome' = [outcome EXCEPT ![w] = o]
  /\ pc' = [pc EXCEPT ![w] = "dispatched"]
  /\ UNCHANGED <<jobs, rowLock, claim, recovering, reported>>

\* Mutant of ReadForFinalize: the lease is not validated.
ReadUnchecked(w) ==
  /\ pc[w] = "dispatched"
  /\ NoOverlap => rowLock[claim[w].job] = NoOne
  /\ pc' = [pc EXCEPT ![w] = "finalizing"]
  /\ UNCHANGED <<jobs, rowLock, claim, recovering, outcome, reported>>

\* mark_succeeded / mark_failed up to the validation.  RuntimeError leaves
\* process_once and ends the process: WorkerProcess.run catches nothing.
ReadForFinalize(w) ==
  /\ pc[w] = "dispatched"
  /\ NoOverlap => rowLock[claim[w].job] = NoOne
  /\ IF ValidLease(w)
     THEN /\ pc' = [pc EXCEPT ![w] = "finalizing"]
          /\ UNCHANGED <<claim, outcome>>
     ELSE /\ pc' = [pc EXCEPT ![w] = "down"]
          /\ claim' = [claim EXCEPT ![w] = NoClaim]
          /\ outcome' = [outcome EXCEPT ![w] = "none"]
  /\ UNCHANGED <<jobs, rowLock, recovering, reported>>

\* mark_succeeded / mark_failed from the UPDATE to the commit.  The UPDATE
\* waits for a row lock and then applies to whatever the row has become.
WriteFinalize(w) ==
  LET j == claim[w].job
      n == claim[w].attempt
      row == IF outcome[w] = "ok" THEN Succeeded(jobs[j], n)
             ELSE Failed(jobs[j], n)
      report == row.status = "failed" /\ row.type = IngestType
  IN  /\ pc[w] = "finalizing"
      /\ rowLock[j] = NoOne
      /\ jobs' = [jobs EXCEPT ![j] = row]
      /\ pc' = [pc EXCEPT ![w] = IF report THEN "reporting" ELSE "idle"]
      /\ claim' = IF report THEN claim ELSE [claim EXCEPT ![w] = NoClaim]
      /\ outcome' = [outcome EXCEPT ![w] = "none"]
      /\ UNCHANGED <<rowLock, recovering, reported>>

\* mark_repository_failed, in a transaction of its own.
ReportFailure(w) ==
  /\ pc[w] = "reporting"
  /\ reported' = reported \cup {claim[w].job}
  /\ pc' = [pc EXCEPT ![w] = "idle"]
  /\ claim' = [claim EXCEPT ![w] = NoClaim]
  /\ UNCHANGED <<jobs, rowLock, recovering, outcome>>

-----------------------------------------------------------------------------
(* The environment.                                                        *)

\* A process dies, loses its database connection, or is stopped: its open
\* transaction rolls back and its locks are released.
Crash(w) ==
  /\ pc[w] # "down"
  /\ pc' = [pc EXCEPT ![w] = "down"]
  /\ claim' = [claim EXCEPT ![w] = NoClaim]
  /\ recovering' = [recovering EXCEPT ![w] = {}]
  /\ outcome' = [outcome EXCEPT ![w] = "none"]
  /\ rowLock' = [j \in Job |-> IF rowLock[j] = w THEN NoOne ELSE rowLock[j]]
  /\ UNCHANGED <<jobs, reported>>

\* The container is restarted; hostname:pid may well be the same again.
Restart(w) ==
  /\ pc[w] = "down"
  /\ pc' = [pc EXCEPT ![w] = "idle"]
  /\ UNCHANGED <<jobs, rowLock, claim, recovering, outcome, reported>>

\* lease_expires_at passes.  Leases are never renewed, so a job that outlasts
\* worker_lease_seconds loses its lease while its worker is alive.
LeaseRunsOut(j) ==
  /\ jobs[j].lease = "live"
  /\ jobs' = [jobs EXCEPT ![j] = Lapsed(@)]
  /\ UNCHANGED <<rowLock, pc, claim, recovering, outcome, reported>>

\* run_after passes after the retry delay.
BackoffElapses(j) ==
  /\ ~jobs[j].due
  /\ jobs' = [jobs EXCEPT ![j] = Due(@)]
  /\ UNCHANGED <<rowLock, pc, claim, recovering, outcome, reported>>

-----------------------------------------------------------------------------
WorkerStep(w) ==
  \/ BeginClaim(w)
  \/ CommitClaim(w)
  \/ \E o \in {"ok", "error"} : Dispatch(w, o)
  \/ ReadForFinalize(w)
  \/ WriteFinalize(w)
  \/ ReportFailure(w)

Next ==
  \/ \E t \in JobType, k \in Key \cup {NoKey} : Enqueue(t, k)
  \/ \E w \in Worker : WorkerStep(w) \/ Crash(w) \/ Restart(w)
  \/ \E j \in Job : LeaseRunsOut(j) \/ BackoffElapses(j)

Spec == Init /\ [][Next]_vars

\* Time passes, a container is restarted, a live worker keeps taking steps, a
\* handler ends (model calls and agent loops have deadlines; that the git commands
\* of an ingestion end is assumed, they have no timeout), and a worker
\* that is restarted for ever does not die before the commit of its first
\* claim every time.
Fairness ==
  /\ \A w \in Worker :
       /\ SF_vars(BeginClaim(w))
       /\ SF_vars(CommitClaim(w))
       /\ WF_vars(Dispatch(w, "ok") \/ Dispatch(w, "error"))
       /\ WF_vars(ReadForFinalize(w))
       /\ WF_vars(WriteFinalize(w))
       /\ WF_vars(ReportFailure(w))
       /\ WF_vars(Restart(w))
  /\ \A j \in Job : WF_vars(LeaseRunsOut(j)) /\ WF_vars(BackoffElapses(j))

FairSpec == Spec /\ Fairness

-----------------------------------------------------------------------------
(* Properties that hold of the code as it is.                              *)

TypeOK ==
  /\ jobs \in [Job -> JobRow]
  /\ rowLock \in [Job -> Worker \cup {NoOne}]
  /\ pc \in [Worker -> Stage]
  /\ claim \in [Worker -> Claims]
  /\ recovering \in [Worker -> SUBSET Job]
  /\ outcome \in [Worker -> {"none", "ok", "error"}]
  /\ reported \subseteq Job

\* The attempt number is a fencing token: two live workers that hold claims of
\* one job (one of them stale after a lease recovery) hold different attempts,
\* and none is ahead of the row's attempt_count.
FencedAttempts ==
  \A w \in Worker : pc[w] \in Holding =>
    /\ claim[w].attempt \in 1 .. jobs[claim[w].job].attempts
    /\ \A v \in Worker \ {w} :
         pc[v] \in Holding /\ claim[v].job = claim[w].job
           => claim[v].attempt # claim[w].attempt

\* A row is locked by a worker exactly while it is running, and a running row
\* always carries a lease, so that no claim is beyond recovery: the recovery
\* query ignores rows whose lease_expires_at is NULL.
LockMatchesStatus ==
  \A j \in Job : LET r == jobs[j] IN
    /\ r.status = "running" <=> r.owner # NoOne
    /\ r.status = "running" <=> r.lease # "none"
    /\ r.status = "running" => r.attempts > 0

-----------------------------------------------------------------------------
(* Properties that hold when no recovery overlaps a finalisation window.   *)

\* A worker about to write a final status owns the lease of the job's current
\* attempt: the lease check of _validate_lease_owner still holds at the UPDATE.
FinalizerHoldsLease ==
  \A w \in Worker : pc[w] = "finalizing" => ValidLease(w)

\* A job that waits can still be claimed: no job is parked in retry_wait with
\* its attempts used up, where neither claim_next nor the recovery finds it.
WaitingIsClaimable ==
  \A j \in Job : jobs[j].status \in Waiting => jobs[j].attempts < MaxAttempts

\* The result_metadata of a succeeded job was written by its last attempt.
ResultFromLastAttempt ==
  \A j \in Job : jobs[j].status = "succeeded" => jobs[j].result = jobs[j].attempts

\* mark_repository_failed runs only for ingest jobs that ended, and stay, failed.
ReportedFailuresAreFinal ==
  \A j \in reported : jobs[j].status = "failed" /\ jobs[j].type = IngestType

\* A succeeded or failed job never changes again: no stale worker, retry or
\* recovery reopens it.
TerminalIsFinal ==
  [][\A j \in Job : jobs[j].status \in Terminal => jobs'[j] = jobs[j]]_jobs

\* The queue implements JobLifecycle: seen through it, a job is waiting, running
\* or ended, and crashes, stale workers, retries and recoveries are its steps.
Lifecycle == INSTANCE JobLifecycle WITH
  state   <- [j \in Job |-> IF jobs[j].status \in Waiting THEN "waiting"
                            ELSE jobs[j].status],
  attempt <- [j \in Job |-> jobs[j].attempts]

FollowsLifecycle == Lifecycle!Spec

\* Every job ends, however often its workers crash: each crash costs an attempt,
\* and the recovery of the last one fails the job.
EveryJobFinishes ==
  \A j \in Job : jobs[j].status # "absent" ~> jobs[j].status \in Terminal

-----------------------------------------------------------------------------
\* README.md: "stale workers cannot finalize a reclaimed attempt".  Whenever a
\* worker leaves mark_succeeded or mark_failed with its write done, the row it
\* wrote was running under this worker's own attempt.
StaleWorkersCannotFinalize ==
  [][\A w \in Worker :
       pc[w] = "finalizing" /\ pc'[w] \in {"idle", "reporting"} => ValidLease(w)]_vars
=============================================================================
