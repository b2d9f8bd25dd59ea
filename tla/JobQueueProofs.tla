--------------------------- MODULE JobQueueProofs ---------------------------
(***************************************************************************)
(* Proofs about JobQueue for any number of workers and jobs, any number of *)
(* attempts, and worker ids that may coincide.                             *)
(***************************************************************************)
EXTENDS JobQueue, TLAPS

\* A row is locked exactly by the worker whose open claim_next selected it.
LocksMatchClaims ==
  \A w \in Worker, j \in Job :
    rowLock[j] = w <=> /\ pc[w] = "claiming"
                       /\ j \in recovering[w] \/ j = claim[w].job

\* What a claim_next has locked stays as it was selected until it commits.
OpenClaim(w) ==
  /\ \A j \in recovering[w] : jobs[j].status = "running"
  /\ claim[w].job \in Job =>
       /\ claim[w].attempt = jobs[claim[w].job].attempts + 1
       /\ jobs[claim[w].job].attempts < MaxAttempts
       /\ claim[w].job \notin recovering[w] => jobs[claim[w].job].status \in Waiting

OpenClaims == \A w \in Worker : pc[w] = "claiming" => OpenClaim(w)

\* A worker past its claim works on a job, and unclaimed rows have no attempts.
ClaimsOfJobs ==
  /\ \A w \in Worker : pc[w] \in Holding \cup {"reporting"} => claim[w].job \in Job
  /\ \A j \in Job : jobs[j].status = "absent" => jobs[j].attempts = 0

IInv == /\ TypeOK
        /\ LocksMatchClaims
        /\ OpenClaims
        /\ ClaimsOfJobs
        /\ FencedAttempts
        /\ LockMatchesStatus

-----------------------------------------------------------------------------
(* The row updates stay within the type of a row.                          *)

\* The row an insert creates, and the absent row, are rows.
LEMMA NewRowType ==
  /\ AbsentRow \in JobRow
  /\ \A t \in JobType, k \in Key \cup {NoKey} : Queued(t, k) \in JobRow
  BY TypeAssumption, AttemptsAssumption
     DEF AbsentRow, Queued, JobRow, Status, Waiting, Terminal

\* Recovery, completion and failure of a row yield a row.
LEMMA ClosedRowType ==
  ASSUME NEW r \in JobRow, NEW n \in 0 .. MaxAttempts
  PROVE  /\ Recovered(r) \in JobRow
         /\ Succeeded(r, n) \in JobRow
         /\ Failed(r, n) \in JobRow
         /\ Lapsed(r) \in JobRow
         /\ Due(r) \in JobRow
  BY AttemptsAssumption
     DEF Recovered, Succeeded, Failed, Lapsed, Due, JobRow, Status, Waiting, Terminal

\* Claiming a row that has attempts left yields a row.
LEMMA ClaimedRowType ==
  ASSUME NEW r \in JobRow, r.attempts < MaxAttempts, NEW w \in Worker
  PROVE  Claimed(r, w) \in JobRow
  BY AttemptsAssumption DEF Claimed, JobRow, Status, Waiting, Terminal, Ids

\* A worker without a job has a claim of the right type.
LEMMA NoClaimType == NoClaim \in Claims
  BY AttemptsAssumption DEF NoClaim, Claims

\* The rows a recovery leaves behind are rows.
LEMMA AfterRecoveryType ==
  ASSUME TypeOK, NEW R \in SUBSET Job
  PROVE  AfterRecovery(R) \in [Job -> JobRow]
  BY ClosedRowType, AttemptsAssumption DEF AfterRecovery, TypeOK

-----------------------------------------------------------------------------
\* Initially every row is absent, no worker holds a job, and nothing is locked.
LEMMA InitIInv == Init => IInv
<1> SUFFICES ASSUME Init PROVE IInv
  OBVIOUS
<1>1. TypeOK
  BY NewRowType, AttemptsAssumption DEF Init, TypeOK, Stage, Claims, NoClaim
<1>2. LocksMatchClaims /\ OpenClaims /\ ClaimsOfJobs /\ FencedAttempts
  BY IdAssumption
     DEF Init, LocksMatchClaims, OpenClaims, ClaimsOfJobs, FencedAttempts,
         Holding, AbsentRow
<1>3. LockMatchesStatus
  BY DEF Init, LockMatchesStatus, AbsentRow
<1> QED BY <1>1, <1>2, <1>3 DEF IInv
\* Enqueueing fills an absent row, which no worker holds or has locked.
LEMMA EnqueueIInv ==
  ASSUME IInv, NEW t \in JobType, NEW k \in Key \cup {NoKey}, Enqueue(t, k)
  PROVE  IInv'
<1> USE DEF IInv
<1>1. PICK j \in Job : /\ jobs[j].status = "absent"
                       /\ jobs' = [jobs EXCEPT ![j] = Queued(t, k)]
  BY DEF Enqueue
<1>2. UNCHANGED <<rowLock, pc, claim, recovering, outcome, reported>>
  BY DEF Enqueue
<1>3. TypeOK'
  BY <1>1, <1>2, NewRowType DEF TypeOK
<1>4. LocksMatchClaims'
  BY <1>2 DEF LocksMatchClaims
<1>5. OpenClaims'
  <2> SUFFICES ASSUME NEW w \in Worker, pc[w] = "claiming"
               PROVE  OpenClaim(w)'
    BY <1>2 DEF OpenClaims
  <2>1. j \notin recovering[w] /\ j # claim[w].job
    BY <1>1 DEF OpenClaims, OpenClaim, Waiting
  <2>2. \A i \in Job \ {j} : jobs'[i] = jobs[i]
    BY <1>1 DEF TypeOK
  <2> QED BY <1>2, <2>1, <2>2 DEF OpenClaims, OpenClaim, TypeOK
<1>6. \A w \in Worker : pc[w] \in Holding => claim[w].job # j
  BY <1>1, AttemptsAssumption DEF FencedAttempts, ClaimsOfJobs, Holding
<1>7. ClaimsOfJobs' /\ FencedAttempts'
  BY <1>1, <1>2, <1>6 DEF ClaimsOfJobs, FencedAttempts, TypeOK, Queued
<1>8. LockMatchesStatus'
  BY <1>1 DEF LockMatchesStatus, TypeOK, Queued
<1> QED BY <1>3, <1>4, <1>5, <1>7, <1>8

\* The selection of claim_next changes no row; it locks rows nobody had locked.
LEMMA BeginClaimIInv ==
  ASSUME IInv, NEW w \in Worker, BeginClaim(w)
  PROVE  IInv'
<1> USE DEF IInv
<1>1. PICK R \in RecoverySets :
        \E q \in Oldest(Claimable(w, AfterRecovery(R))) : LockSelected(w, R, q)
  BY DEF BeginClaim
<1>2. PICK p \in Oldest(Claimable(w, AfterRecovery(R))) : LockSelected(w, R, p)
  BY <1>1
<1>3. /\ pc[w] = "idle"
      /\ pc' = [pc EXCEPT ![w] = "claiming"]
      /\ UNCHANGED <<jobs, outcome, reported>>
  BY DEF BeginClaim
<1>4. /\ R \subseteq Job
      /\ \A j \in R : jobs[j].status = "running" /\ rowLock[j] = NoOne
  BY <1>2 DEF RecoverySets, Expired
<1>5. p \in Job => /\ rowLock[p] = NoOne
                   /\ jobs[p].attempts < MaxAttempts
                   /\ p \notin R => jobs[p].status \in Waiting
  BY <1>2, <1>4, JobAssumption
     DEF Oldest, Claimable, AfterRecovery, Recovered
<1>6. p \in Job \cup {NoJob}
  BY <1>2 DEF Oldest, Claimable
<1>7. TypeOK'
  <2>1. p \in Job => jobs[p].attempts + 1 \in 0 .. MaxAttempts
    BY <1>5, AttemptsAssumption DEF TypeOK, JobRow
  <2> QED
    BY <1>2, <1>3, <1>4, <1>6, <2>1, AttemptsAssumption
       DEF LockSelected, TypeOK, Claims, NoClaim, Stage
<1>8. LocksMatchClaims'
  BY <1>2, <1>3, <1>4, <1>5, <1>6, IdAssumption, JobAssumption
     DEF LockSelected, LocksMatchClaims, TypeOK, NoClaim
<1>9. OpenClaims'
  <2> SUFFICES ASSUME NEW v \in Worker, pc'[v] = "claiming"
               PROVE  OpenClaim(v)'
    BY DEF OpenClaims
  <2>1. CASE v = w
    BY <1>2, <1>3, <1>4, <1>5, <1>6, <2>1, JobAssumption
       DEF LockSelected, OpenClaim, TypeOK, NoClaim
  <2>2. CASE v # w
    BY <1>2, <1>3, <2>2 DEF LockSelected, OpenClaims, OpenClaim, TypeOK
  <2> QED BY <2>1, <2>2
<1>10. ClaimsOfJobs' /\ FencedAttempts' /\ LockMatchesStatus'
  BY <1>2, <1>3
     DEF LockSelected, ClaimsOfJobs, FencedAttempts, LockMatchesStatus, TypeOK,
         Holding
<1> QED BY <1>7, <1>8, <1>9, <1>10

\* The commit makes the locked rows what the selection promised; the claimed
\* attempt is one more than any attempt handed out before.
LEMMA CommitClaimIInv ==
  ASSUME IInv, NEW w \in Worker, CommitClaim(w)
  PROVE  IInv'
<1> USE DEF IInv
<1> DEFINE rows == AfterRecovery(recovering[w])
<1>1. /\ pc[w] = "claiming"
      /\ jobs' = [j \in Job |-> IF j = claim[w].job THEN Claimed(rows[j], w)
                                ELSE rows[j]]
      /\ pc' = [pc EXCEPT ![w] = IF claim[w].job = NoJob THEN "idle"
                                 ELSE "dispatching"]
      /\ recovering' = [recovering EXCEPT ![w] = {}]
      /\ rowLock' = [j \in Job |-> IF rowLock[j] = w THEN NoOne ELSE rowLock[j]]
      /\ UNCHANGED <<claim, outcome, reported>>
  BY DEF CommitClaim
<1>2. OpenClaim(w) /\ rows \in [Job -> JobRow]
  BY <1>1, AfterRecoveryType DEF OpenClaims, TypeOK
<1>3. claim[w].job \in Job \cup {NoJob}
  BY DEF TypeOK, Claims
<1>4. \A j \in Job : rows[j].attempts = jobs[j].attempts
  BY DEF AfterRecovery, Recovered
<1>5. TypeOK'
  <2>1. claim[w].job \in Job => Claimed(rows[claim[w].job], w) \in JobRow
    BY <1>2, <1>4, ClaimedRowType DEF OpenClaim
  <2>2. jobs' \in [Job -> JobRow]
    BY <1>1, <1>2, <2>1
  <2> QED BY <1>1, <2>2 DEF TypeOK, Stage
<1>6. LocksMatchClaims'
  BY <1>1, IdAssumption DEF LocksMatchClaims, TypeOK
<1>7. \A j \in Job : rowLock[j] # w => jobs'[j] = jobs[j]
  BY <1>1 DEF LocksMatchClaims, AfterRecovery
<1>8. OpenClaims'
  <2> SUFFICES ASSUME NEW v \in Worker, pc'[v] = "claiming"
               PROVE  OpenClaim(v)'
    BY DEF OpenClaims
  <2>1. v # w /\ pc[v] = "claiming"
    BY <1>1 DEF TypeOK
  <2>2. \A j \in Job : j \in recovering[v] \/ j = claim[v].job => jobs'[j] = jobs[j]
    BY <1>7, <2>1, IdAssumption DEF LocksMatchClaims
  <2>3. recovering'[v] = recovering[v] /\ claim'[v] = claim[v]
    BY <1>1, <2>1 DEF TypeOK
  <2> QED BY <2>1, <2>2, <2>3 DEF OpenClaims, OpenClaim, TypeOK
<1>9. \A j \in Job : /\ jobs'[j].attempts >= jobs[j].attempts
                     /\ j = claim[w].job => jobs'[j].attempts = claim[w].attempt
                     /\ j = claim[w].job => claim[w].attempt = jobs[j].attempts + 1
                     /\ jobs'[j].status = "absent" => jobs[j].status = "absent"
                     /\ jobs'[j].status = "absent" => j # claim[w].job
  BY <1>1, <1>2, <1>4 DEF OpenClaim, AfterRecovery, Recovered, Claimed, TypeOK, JobRow
<1>10. ClaimsOfJobs'
  <2>1. \A j \in Job : jobs'[j].status = "absent" => jobs'[j].attempts = 0
    BY <1>1, <1>4, <1>9 DEF ClaimsOfJobs
  <2>2. \A v \in Worker : pc'[v] \in Holding \cup {"reporting"} => claim'[v].job \in Job
    BY <1>1, <1>3 DEF ClaimsOfJobs, TypeOK, Holding
  <2> QED BY <2>1, <2>2 DEF ClaimsOfJobs
<1>11. FencedAttempts'
  <2>1. \A v \in Worker \ {w} : pc'[v] \in Holding =>
          /\ pc[v] \in Holding /\ claim[v].job \in Job
          /\ claim[v].attempt \in 1 .. jobs[claim[v].job].attempts
    BY <1>1 DEF FencedAttempts, ClaimsOfJobs, TypeOK
  <2>2. \A j \in Job : jobs[j].attempts \in Nat /\ jobs'[j].attempts \in Nat
    BY <1>5 DEF TypeOK, JobRow
  <2>3. \A v \in Worker : claim[v].attempt \in Nat
    BY DEF TypeOK, Claims
  <2>4. pc'[w] \in Holding => claim[w].job \in Job
    BY <1>1, <1>3 DEF Holding, TypeOK
  <2> QED
    BY <1>1, <1>9, <2>1, <2>2, <2>3, <2>4 DEF FencedAttempts
<1>12. LockMatchesStatus'
  <2>1. ASSUME NEW j \in Job, j = claim[w].job
        PROVE  /\ jobs'[j].status = "running" /\ jobs'[j].owner # NoOne
               /\ jobs'[j].lease # "none" /\ jobs'[j].attempts > 0
    BY <1>1, <1>2, <2>1, IdAssumption DEF Claimed, JobRow
  <2>2. ASSUME NEW j \in Job, j # claim[w].job, j \in recovering[w]
        PROVE  /\ jobs'[j].status # "running" /\ jobs'[j].owner = NoOne
               /\ jobs'[j].lease = "none"
    BY <1>1, <2>2 DEF AfterRecovery, Recovered
  <2>3. ASSUME NEW j \in Job, j # claim[w].job, j \notin recovering[w]
        PROVE  jobs'[j] = jobs[j]
    BY <1>1, <2>3 DEF AfterRecovery
  <2> QED BY <2>1, <2>2, <2>3 DEF LockMatchesStatus
<1> QED BY <1>5, <1>6, <1>8, <1>10, <1>11, <1>12

\* A worker step outside a claim changes no row and no lock, and takes nobody
\* into a claim.
LEMMA LocalStepIInv ==
  ASSUME IInv, NEW w \in Worker,
         \/ \E o \in {"ok", "error"} : Dispatch(w, o)
         \/ ReadForFinalize(w)
         \/ ReportFailure(w)
         \/ Restart(w)
  PROVE  IInv'
<1> USE DEF IInv
<1>1. /\ UNCHANGED <<jobs, rowLock, recovering>>
      /\ pc[w] # "claiming"
      /\ \A v \in Worker \ {w} : pc'[v] = pc[v] /\ claim'[v] = claim[v]
      /\ pc'[w] \in Holding => pc[w] \in Holding /\ claim'[w] = claim[w]
      /\ pc'[w] \notin {"claiming", "reporting"}
  BY DEF Dispatch, ReadForFinalize, ReportFailure, Restart, TypeOK, Holding
<1>2. TypeOK'
  <2>1. CASE \E o \in {"ok", "error"} : Dispatch(w, o)
    BY <2>1 DEF Dispatch, TypeOK, Stage
  <2>2. CASE ReadForFinalize(w)
    BY <2>2, NoClaimType DEF ReadForFinalize, TypeOK, Stage
  <2>3. CASE ReportFailure(w)
    BY <2>3, NoClaimType DEF ReportFailure, TypeOK, Stage, ClaimsOfJobs
  <2>4. CASE Restart(w)
    BY <2>4 DEF Restart, TypeOK, Stage
  <2> QED BY <2>1, <2>2, <2>3, <2>4
<1>3. LocksMatchClaims'
  BY <1>1 DEF LocksMatchClaims
<1>4. OpenClaims'
  BY <1>1 DEF OpenClaims, OpenClaim
<1>5. ClaimsOfJobs' /\ FencedAttempts' /\ LockMatchesStatus'
  BY <1>1 DEF ClaimsOfJobs, FencedAttempts, LockMatchesStatus
<1> QED BY <1>2, <1>3, <1>4, <1>5

\* A crash rolls the open claim back: its rows are as before it, and unlocked.
LEMMA CrashIInv ==
  ASSUME IInv, NEW w \in Worker, Crash(w)
  PROVE  IInv'
<1> USE DEF IInv
<1>1. TypeOK'
  BY AttemptsAssumption DEF Crash, TypeOK, Stage, Claims, NoClaim
<1>2. LocksMatchClaims'
  BY IdAssumption, JobAssumption DEF Crash, LocksMatchClaims, TypeOK, NoClaim
<1>3. OpenClaims'
  BY DEF Crash, OpenClaims, OpenClaim, TypeOK
<1>4. ClaimsOfJobs' /\ FencedAttempts' /\ LockMatchesStatus'
  BY DEF Crash, ClaimsOfJobs, FencedAttempts, LockMatchesStatus, TypeOK, Holding
<1> QED BY <1>1, <1>2, <1>3, <1>4

\* A final status is written to an unlocked row and leaves its attempts alone,
\* whoever owned the row when it was written.
LEMMA WriteFinalizeIInv ==
  ASSUME IInv, NEW w \in Worker, WriteFinalize(w)
  PROVE  IInv'
<1> USE DEF IInv
<1> DEFINE j == claim[w].job
           n == claim[w].attempt
           row == IF outcome[w] = "ok" THEN Succeeded(jobs[j], n)
                  ELSE Failed(jobs[j], n)
<1>1. /\ pc[w] = "finalizing" /\ rowLock[j] = NoOne
      /\ jobs' = [jobs EXCEPT ![j] = row]
      /\ UNCHANGED <<rowLock, recovering, reported>>
      /\ pc' = [pc EXCEPT ![w] = "reporting"] \/ pc' = [pc EXCEPT ![w] = "idle"]
      /\ pc'[w] = "reporting" => claim' = claim
      /\ claim' = claim \/ claim' = [claim EXCEPT ![w] = NoClaim]
      /\ outcome' = [outcome EXCEPT ![w] = "none"]
  BY DEF WriteFinalize, TypeOK
<1>2. j \in Job /\ n \in 0 .. MaxAttempts /\ jobs[j] \in JobRow
  BY <1>1 DEF ClaimsOfJobs, Holding, TypeOK, Claims
<1>3. /\ row \in JobRow /\ row.attempts = jobs[j].attempts
      /\ row.status \notin {"running", "absent"}
      /\ row.owner = NoOne /\ row.lease = "none"
  <2>1. row \in JobRow
    BY <1>2, ClosedRowType
  <2> QED BY <2>1 DEF Succeeded, Failed
<1> HIDE DEF row
<1>4. TypeOK'
  <2>1. jobs' \in [Job -> JobRow]
    BY <1>1, <1>2, <1>3 DEF TypeOK
  <2>2. claim' \in [Worker -> Claims] /\ pc' \in [Worker -> Stage]
    BY <1>1, NoClaimType DEF TypeOK, Stage
  <2> QED BY <1>1, <2>1, <2>2 DEF TypeOK
<1>5. LocksMatchClaims'
  BY <1>1 DEF LocksMatchClaims, TypeOK
<1>6. OpenClaims'
  <2> SUFFICES ASSUME NEW v \in Worker, pc'[v] = "claiming"
               PROVE  OpenClaim(v)'
    BY DEF OpenClaims
  <2>1. v # w /\ pc[v] = "claiming" /\ claim'[v] = claim[v]
    BY <1>1 DEF TypeOK
  <2>2. j \notin recovering[v] /\ j # claim[v].job
    BY <1>1, <1>2, <2>1, IdAssumption DEF LocksMatchClaims
  <2>3. \A i \in Job \ {j} : jobs'[i] = jobs[i]
    BY <1>1 DEF TypeOK
  <2> QED BY <1>1, <2>1, <2>2, <2>3 DEF OpenClaims, OpenClaim, TypeOK
<1>7. \A i \in Job : /\ jobs'[i].attempts = jobs[i].attempts
                     /\ jobs'[i].status = "absent" => jobs[i].status = "absent"
  BY <1>1, <1>2, <1>3 DEF TypeOK
<1>8. \A v \in Worker :
        /\ pc'[v] \in Holding => pc[v] \in Holding /\ claim'[v] = claim[v]
        /\ pc'[v] = "reporting" => claim'[v] = claim[v]
                                   /\ pc[v] \in Holding \cup {"reporting"}
  BY <1>1 DEF TypeOK, Holding
<1>9. ClaimsOfJobs' /\ FencedAttempts'
  BY <1>7, <1>8 DEF ClaimsOfJobs, FencedAttempts
<1>10. LockMatchesStatus'
  BY <1>1, <1>2, <1>3 DEF LockMatchesStatus, TypeOK
<1> QED BY <1>4, <1>5, <1>6, <1>9, <1>10

\* The passage of time changes only the lease and the due flag of a row.
LEMMA TimeIInv ==
  ASSUME IInv, NEW j \in Job, LeaseRunsOut(j) \/ BackoffElapses(j)
  PROVE  IInv'
<1> USE DEF IInv
<1>1. /\ UNCHANGED <<rowLock, pc, claim, recovering, outcome, reported>>
      /\ \/ jobs' = [jobs EXCEPT ![j] = Lapsed(jobs[j])] /\ jobs[j].lease = "live"
         \/ jobs' = [jobs EXCEPT ![j] = Due(jobs[j])]
  BY DEF LeaseRunsOut, BackoffElapses
<1>2. TypeOK'
  BY <1>1, ClosedRowType, AttemptsAssumption DEF TypeOK
<1>3. \A i \in Job : /\ jobs'[i].status = jobs[i].status
                     /\ jobs'[i].attempts = jobs[i].attempts
                     /\ jobs'[i].owner = jobs[i].owner
                     /\ jobs'[i].lease = "none" <=> jobs[i].lease = "none"
  BY <1>1 DEF TypeOK, Lapsed, Due
<1>4. LocksMatchClaims' /\ OpenClaims'
  <2>1. \A w \in Worker : recovering[w] \subseteq Job
    BY DEF TypeOK
  <2> QED BY <1>1, <1>3, <2>1 DEF LocksMatchClaims, OpenClaims, OpenClaim
<1>5. ClaimsOfJobs' /\ FencedAttempts' /\ LockMatchesStatus'
  BY <1>1, <1>3 DEF ClaimsOfJobs, FencedAttempts, LockMatchesStatus
<1> QED BY <1>2, <1>4, <1>5

\* Every step of every worker, and of time, preserves the inductive invariant.
LEMMA NextIInv == IInv /\ [Next]_vars => IInv'
<1> SUFFICES ASSUME IInv, [Next]_vars PROVE IInv'
  OBVIOUS
<1>1. CASE UNCHANGED vars
  BY <1>1 DEF vars, IInv, TypeOK, LocksMatchClaims, OpenClaims, OpenClaim,
              ClaimsOfJobs, FencedAttempts, LockMatchesStatus
<1>2. CASE \E t \in JobType, k \in Key \cup {NoKey} : Enqueue(t, k)
  BY <1>2, EnqueueIInv
<1>3. CASE \E w \in Worker : WorkerStep(w) \/ Crash(w) \/ Restart(w)
  BY <1>3, BeginClaimIInv, CommitClaimIInv, LocalStepIInv, WriteFinalizeIInv,
     CrashIInv DEF WorkerStep
<1>4. CASE \E j \in Job : LeaseRunsOut(j) \/ BackoffElapses(j)
  BY <1>4, TimeIInv
<1> QED BY <1>1, <1>2, <1>3, <1>4 DEF Next

\* Every variable keeps its type.
THEOREM TypeCorrect == Spec => []TypeOK
<1>1. IInv => TypeOK
  BY DEF IInv
<1> QED BY <1>1, InitIInv, NextIInv, PTL DEF Spec

\* Attempt numbers fence workers off, even workers with equal worker ids: a
\* stale worker and the one that reclaimed the job never hold the same attempt.
THEOREM AttemptsFence == Spec => []FencedAttempts
<1>1. IInv => FencedAttempts
  BY DEF IInv
<1> QED BY <1>1, InitIInv, NextIInv, PTL DEF Spec

\* Status, owner and lease of a row change together, so every running row can
\* be found by the lease recovery.
THEOREM RunningRowsAreLeased == Spec => []LockMatchesStatus
<1>1. IInv => LockMatchesStatus
  BY DEF IInv
<1> QED BY <1>1, InitIInv, NextIInv, PTL DEF Spec

-----------------------------------------------------------------------------
(* What holds when no recovery overlaps the window between the read and    *)
(* the update of a finalisation.                                           *)

\* The row of a worker between its lease check and its update is not locked.
FinalizedRowsFree ==
  \A w \in Worker : pc[w] = "finalizing" => rowLock[claim[w].job] = NoOne

\* A worker about to report a failed repository has failed an ingest job.
ReportsFailures ==
  \A w \in Worker : pc[w] = "reporting" =>
    jobs[claim[w].job].status = "failed" /\ jobs[claim[w].job].type = IngestType

\* Only a row in retry_wait waits for its run_after.
BackoffOnlyInRetryWait ==
  /\ \A j \in Job : ~jobs[j].due => jobs[j].status = "retry_wait"
  /\ \A w \in Worker : /\ pc[w] = "claiming"
                       /\ claim[w].job \in Job \ recovering[w]
                       => jobs[claim[w].job].due

FInv == /\ FinalizerHoldsLease
        /\ FinalizedRowsFree
        /\ WaitingIsClaimable
        /\ ResultFromLastAttempt
        /\ ReportedFailuresAreFinal
        /\ ReportsFailures
        /\ BackoffOnlyInRetryWait

\* Initially nobody finalises a row and nothing has been reported.
LEMMA InitFInv == Init => FInv
  BY DEF Init, FInv, FinalizerHoldsLease, FinalizedRowsFree, WaitingIsClaimable,
         ResultFromLastAttempt, ReportedFailuresAreFinal, ReportsFailures,
         BackoffOnlyInRetryWait, AbsentRow, Waiting

\* Steps that write no row, and do not start a claim or a finalisation.
LEMMA QuietFInv ==
  ASSUME IInv, FInv, NEW w \in Worker,
         \/ \E o \in {"ok", "error"} : Dispatch(w, o)
         \/ ReportFailure(w) \/ Restart(w) \/ Crash(w)
  PROVE  FInv'
<1> USE DEF IInv, FInv
<1>1. /\ UNCHANGED jobs
      /\ \A v \in Worker \ {w} : /\ pc'[v] = pc[v] /\ claim'[v] = claim[v]
                                 /\ recovering'[v] = recovering[v]
      /\ pc'[w] \notin {"claiming", "finalizing", "reporting"}
      /\ \A j \in Job : rowLock[j] = NoOne => rowLock'[j] = NoOne
  BY DEF Dispatch, ReportFailure, Restart, Crash, TypeOK
<1>2. \/ reported' = reported
      \/ pc[w] = "reporting" /\ reported' = reported \cup {claim[w].job}
  BY DEF Dispatch, ReportFailure, Restart, Crash
<1>3. FinalizerHoldsLease' /\ FinalizedRowsFree'
  BY <1>1 DEF FinalizerHoldsLease, FinalizedRowsFree, ValidLease, ClaimsOfJobs, Holding
<1>4. ReportedFailuresAreFinal'
  BY <1>1, <1>2 DEF ReportedFailuresAreFinal, ReportsFailures
<1>5. ReportsFailures' /\ BackoffOnlyInRetryWait'
  BY <1>1 DEF ReportsFailures, BackoffOnlyInRetryWait
<1>6. WaitingIsClaimable' /\ ResultFromLastAttempt'
  BY <1>1 DEF WaitingIsClaimable, ResultFromLastAttempt
<1> QED BY <1>3, <1>4, <1>5, <1>6

\* The read of a finalisation, which waits for an overlapping recovery.
LEMMA ReadFInv ==
  ASSUME NoOverlap, IInv, FInv, NEW w \in Worker, ReadForFinalize(w)
  PROVE  FInv'
<1> USE DEF IInv, FInv
<1>1. /\ UNCHANGED <<jobs, rowLock, recovering, reported>>
      /\ \A v \in Worker \ {w} : pc'[v] = pc[v] /\ claim'[v] = claim[v]
      /\ pc'[w] \in {"finalizing", "down"}
      /\ pc'[w] = "finalizing" => /\ claim'[w] = claim[w]
                                  /\ ValidLease(w)
                                  /\ rowLock[claim[w].job] = NoOne
  BY DEF ReadForFinalize, TypeOK
<1>2. FinalizerHoldsLease' /\ FinalizedRowsFree'
  BY <1>1 DEF FinalizerHoldsLease, FinalizedRowsFree, ValidLease
<1>3. ReportedFailuresAreFinal' /\ ReportsFailures' /\ BackoffOnlyInRetryWait'
  BY <1>1 DEF ReportedFailuresAreFinal, ReportsFailures, BackoffOnlyInRetryWait
<1>4. WaitingIsClaimable' /\ ResultFromLastAttempt'
  BY <1>1 DEF WaitingIsClaimable, ResultFromLastAttempt
<1> QED BY <1>2, <1>3, <1>4

\* A claim selects no row that is being finalised.
LEMMA BeginClaimFInv ==
  ASSUME NoOverlap, IInv, FInv, NEW w \in Worker, BeginClaim(w)
  PROVE  FInv'
<1> USE DEF IInv, FInv
<1>1. PICK R \in RecoverySets :
        \E q \in Oldest(Claimable(w, AfterRecovery(R))) : LockSelected(w, R, q)
  BY DEF BeginClaim
<1>2. PICK p \in Oldest(Claimable(w, AfterRecovery(R))) : LockSelected(w, R, p)
  BY <1>1
<1>3. /\ pc' = [pc EXCEPT ![w] = "claiming"]
      /\ UNCHANGED <<jobs, outcome, reported>>
  BY DEF BeginClaim
<1>4. \A j \in R : ~Finalizing(j)
  BY <1>1 DEF RecoverySets, Expired
<1>5. p \in Job \ R => /\ ~Finalizing(p)
                       /\ jobs[p].due
  <2>1. p \in Job \ R => jobs[p].status \in Waiting /\ jobs[p].due
    BY <1>2, JobAssumption DEF Oldest, Claimable, AfterRecovery
  <2> QED
    BY <2>1 DEF Finalizing, FinalizerHoldsLease, ValidLease, Waiting
<1>6. \A v \in Worker : pc'[v] # "claiming" => pc'[v] = pc[v] /\ claim'[v] = claim[v]
  BY <1>2, <1>3 DEF LockSelected, TypeOK
<1>7. FinalizerHoldsLease'
  BY <1>3, <1>6 DEF FinalizerHoldsLease, ValidLease
<1>8. FinalizedRowsFree'
  <2> SUFFICES ASSUME NEW v \in Worker, pc'[v] = "finalizing"
               PROVE  rowLock'[claim'[v].job] = NoOne
    BY DEF FinalizedRowsFree
  <2>1. /\ pc[v] = "finalizing" /\ claim'[v] = claim[v]
        /\ claim[v].job \in Job /\ Finalizing(claim[v].job)
    BY <1>6 DEF Finalizing, ClaimsOfJobs, Holding
  <2>2. claim[v].job \notin R \cup {p}
    BY <1>4, <1>5, <2>1
  <2> QED BY <1>2, <2>1, <2>2 DEF LockSelected, FinalizedRowsFree
<1>9. ReportedFailuresAreFinal' /\ ReportsFailures'
  BY <1>3, <1>6 DEF ReportedFailuresAreFinal, ReportsFailures
<1>10. WaitingIsClaimable' /\ ResultFromLastAttempt'
  BY <1>3 DEF WaitingIsClaimable, ResultFromLastAttempt
<1>11. BackoffOnlyInRetryWait'
  <2>1. ASSUME NEW v \in Worker, v # w, pc'[v] = "claiming"
        PROVE  /\ pc[v] = "claiming" /\ claim'[v] = claim[v]
               /\ recovering'[v] = recovering[v]
    BY <1>2, <1>3, <2>1 DEF LockSelected, TypeOK
  <2>2. claim'[w].job \in Job \ recovering'[w] => jobs'[claim'[w].job].due
    BY <1>2, <1>3, <1>5, JobAssumption DEF LockSelected, TypeOK, NoClaim
  <2> QED BY <1>3, <2>1, <2>2 DEF BackoffOnlyInRetryWait
<1> QED BY <1>7, <1>8, <1>9, <1>10, <1>11

\* The commit of a claim changes only rows it has locked, and so none that is
\* being finalised and none in a final status.
LEMMA CommitClaimFInv ==
  ASSUME IInv, FInv, NEW w \in Worker, CommitClaim(w)
  PROVE  /\ FInv'
         /\ \A j \in Job : jobs[j].status \in Terminal => jobs'[j] = jobs[j]
<1> USE DEF IInv, FInv
<1> DEFINE rows == AfterRecovery(recovering[w])
<1>1. /\ pc[w] = "claiming"
      /\ jobs' = [j \in Job |-> IF j = claim[w].job THEN Claimed(rows[j], w)
                                ELSE rows[j]]
      /\ pc' = [pc EXCEPT ![w] = IF claim[w].job = NoJob THEN "idle"
                                 ELSE "dispatching"]
      /\ recovering' = [recovering EXCEPT ![w] = {}]
      /\ rowLock' = [j \in Job |-> IF rowLock[j] = w THEN NoOne ELSE rowLock[j]]
      /\ UNCHANGED <<claim, outcome, reported>>
  BY DEF CommitClaim
<1>2. OpenClaim(w)
  BY <1>1 DEF OpenClaims
<1>3. \A j \in Job : rowLock[j] # w => jobs'[j] = jobs[j]
  BY <1>1 DEF LocksMatchClaims, AfterRecovery
<1>4. \A j \in Job : rowLock[j] = w => jobs[j].status \in {"running"} \cup Waiting
  BY <1>1, <1>2 DEF LocksMatchClaims, OpenClaim
<1>5. \A j \in Job : jobs[j].status \in Terminal => jobs'[j] = jobs[j]
  BY <1>3, <1>4 DEF Terminal, Waiting
<1>6. \A v \in Worker : pc'[v] \in {"finalizing", "reporting", "claiming"} =>
        v # w /\ pc'[v] = pc[v]
  BY <1>1 DEF TypeOK
<1>7. \A v \in Worker : pc[v] \in {"finalizing", "reporting"} => claim[v].job \in Job
  BY DEF ClaimsOfJobs, Holding
<1>8. FinalizerHoldsLease'
  <2> SUFFICES ASSUME NEW v \in Worker, pc'[v] = "finalizing"
               PROVE  ValidLease(v)'
    BY DEF FinalizerHoldsLease
  <2>1. pc[v] = "finalizing" /\ claim[v].job \in Job
    BY <1>6, <1>7
  <2>2. jobs'[claim[v].job] = jobs[claim[v].job]
    BY <1>3, <2>1, IdAssumption DEF FinalizedRowsFree
  <2> QED BY <1>1, <2>1, <2>2 DEF FinalizerHoldsLease, ValidLease
<1>9. FinalizedRowsFree'
  BY <1>1, <1>6, <1>7 DEF FinalizedRowsFree
<1>10. \A j \in Job : /\ jobs'[j].status \in Waiting => jobs'[j].attempts < MaxAttempts
                      /\ jobs'[j].status = "succeeded" => jobs'[j] = jobs[j]
                      /\ ~jobs'[j].due => jobs'[j] = jobs[j]
  <2>1. ASSUME NEW j \in Job, j = claim[w].job
        PROVE  jobs'[j].status = "running" /\ jobs'[j].due
    <3>1. rows[j].due
      BY <1>1, <2>1 DEF AfterRecovery, Recovered, BackoffOnlyInRetryWait
    <3> QED BY <1>1, <2>1, <3>1 DEF Claimed
  <2>2. ASSUME NEW j \in Job, j # claim[w].job, j \in recovering[w]
        PROVE  /\ jobs'[j].status \in Waiting => jobs'[j].attempts < MaxAttempts
               /\ jobs'[j].status # "succeeded" /\ jobs'[j].due
    BY <1>1, <2>2, AttemptsAssumption
       DEF AfterRecovery, Recovered, Waiting, TypeOK, JobRow
  <2>3. ASSUME NEW j \in Job, j # claim[w].job, j \notin recovering[w]
        PROVE  jobs'[j] = jobs[j]
    BY <1>1, <2>3 DEF AfterRecovery
  <2> QED BY <2>1, <2>2, <2>3 DEF WaitingIsClaimable, Waiting
<1>11. WaitingIsClaimable' /\ ResultFromLastAttempt'
  BY <1>10 DEF WaitingIsClaimable, ResultFromLastAttempt
<1>12. ReportedFailuresAreFinal' /\ ReportsFailures'
  BY <1>1, <1>5, <1>6, <1>7
     DEF ReportedFailuresAreFinal, ReportsFailures, Terminal, TypeOK
<1>13. BackoffOnlyInRetryWait'
  <2>1. ASSUME NEW v \in Worker, pc'[v] = "claiming",
               claim'[v].job \in Job \ recovering'[v]
        PROVE  jobs'[claim'[v].job].due
    <3>1. v # w /\ pc[v] = "claiming" /\ recovering'[v] = recovering[v]
      BY <1>1, <1>6, <2>1 DEF TypeOK
    <3>2. jobs'[claim[v].job] = jobs[claim[v].job]
      BY <1>1, <1>3, <2>1, <3>1 DEF LocksMatchClaims
    <3> QED BY <1>1, <2>1, <3>1, <3>2 DEF BackoffOnlyInRetryWait
  <2> QED BY <1>10, <2>1 DEF BackoffOnlyInRetryWait
<1> QED BY <1>5, <1>8, <1>9, <1>11, <1>12, <1>13

\* A finalisation writes the row it validated: still running, at its attempt.
LEMMA WriteFinalizeFInv ==
  ASSUME IInv, FInv, NEW w \in Worker, WriteFinalize(w)
  PROVE  /\ FInv'
         /\ \A j \in Job : jobs[j].status \in Terminal => jobs'[j] = jobs[j]
<1> USE DEF IInv, FInv
<1> DEFINE j == claim[w].job
           n == claim[w].attempt
           row == IF outcome[w] = "ok" THEN Succeeded(jobs[j], n)
                  ELSE Failed(jobs[j], n)
<1>1. /\ pc[w] = "finalizing"
      /\ jobs' = [jobs EXCEPT ![j] = row]
      /\ UNCHANGED <<rowLock, recovering, reported>>
      /\ \/ pc' = [pc EXCEPT ![w] = "idle"]
         \/ /\ pc' = [pc EXCEPT ![w] = "reporting"] /\ claim' = claim
            /\ row.status = "failed" /\ row.type = IngestType
      /\ \A v \in Worker \ {w} : claim'[v] = claim[v]
  BY DEF WriteFinalize, TypeOK
<1>2. /\ j \in Job /\ jobs[j].status = "running" /\ jobs[j].attempts = n
      /\ jobs[j] \in JobRow
  BY <1>1 DEF ClaimsOfJobs, Holding, TypeOK, FinalizerHoldsLease, ValidLease
<1>3. jobs[j].due
  BY <1>2 DEF BackoffOnlyInRetryWait
<1>4. /\ row.attempts = n /\ row.result = n
      /\ row.status \in Waiting => n < MaxAttempts
      /\ ~row.due => row.status = "retry_wait"
  BY <1>2, <1>3 DEF Succeeded, Failed, Waiting, JobRow
<1> HIDE DEF row
<1>5. \A i \in Job \ {j} : jobs'[i] = jobs[i]
  BY <1>1 DEF TypeOK
<1>6. jobs'[j] = row
  BY <1>1, <1>2 DEF TypeOK
<1>7. \A i \in Job : jobs[i].status \in Terminal => jobs'[i] = jobs[i]
  BY <1>2, <1>5 DEF Terminal
<1>8. ASSUME NEW v \in Worker, pc'[v] \in {"finalizing", "claiming"}
      PROVE  v # w /\ pc[v] = pc'[v] /\ claim'[v] = claim[v]
  BY <1>1, <1>8 DEF TypeOK
<1>9. FinalizerHoldsLease' /\ FinalizedRowsFree'
  <2> SUFFICES ASSUME NEW v \in Worker, pc'[v] = "finalizing"
               PROVE  ValidLease(v)' /\ rowLock'[claim'[v].job] = NoOne
    BY DEF FinalizerHoldsLease, FinalizedRowsFree
  <2>1. /\ v # w /\ pc[v] = "finalizing" /\ claim'[v] = claim[v]
        /\ ValidLease(v) /\ claim[v].job \in Job
    BY <1>8 DEF FinalizerHoldsLease, ClaimsOfJobs, Holding
  <2>2. claim[v].job # j
    BY <1>1, <1>2, <2>1 DEF ValidLease, FencedAttempts, Holding
  <2> QED BY <1>1, <1>5, <2>1, <2>2 DEF ValidLease, FinalizedRowsFree
<1>10. WaitingIsClaimable' /\ ResultFromLastAttempt'
  BY <1>4, <1>5, <1>6 DEF WaitingIsClaimable, ResultFromLastAttempt
<1>11. ReportedFailuresAreFinal'
  BY <1>1, <1>7 DEF ReportedFailuresAreFinal, Terminal, TypeOK
<1>12. ReportsFailures'
  <2> SUFFICES ASSUME NEW v \in Worker, pc'[v] = "reporting"
               PROVE  /\ jobs'[claim'[v].job].status = "failed"
                      /\ jobs'[claim'[v].job].type = IngestType
    BY DEF ReportsFailures
  <2>1. CASE v = w
    BY <1>1, <1>6, <2>1 DEF TypeOK
  <2>2. CASE v # w
    BY <1>1, <1>7, <2>2 DEF ReportsFailures, ClaimsOfJobs, TypeOK, Terminal
  <2> QED BY <2>1, <2>2
<1>13. BackoffOnlyInRetryWait'
  <2>1. ASSUME NEW v \in Worker, pc'[v] = "claiming",
               claim'[v].job \in Job \ recovering'[v]
        PROVE  jobs'[claim'[v].job].due
    <3>1. v # w /\ pc[v] = "claiming" /\ claim'[v] = claim[v]
      BY <1>8, <2>1
    <3>2. claim[v].job # j
      BY <1>1, <1>2, <2>1, <3>1, IdAssumption DEF LocksMatchClaims, FinalizedRowsFree
    <3> QED BY <1>1, <1>5, <2>1, <3>1, <3>2 DEF BackoffOnlyInRetryWait
  <2> QED BY <1>4, <1>5, <1>6, <2>1 DEF BackoffOnlyInRetryWait
<1> QED BY <1>7, <1>9, <1>10, <1>11, <1>12, <1>13

\* A new job touches no row anyone works on.
LEMMA EnqueueFInv ==
  ASSUME IInv, FInv, NEW t \in JobType, NEW k \in Key \cup {NoKey}, Enqueue(t, k)
  PROVE  /\ FInv'
         /\ \A j \in Job : jobs[j].status \in Terminal => jobs'[j] = jobs[j]
<1> USE DEF IInv, FInv
<1>1. PICK j \in Job : /\ jobs[j].status = "absent"
                       /\ jobs' = [jobs EXCEPT ![j] = Queued(t, k)]
  BY DEF Enqueue
<1>2. UNCHANGED <<rowLock, pc, claim, recovering, outcome, reported>>
  BY DEF Enqueue
<1>3. \A i \in Job \ {j} : jobs'[i] = jobs[i]
  BY <1>1 DEF TypeOK
<1>4. jobs'[j] = Queued(t, k)
  BY <1>1 DEF TypeOK
<1>5. \A w \in Worker : pc[w] \in {"finalizing", "reporting"} =>
        claim[w].job \in Job \ {j}
  BY <1>1 DEF FinalizerHoldsLease, ValidLease, ReportsFailures, ClaimsOfJobs, Holding
<1>6. FinalizerHoldsLease' /\ FinalizedRowsFree' /\ ReportsFailures'
  BY <1>2, <1>3, <1>5
     DEF FinalizerHoldsLease, FinalizedRowsFree, ReportsFailures, ValidLease
<1>7. ReportedFailuresAreFinal'
  BY <1>1, <1>2, <1>3 DEF ReportedFailuresAreFinal, TypeOK
<1>8. WaitingIsClaimable' /\ ResultFromLastAttempt'
  BY <1>3, <1>4, AttemptsAssumption
     DEF WaitingIsClaimable, ResultFromLastAttempt, Queued
<1>9. BackoffOnlyInRetryWait'
  BY <1>2, <1>3, <1>4 DEF BackoffOnlyInRetryWait, Queued
<1>10. \A i \in Job : jobs[i].status \in Terminal => jobs'[i] = jobs[i]
  BY <1>1, <1>3 DEF Terminal
<1> QED BY <1>6, <1>7, <1>8, <1>9, <1>10

\* Time expires only leases of running rows and delays only rows in retry_wait.
LEMMA TimeFInv ==
  ASSUME IInv, FInv, NEW j \in Job, LeaseRunsOut(j) \/ BackoffElapses(j)
  PROVE  /\ FInv'
         /\ \A i \in Job : jobs[i].status \in Terminal => jobs'[i] = jobs[i]
<1> USE DEF IInv, FInv
<1>1. /\ UNCHANGED <<rowLock, pc, claim, recovering, outcome, reported>>
      /\ \/ jobs' = [jobs EXCEPT ![j] = Lapsed(jobs[j])] /\ jobs[j].lease = "live"
         \/ jobs' = [jobs EXCEPT ![j] = Due(jobs[j])] /\ ~jobs[j].due
  BY DEF LeaseRunsOut, BackoffElapses
<1>2. jobs[j].status \notin Terminal
  BY <1>1 DEF LockMatchesStatus, BackoffOnlyInRetryWait, Terminal
<1>3. \A i \in Job : jobs[i].status \in Terminal => jobs'[i] = jobs[i]
  BY <1>1, <1>2 DEF TypeOK
<1>4. \A i \in Job : /\ jobs'[i].status = jobs[i].status
                     /\ jobs'[i].attempts = jobs[i].attempts
                     /\ jobs'[i].owner = jobs[i].owner
                     /\ jobs'[i].result = jobs[i].result
                     /\ jobs'[i].type = jobs[i].type
                     /\ jobs[i].due => jobs'[i].due
  BY <1>1 DEF TypeOK, Lapsed, Due
<1>5. FinalizerHoldsLease' /\ FinalizedRowsFree' /\ ReportsFailures'
  BY <1>1, <1>4
     DEF FinalizerHoldsLease, FinalizedRowsFree, ReportsFailures, ValidLease,
         ClaimsOfJobs, Holding
<1>6. WaitingIsClaimable' /\ ResultFromLastAttempt' /\ ReportedFailuresAreFinal'
  BY <1>1, <1>4
     DEF WaitingIsClaimable, ResultFromLastAttempt, ReportedFailuresAreFinal, TypeOK
<1>7. BackoffOnlyInRetryWait'
  BY <1>1, <1>4 DEF BackoffOnlyInRetryWait
<1> QED BY <1>3, <1>5, <1>6, <1>7

\* Without overlap, every step preserves the invariant of finalisations.
LEMMA NextFInv ==
  ASSUME NoOverlap
  PROVE  IInv /\ FInv /\ [Next]_vars =>
           /\ FInv'
           /\ \A j \in Job : jobs[j].status \in Terminal => jobs'[j] = jobs[j]
<1> SUFFICES ASSUME IInv, FInv, [Next]_vars
             PROVE  /\ FInv'
                    /\ \A j \in Job : jobs[j].status \in Terminal => jobs'[j] = jobs[j]
  OBVIOUS
<1>1. CASE UNCHANGED vars
  BY <1>1 DEF vars, FInv, FinalizerHoldsLease, FinalizedRowsFree, WaitingIsClaimable,
              ResultFromLastAttempt, ReportedFailuresAreFinal, ReportsFailures,
              BackoffOnlyInRetryWait, ValidLease
<1>2. CASE \E t \in JobType, k \in Key \cup {NoKey} : Enqueue(t, k)
  BY <1>2, EnqueueFInv
<1>3. ASSUME NEW w \in Worker, CommitClaim(w) \/ WriteFinalize(w)
      PROVE  /\ FInv'
             /\ \A j \in Job : jobs[j].status \in Terminal => jobs'[j] = jobs[j]
  BY <1>3, CommitClaimFInv, WriteFinalizeFInv
<1>4. ASSUME NEW w \in Worker,
             \/ BeginClaim(w) \/ ReadForFinalize(w) \/ ReportFailure(w)
             \/ \E o \in {"ok", "error"} : Dispatch(w, o)
             \/ Crash(w) \/ Restart(w)
      PROVE  FInv' /\ UNCHANGED jobs
  <2>1. FInv'
    BY <1>4, BeginClaimFInv, ReadFInv, QuietFInv
  <2>2. UNCHANGED jobs
    BY <1>4 DEF BeginClaim, ReadForFinalize, ReportFailure, Dispatch, Crash, Restart
  <2> QED BY <2>1, <2>2
<1>5. CASE \E j \in Job : LeaseRunsOut(j) \/ BackoffElapses(j)
  BY <1>5, TimeFInv
<1> QED BY <1>1, <1>2, <1>3, <1>4, <1>5 DEF Next, WorkerStep

\* Without overlap, the lease a worker validated is still its own when it writes.
THEOREM FinalizersHoldTheirLease ==
  ASSUME NoOverlap PROVE Spec => []FinalizerHoldsLease
<1>1. FInv => FinalizerHoldsLease
  BY DEF FInv
<1> QED BY <1>1, InitIInv, NextIInv, InitFInv, NextFInv, PTL DEF Spec

\* Without overlap, no job is parked in a waiting status with no attempt left.
THEOREM WaitingJobsCanBeClaimed ==
  ASSUME NoOverlap PROVE Spec => []WaitingIsClaimable
<1>1. FInv => WaitingIsClaimable
  BY DEF FInv
<1> QED BY <1>1, InitIInv, NextIInv, InitFInv, NextFInv, PTL DEF Spec

\* Without overlap, a succeeded job carries the result of its last attempt.
THEOREM ResultsAreOfTheLastAttempt ==
  ASSUME NoOverlap PROVE Spec => []ResultFromLastAttempt
<1>1. FInv => ResultFromLastAttempt
  BY DEF FInv
<1> QED BY <1>1, InitIInv, NextIInv, InitFInv, NextFInv, PTL DEF Spec

\* Without overlap, only finally failed ingest jobs fail their repository.
THEOREM ReportsAreFinal ==
  ASSUME NoOverlap PROVE Spec => []ReportedFailuresAreFinal
<1>1. FInv => ReportedFailuresAreFinal
  BY DEF FInv
<1> QED BY <1>1, InitIInv, NextIInv, InitFInv, NextFInv, PTL DEF Spec

\* Without overlap, a job in a final status never changes again.
THEOREM FinalStatusIsFinal ==
  ASSUME NoOverlap PROVE Spec => TerminalIsFinal
<1>1. IInv /\ FInv /\ [Next]_vars =>
        [\A j \in Job : jobs[j].status \in Terminal => jobs'[j] = jobs[j]]_jobs
  BY NextFInv
<1> QED BY <1>1, InitIInv, NextIInv, InitFInv, NextFInv, PTL DEF Spec, TerminalIsFinal

-----------------------------------------------------------------------------
(* The queue implements JobLifecycle.                                      *)

\* A change of a row that JobLifecycle allows: submit, start or take over, give
\* back, succeed, fail, or stay.
LifeStep(r, s) ==
  \/ r.status = "absent" /\ s.status \in Waiting /\ s.attempts = 0
  \/ /\ r.status \in Waiting \cup {"running"} /\ r.attempts < MaxAttempts
     /\ s.status = "running" /\ s.attempts = r.attempts + 1
  \/ /\ r.status = "running" /\ r.attempts < MaxAttempts
     /\ s.status \in Waiting /\ s.attempts = r.attempts
  \/ r.status = "running" /\ s.status = "succeeded" /\ s.attempts = r.attempts
  \/ /\ r.status = "running" /\ r.attempts = MaxAttempts
     /\ s.status = "failed" /\ s.attempts = r.attempts
  \/ /\ s.attempts = r.attempts
     /\ s.status = r.status \/ {r.status, s.status} \subseteq Waiting

\* A recovered row was given back, or failed after its last attempt.
LEMMA RecoveredLifeStep ==
  ASSUME NEW r \in JobRow, r.status = "running"
  PROVE  LifeStep(r, Recovered(r))
  BY AttemptsAssumption DEF LifeStep, Recovered, JobRow, Waiting

\* A claim starts a waiting job, or takes over one that it has just recovered.
LEMMA CommitClaimLifeStep ==
  ASSUME IInv, NEW w \in Worker, CommitClaim(w), NEW j \in Job
  PROVE  LifeStep(jobs[j], jobs'[j])
<1> USE DEF IInv
<1> DEFINE rows == AfterRecovery(recovering[w])
<1>1. /\ pc[w] = "claiming"
      /\ jobs' = [i \in Job |-> IF i = claim[w].job THEN Claimed(rows[i], w)
                                ELSE rows[i]]
  BY DEF CommitClaim
<1>2. OpenClaim(w)
  BY <1>1 DEF OpenClaims
<1>3. jobs[j] \in JobRow
  BY DEF TypeOK
<1>4. rows[j] = IF j \in recovering[w] THEN Recovered(jobs[j]) ELSE jobs[j]
  BY DEF AfterRecovery
<1>5. CASE j = claim[w].job
  <2>1. /\ jobs[j].attempts < MaxAttempts
        /\ jobs[j].status \in Waiting \cup {"running"}
    BY <1>2, <1>5 DEF OpenClaim
  <2>2. rows[j].attempts = jobs[j].attempts
    BY <1>4 DEF Recovered
  <2>3. jobs'[j].status = "running" /\ jobs'[j].attempts = jobs[j].attempts + 1
    BY <1>1, <1>5, <2>2 DEF Claimed
  <2> QED BY <2>1, <2>3 DEF LifeStep
<1>6. CASE j # claim[w].job /\ j \in recovering[w]
  BY <1>1, <1>2, <1>3, <1>4, <1>6, RecoveredLifeStep DEF OpenClaim
<1>7. CASE j # claim[w].job /\ j \notin recovering[w]
  BY <1>1, <1>4, <1>7 DEF LifeStep
<1> QED BY <1>5, <1>6, <1>7

\* A finalisation ends the running attempt it validated.
LEMMA WriteFinalizeLifeStep ==
  ASSUME IInv, FInv, NEW w \in Worker, WriteFinalize(w), NEW j \in Job
  PROVE  LifeStep(jobs[j], jobs'[j])
<1> USE DEF IInv, FInv
<1> DEFINE i == claim[w].job
           n == claim[w].attempt
           row == IF outcome[w] = "ok" THEN Succeeded(jobs[i], n)
                  ELSE Failed(jobs[i], n)
<1>1. pc[w] = "finalizing" /\ jobs' = [jobs EXCEPT ![i] = row]
  BY DEF WriteFinalize
<1>2. /\ i \in Job /\ jobs[i] \in JobRow
      /\ jobs[i].status = "running" /\ jobs[i].attempts = n
  BY <1>1 DEF ClaimsOfJobs, Holding, TypeOK, FinalizerHoldsLease, ValidLease
<1>3. LifeStep(jobs[i], row)
  BY <1>2, AttemptsAssumption DEF LifeStep, Succeeded, Failed, JobRow, Waiting
<1> HIDE DEF row
<1>4. CASE j = i
  BY <1>1, <1>2, <1>3, <1>4 DEF TypeOK
<1>5. CASE j # i
  <2>1. jobs'[j] = jobs[j]
    BY <1>1, <1>5 DEF TypeOK
  <2> QED BY <2>1 DEF LifeStep
<1> QED BY <1>4, <1>5

\* Every step of the queue is a step of the lifecycle of every job.
LEMMA NextLifeStep ==
  ASSUME IInv, FInv, [Next]_vars, NEW j \in Job
  PROVE  LifeStep(jobs[j], jobs'[j])
<1>1. ASSUME NEW t \in JobType, NEW k \in Key \cup {NoKey}, Enqueue(t, k)
      PROVE  LifeStep(jobs[j], jobs'[j])
  <2>1. PICK i \in Job : /\ jobs[i].status = "absent"
                         /\ jobs' = [jobs EXCEPT ![i] = Queued(t, k)]
    BY <1>1 DEF Enqueue
  <2>2. CASE j = i
    BY <2>1, <2>2 DEF LifeStep, Queued, Waiting, IInv, TypeOK
  <2>3. CASE j # i
    BY <2>1, <2>3 DEF LifeStep, IInv, TypeOK
  <2> QED BY <2>2, <2>3
<1>2. ASSUME NEW w \in Worker, CommitClaim(w) \/ WriteFinalize(w)
      PROVE  LifeStep(jobs[j], jobs'[j])
  BY <1>2, CommitClaimLifeStep, WriteFinalizeLifeStep
<1>3. ASSUME NEW i \in Job, LeaseRunsOut(i) \/ BackoffElapses(i)
      PROVE  LifeStep(jobs[j], jobs'[j])
  <2>1. \/ jobs' = [jobs EXCEPT ![i] = Lapsed(jobs[i])]
        \/ jobs' = [jobs EXCEPT ![i] = Due(jobs[i])]
    BY <1>3 DEF LeaseRunsOut, BackoffElapses
  <2>2. jobs'[j].status = jobs[j].status /\ jobs'[j].attempts = jobs[j].attempts
    BY <2>1 DEF IInv, TypeOK, Lapsed, Due
  <2> QED BY <2>2 DEF LifeStep
<1>4. ASSUME NEW w \in Worker,
             \/ BeginClaim(w) \/ ReadForFinalize(w) \/ ReportFailure(w)
             \/ \E o \in {"ok", "error"} : Dispatch(w, o)
             \/ Crash(w) \/ Restart(w)
      PROVE  UNCHANGED jobs
  BY <1>4 DEF BeginClaim, ReadForFinalize, ReportFailure, Dispatch, Crash, Restart
<1>5. CASE UNCHANGED jobs
  BY <1>5 DEF LifeStep
<1>6. CASE UNCHANGED vars
  BY <1>5, <1>6 DEF vars
<1> QED BY <1>1, <1>2, <1>3, <1>4, <1>5, <1>6 DEF Next, WorkerStep

\* Rows that change by life steps map to a step of JobLifecycle.
LEMMA LifeStepsImplement ==
  ASSUME TypeOK, TypeOK', \A j \in Job : LifeStep(jobs[j], jobs'[j])
  PROVE  Lifecycle!Next
<1> DEFINE St(r) == IF r.status \in Waiting THEN "waiting" ELSE r.status
<1>1. \A j \in Job : /\ jobs[j] \in JobRow /\ jobs'[j] \in JobRow
                     /\ St(jobs'[j]) \in Lifecycle!State
  BY DEF TypeOK, JobRow, Status, Waiting, Terminal, Lifecycle!State
<1>2. [j \in Job |-> St(jobs'[j])] \in [Job -> Lifecycle!State]
  BY <1>1
<1>3. [j \in Job |-> jobs'[j].attempts] \in [Job -> 0 .. MaxAttempts]
  BY <1>1 DEF JobRow
<1>4. ASSUME NEW j \in Job
      PROVE  \/ Lifecycle!Submit(j) \/ Lifecycle!Start(j) \/ Lifecycle!GiveBack(j)
             \/ Lifecycle!Succeed(j) \/ Lifecycle!Fail(j) \/ Lifecycle!Stay(j)
  <2>1. LifeStep(jobs[j], jobs'[j])
    OBVIOUS
  <2> QED BY <1>1, <2>1
          DEF LifeStep, Waiting, Lifecycle!Submit, Lifecycle!Start, Lifecycle!GiveBack,
              Lifecycle!Succeed, Lifecycle!Fail, Lifecycle!Stay, Lifecycle!Becomes
<1> QED BY <1>2, <1>3, <1>4 DEF Lifecycle!Next

\* Without overlap, the queue implements JobLifecycle: at most MaxAttempts
\* attempts, one end, and no failure before the last attempt is over.
THEOREM QueueFollowsLifecycle ==
  ASSUME NoOverlap PROVE Spec => FollowsLifecycle
<1>1. Init => Lifecycle!Init
  BY DEF Init, Lifecycle!Init, AbsentRow, Waiting
<1>2. IInv /\ IInv' /\ FInv /\ [Next]_vars => [Lifecycle!Next]_(Lifecycle!vars)
  BY NextLifeStep, LifeStepsImplement DEF IInv
<1> QED BY <1>1, <1>2, InitIInv, NextIInv, InitFInv, NextFInv, PTL
        DEF Spec, FollowsLifecycle, Lifecycle!Spec
=============================================================================
