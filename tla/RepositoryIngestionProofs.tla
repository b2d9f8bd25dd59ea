---------------------- MODULE RepositoryIngestionProofs ----------------------
(***************************************************************************)
(* Proofs about RepositoryIngestion, for any set of commits, any bounds and *)
(* any number of attempts.  What concerns the jobs holds for any number of  *)
(* workers.  What concerns the repository row, the drift and the guidance   *)
(* needs the deployment's rule of one ingestion worker (k8s/README.md), the *)
(* hypothesis OneWorker of those theorems: a second worker may advance the  *)
(* row between the read of last_processed_commit_sha and its update.        *)
(***************************************************************************)
EXTENDS RepositoryIngestion, TLAPS

\* k8s/README.md, lines 245 to 249: single-replica Deployments with `Recreate',
\* which "prevents old and new pods for the same role from overlapping".
OneWorker == \A v, w \in Worker : v = w

-----------------------------------------------------------------------------
(* The inductive invariant.                                                *)

CommitOrNull == Commit \cup {NoCommit}
Keys == {NoKey} \cup (CommitOrNull \X CommitOrNull)

JobRow == [key : Keys, target : CommitOrNull,
           status : Active \cup {"succeeded", "failed"}, attempts : Nat]

\* The stages in which a worker has a job, and those after the check of the
\* commit and after the insert of the snapshot.
Working  == IngestStages \cup {"succeeded", "failed"}
Checked  == {"snapshotting", "scoring", "guidance", "indexing", "succeeded"}
Recorded == {"scoring", "guidance", "indexing", "succeeded"}

Work == [stage : Working \cup {"idle", "reporting"}, job : Nat,
         base : CommitOrNull, commit : CommitOrNull]

TypeInv ==
  /\ head \in Commit
  /\ jobs \in Seq(JobRow)
  /\ poll \in [stage : {"idle", "listed", "checked", "detected"},
               last : CommitOrNull, found : CommitOrNull]
  /\ repo \in [status : {"pending", "indexing", "indexed", "failed"}, last : CommitOrNull]
  /\ checkout \in [mode : {"none", "branch", "detached"}, commit : CommitOrNull,
                   branch : CommitOrNull]
  /\ work \in [Worker -> Work]

\* A worker at work has a running job of its own.
WorkInv ==
  /\ \A w \in Worker : work[w].stage \in Working =>
       work[w].job \in DOMAIN jobs /\ jobs[work[w].job].status = "running"
  /\ \A v, w \in Worker :
       v # w /\ work[v].stage \in Working /\ work[w].stage \in Working =>
         work[v].job # work[w].job

Polled(j) == jobs[j].status \in Active /\ jobs[j].key # NoKey

\* From its check to its enqueue, a poll is the only source of polled jobs.
PollInv ==
  /\ poll.stage \in {"checked", "detected"} => \A j \in DOMAIN jobs : ~Polled(j)
  /\ OnePolledIngestion

\* An attempt past the check of its commit works on the commit it was asked for.
CommitInv ==
  /\ \A w \in Worker :
       /\ work[w].stage \in Checked => Target(w) \in {NoCommit, work[w].commit}
       /\ work[w].stage \in Recorded => work[w].commit \in snapshots
  /\ ExactCommitIngested

IInv == TypeInv /\ WorkInv /\ PollInv /\ CommitInv

\* With one worker, nobody else moves the row, the drift or the guidance during
\* an attempt.
Attempt(w) ==
  /\ work[w].stage \in IngestStages \ {"marking"} => repo.status # "indexed"
  /\ work[w].stage \in IngestStages \ {"marking", "reading"} => work[w].base = repo.last
  /\ work[w].stage \in {"guidance", "indexing"} =>
       work[w].base = work[w].commit \/ <<work[w].base, work[w].commit>> \in drift
  /\ work[w].stage = "indexing" => guidance = work[w].commit

SoloInv == IndexedIsConsistent /\ \A w \in Worker : Attempt(w)

-----------------------------------------------------------------------------
(* Types.                                                                  *)

Stages == Working \cup {"idle", "reporting"}

\* A worker that goes to another stage keeps its job and what it has read.
LEMMA Goes ==
  ASSUME TypeInv, NEW w \in Worker, NEW s \in Stages, GoTo(w, s)
  PROVE  /\ work' \in [Worker -> Work]
         /\ work'[w].stage = s /\ work'[w].job = work[w].job
         /\ work'[w].base = work[w].base /\ work'[w].commit = work[w].commit
         /\ \A v \in Worker \ {w} : work'[v] = work[v]
<1>1. work[w] \in Work /\ [work[w] EXCEPT !.stage = s] \in Work
  BY DEF TypeInv, Work, Stages
<1> QED BY <1>1 DEF TypeInv, GoTo, Work

\* Sequences of rows with the positions of jobs are tables of jobs.
LEMMA RowsType ==
  ASSUME TypeInv, NEW rows, rows = [j \in DOMAIN jobs |-> rows[j]],
         \A j \in DOMAIN jobs : rows[j] \in JobRow
  PROVE  rows \in Seq(JobRow) /\ DOMAIN rows = DOMAIN jobs
<1>1. DOMAIN jobs = 1 .. Len(jobs) /\ Len(jobs) \in Nat
  BY DEF TypeInv
<1> QED BY <1>1

\* A row gets another status.
LEMMA StatusSet ==
  ASSUME TypeInv, NEW k \in DOMAIN jobs, NEW s \in Active \cup {"succeeded", "failed"},
         jobs' = [jobs EXCEPT ![k].status = s]
  PROVE  /\ jobs' \in Seq(JobRow) /\ DOMAIN jobs' = DOMAIN jobs
         /\ jobs'[k].status = s /\ jobs'[k].key = jobs[k].key
         /\ jobs'[k].target = jobs[k].target
         /\ \A j \in DOMAIN jobs \ {k} : jobs'[j] = jobs[j]
<1>1. \A j \in DOMAIN jobs : jobs[j] \in JobRow
  BY DEF TypeInv
<1>2. [jobs[k] EXCEPT !.status = s] \in JobRow
  BY <1>1 DEF JobRow
<1>3. /\ jobs' = [j \in DOMAIN jobs |-> jobs'[j]]
      /\ jobs'[k] = [jobs[k] EXCEPT !.status = s]
      /\ \A j \in DOMAIN jobs \ {k} : jobs'[j] = jobs[j]
  BY DEF TypeInv
<1>4. \A j \in DOMAIN jobs : jobs'[j] \in JobRow
  BY <1>1, <1>2, <1>3
<1>5. jobs' \in Seq(JobRow) /\ DOMAIN jobs' = DOMAIN jobs
  BY <1>3, <1>4, RowsType
<1> QED BY <1>1, <1>3, <1>5 DEF JobRow

\* A new row is appended: the others stay.
LEMMA RowAdded ==
  ASSUME TypeInv, NEW k \in Keys, NEW t \in CommitOrNull, jobs' = Append(jobs, NewJob(k, t))
  PROVE  /\ jobs' \in Seq(JobRow)
         /\ \A j \in DOMAIN jobs : j \in DOMAIN jobs' /\ jobs'[j] = jobs[j]
         /\ \A j \in DOMAIN jobs' \ DOMAIN jobs :
              j = Len(jobs) + 1 /\ jobs'[j] = NewJob(k, t)
<1>1. NewJob(k, t) \in JobRow
  BY DEF NewJob, JobRow, Active
<1>2. jobs \in Seq(JobRow)
  BY DEF TypeInv
<1> QED BY <1>1, <1>2

\* Recovery ends no attempt that a worker is at and moves no closed job.
LEMMA RecoveredRows ==
  ASSUME TypeInv, NEW R \in SUBSET Orphans
  PROVE  /\ AfterRecovery(R) \in Seq(JobRow) /\ DOMAIN AfterRecovery(R) = DOMAIN jobs
         /\ \A j \in DOMAIN jobs :
              /\ AfterRecovery(R)[j] \in JobRow
              /\ AfterRecovery(R)[j].key = jobs[j].key
              /\ AfterRecovery(R)[j].target = jobs[j].target
              /\ \/ AfterRecovery(R)[j] = jobs[j]
                 \/ /\ j \in Orphans /\ jobs[j].status = "running"
                    /\ AfterRecovery(R)[j].status \in {"queued", "failed"}
<1> DEFINE rows == AfterRecovery(R)
<1>1. \A j \in DOMAIN jobs : jobs[j] \in JobRow
  BY DEF TypeInv
<1>2. rows = [j \in DOMAIN jobs |-> rows[j]]
  BY DEF AfterRecovery
<1>3. ASSUME NEW j \in DOMAIN jobs
      PROVE  /\ rows[j] \in JobRow /\ rows[j].key = jobs[j].key
             /\ rows[j].target = jobs[j].target
             /\ \/ rows[j] = jobs[j]
                \/ /\ j \in Orphans /\ jobs[j].status = "running"
                   /\ rows[j].status \in {"queued", "failed"}
  <2>1. CASE j \notin R
    BY <1>1, <2>1 DEF AfterRecovery
  <2>2. CASE j \in R
    <3>1. rows[j] = [jobs[j] EXCEPT !.status =
                       IF jobs[j].attempts >= MaxAttempts THEN "failed" ELSE "queued"]
      BY <2>2 DEF AfterRecovery
    <3>2. j \in Orphans /\ jobs[j].status = "running"
      BY <2>2 DEF Orphans
    <3> QED BY <1>1, <3>1, <3>2 DEF JobRow, Active
  <2> QED BY <2>1, <2>2
<1> HIDE DEF rows
<1>4. rows \in Seq(JobRow) /\ DOMAIN rows = DOMAIN jobs
  BY <1>2, <1>3, RowsType
<1> QED BY <1>3, <1>4 DEF rows

\* What a claim does: it recovers orphans and may give the worker a job that
\* waits, and nobody's job is touched.
LEMMA ClaimEffect ==
  ASSUME TypeInv, NEW w \in Worker, Claim(w)
  PROVE  /\ jobs' \in Seq(JobRow) /\ DOMAIN jobs' = DOMAIN jobs
         /\ work' \in [Worker -> Work]
         /\ \A v \in Worker \ {w} : work'[v] = work[v]
         /\ \A j \in DOMAIN jobs :
              /\ jobs'[j].key = jobs[j].key /\ jobs'[j].target = jobs[j].target
              /\ jobs'[j].status \in Active => jobs[j].status \in Active
              /\ jobs'[j].status = "succeeded" => jobs[j].status = "succeeded"
              /\ \A v \in Worker : work[v].job = j /\ jobs[j].status = "running"
                                   => jobs'[j].status = "running"
         /\ \/ work'[w] = work[w]
            \/ /\ work'[w].stage = "marking" /\ work'[w].job \in DOMAIN jobs
               /\ jobs'[work'[w].job].status = "running"
               /\ \A v \in Worker : work[v].job = work'[w].job =>
                    jobs[work[v].job].status # "running"
         /\ UNCHANGED <<head, past, schedulerVars, ingestVars, boundVars>>
<1>1. PICK R \in SUBSET Orphans :
        \/ /\ R # {} /\ NextDue(AfterRecovery(R)) = {}
           /\ jobs' = AfterRecovery(R) /\ UNCHANGED work
        \/ \E j \in NextDue(AfterRecovery(R)) :
             /\ jobs' = [AfterRecovery(R) EXCEPT ![j].status = "running",
                                                 ![j].attempts = @ + 1]
             /\ work' = [work EXCEPT ![w] = [IdleWork EXCEPT !.stage = "marking", !.job = j]]
  BY DEF Claim
<1> DEFINE rows == AfterRecovery(R)
<1>2. /\ rows \in Seq(JobRow) /\ DOMAIN rows = DOMAIN jobs
      /\ \A j \in DOMAIN jobs :
           /\ rows[j] \in JobRow /\ rows[j].key = jobs[j].key /\ rows[j].target = jobs[j].target
           /\ \/ rows[j] = jobs[j]
              \/ /\ j \in Orphans /\ jobs[j].status = "running"
                 /\ rows[j].status \in {"queued", "failed"}
  BY RecoveredRows
<1>3. \A j \in DOMAIN jobs, v \in Worker :
        work[v].job = j /\ jobs[j].status = "running" => rows[j] = jobs[j]
  BY <1>2 DEF Orphans
<1>4. UNCHANGED <<head, past, schedulerVars, ingestVars, boundVars>>
  BY DEF Claim
<1> HIDE DEF rows
<1>5. CASE jobs' = rows /\ UNCHANGED work
  <2>1. work' \in [Worker -> Work]
    BY <1>5 DEF TypeInv
  <2> QED BY <1>2, <1>3, <1>4, <1>5, <2>1 DEF Active
<1>6. ASSUME NEW k \in NextDue(rows),
             jobs' = [rows EXCEPT ![k].status = "running", ![k].attempts = @ + 1],
             work' = [work EXCEPT ![w] = [IdleWork EXCEPT !.stage = "marking", !.job = k]]
      PROVE  /\ jobs' \in Seq(JobRow) /\ DOMAIN jobs' = DOMAIN jobs
             /\ work' \in [Worker -> Work]
             /\ \A v \in Worker \ {w} : work'[v] = work[v]
             /\ \A j \in DOMAIN jobs :
                  /\ jobs'[j].key = jobs[j].key /\ jobs'[j].target = jobs[j].target
                  /\ jobs'[j].status \in Active => jobs[j].status \in Active
                  /\ jobs'[j].status = "succeeded" => jobs[j].status = "succeeded"
                  /\ \A v \in Worker : work[v].job = j /\ jobs[j].status = "running"
                                       => jobs'[j].status = "running"
             /\ /\ work'[w].stage = "marking" /\ work'[w].job \in DOMAIN jobs
                /\ jobs'[work'[w].job].status = "running"
                /\ \A v \in Worker : work[v].job = work'[w].job =>
                     jobs[work[v].job].status # "running"
  <2>1. /\ k \in DOMAIN jobs /\ rows[k].status \in {"queued", "retry_wait"}
        /\ rows[k] \in JobRow
    BY <1>2 DEF NextDue
  <2>2. [rows[k] EXCEPT !.status = "running", !.attempts = @ + 1] \in JobRow
    <3>1. ASSUME NEW r \in JobRow
          PROVE  [r EXCEPT !.status = "running", !.attempts = @ + 1] \in JobRow
      <4>1. r.attempts + 1 \in Nat
        BY DEF JobRow
      <4> DEFINE n == r.attempts + 1
      <4> HIDE DEF n
      <4>2. [r EXCEPT !.status = "running", !.attempts = n] \in JobRow
        BY <4>1 DEF JobRow, Active, n
      <4> QED BY <4>2 DEF n
    <3> QED BY <2>1, <3>1
  <2>3. /\ jobs' = [j \in DOMAIN jobs |-> jobs'[j]]
        /\ jobs'[k] = [rows[k] EXCEPT !.status = "running", !.attempts = @ + 1]
        /\ \A j \in DOMAIN jobs \ {k} : jobs'[j] = rows[j]
    BY <1>2, <1>6, <2>1
  <2>4. jobs' \in Seq(JobRow) /\ DOMAIN jobs' = DOMAIN jobs
    BY <1>2, <2>2, <2>3, RowsType
  <2>5. /\ jobs'[k].status = "running" /\ jobs'[k].key = rows[k].key
        /\ jobs'[k].target = rows[k].target
    BY <2>1, <2>3 DEF JobRow
  <2>6. jobs[k].status \in Active
    BY <1>2, <2>1 DEF Active
  <2>7. \A v \in Worker : work[v].job = k => jobs[k].status # "running"
    BY <1>3, <2>1
  <2>8. [IdleWork EXCEPT !.stage = "marking", !.job = k] \in Work
    <3>1. k \in Nat
      BY <2>1 DEF TypeInv
    <3> QED BY <3>1 DEF Work, IdleWork, Working, IngestStages, CommitOrNull
  <2>9. /\ work' \in [Worker -> Work] /\ \A v \in Worker \ {w} : work'[v] = work[v]
        /\ work'[w].stage = "marking" /\ work'[w].job = k
    BY <1>6, <2>8 DEF TypeInv, IdleWork
  <2>10. \A j \in DOMAIN jobs \ {k} :
           /\ jobs'[j].key = jobs[j].key /\ jobs'[j].target = jobs[j].target
           /\ jobs'[j].status \in Active => jobs[j].status \in Active
           /\ jobs'[j].status = "succeeded" => jobs[j].status = "succeeded"
           /\ \A v \in Worker : work[v].job = j /\ jobs[j].status = "running"
                                => jobs'[j].status = "running"
    BY <1>2, <1>3, <2>3 DEF Active
  <2> QED BY <1>2, <2>1, <2>4, <2>5, <2>6, <2>7, <2>9, <2>10
<1> QED BY <1>1, <1>4, <1>5, <1>6 DEF rows

\* The steps of an attempt that leave the jobs alone: the worker goes on to a
\* later stage with the job it has, and reads base and commit on the way.
Inside(w) ==
  \/ MarkIndexing(w) \/ ReadRepository(w) \/ Resolve(w) \/ Inspect(w)
  \/ CreateSnapshot(w) \/ RecordDrift(w) \/ ReplaceGuidance(w) \/ MarkIndexed(w)
  \/ StepFails(w)

LEMMA InsideEffect ==
  ASSUME TypeInv, NEW w \in Worker, Inside(w)
  PROVE  /\ work' \in [Worker -> Work]
         /\ \A v \in Worker \ {w} : work'[v] = work[v]
         /\ work[w].stage \in IngestStages /\ work'[w].stage \in Working \ {"marking"}
         /\ work'[w].job = work[w].job
         /\ UNCHANGED <<head, past, jobs, schedulerVars>>
<1> USE DEF TypeInv
<1>1. work[w] \in Work
  OBVIOUS
<1>2. ASSUME NEW s \in Working \ {"marking"}, GoTo(w, s)
      PROVE  /\ work' \in [Worker -> Work]
             /\ \A v \in Worker \ {w} : work'[v] = work[v]
             /\ work'[w].stage \in Working \ {"marking"}
             /\ work'[w].job = work[w].job
  BY <1>2, Goes DEF Stages
<1>3. CASE ReadRepository(w)
  <2>1. [work[w] EXCEPT !.base = repo.last, !.stage = "resolving"] \in Work
    BY <1>1 DEF Work, Working, IngestStages
  <2> QED BY <1>1, <1>3, <2>1 DEF ReadRepository, Work, Working, IngestStages
<1>4. CASE Inspect(w)
  <2> DEFINE s == IF Target(w) \in {NoCommit, checkout.commit} THEN "snapshotting" ELSE "failed"
  <2>1. s \in Working \ {"marking"}
    BY DEF Working, IngestStages
  <2>2. work' = [work EXCEPT ![w].commit = checkout.commit, ![w].stage = s]
        /\ work[w].stage = "inspecting" /\ UNCHANGED <<head, past, jobs, schedulerVars>>
    BY <1>4 DEF Inspect
  <2> HIDE DEF s
  <2>3. [work[w] EXCEPT !.commit = checkout.commit, !.stage = s] \in Work
    BY <1>1, <2>1 DEF Work
  <2> QED BY <1>1, <2>1, <2>2, <2>3 DEF Work, IngestStages
<1>5. CASE Resolve(w)
  <2>1. GoTo(w, "inspecting") \/ GoTo(w, "failed")
    BY <1>5 DEF Resolve, ResolveExact, ResolveBranch
  <2> QED BY <1>2, <1>5, <2>1 DEF Resolve, Working, IngestStages
<1>6. CASE RecordDrift(w)
  <2>1. GoTo(w, "guidance") \/ GoTo(w, "failed")
    BY <1>6 DEF RecordDrift
  <2> QED BY <1>2, <1>6, <2>1 DEF RecordDrift, Working, IngestStages
<1>7. CASE \/ MarkIndexing(w) \/ CreateSnapshot(w) \/ ReplaceGuidance(w) \/ MarkIndexed(w)
           \/ StepFails(w)
  <2>1. \/ GoTo(w, "reading") \/ GoTo(w, "scoring") \/ GoTo(w, "indexing")
        \/ GoTo(w, "succeeded") \/ GoTo(w, "failed")
    BY <1>7 DEF MarkIndexing, CreateSnapshot, ReplaceGuidance, MarkIndexed, StepFails
  <2>2. work[w].stage \in IngestStages /\ UNCHANGED <<head, past, jobs, schedulerVars>>
    BY <1>7 DEF MarkIndexing, CreateSnapshot, ReplaceGuidance, MarkIndexed, StepFails,
                IngestStages
  <2> QED BY <1>2, <2>1, <2>2 DEF Working, IngestStages
<1> QED BY <1>3, <1>4, <1>5, <1>6, <1>7 DEF Inside

\* A worker that closes its job, reports a failure or dies is at no job then.
Leaves(w) == MarkSucceeded(w) \/ MarkFailed(w) \/ ReportFailure(w) \/ Crash(w)

LEMMA LeavesEffect ==
  ASSUME TypeInv, WorkInv, NEW w \in Worker, Leaves(w)
  PROVE  /\ work' \in [Worker -> Work] /\ work'[w].stage \in {"idle", "reporting"}
         /\ \A v \in Worker \ {w} : work'[v] = work[v]
         /\ jobs' \in Seq(JobRow) /\ DOMAIN jobs' = DOMAIN jobs
         /\ \A j \in DOMAIN jobs :
              /\ jobs'[j].key = jobs[j].key /\ jobs'[j].target = jobs[j].target
              /\ \/ jobs'[j] = jobs[j]
                 \/ /\ work[w].stage \in Working /\ j = work[w].job
                    /\ jobs[j].status \in Active
                    /\ jobs'[j].status = "succeeded" => work[w].stage = "succeeded"
         /\ UNCHANGED <<head, past, schedulerVars, checkout, snapshots, drift, guidance>>
<1> USE DEF TypeInv
<1>1. IdleWork \in Work /\ [IdleWork EXCEPT !.stage = "idle"] \in Work
      /\ [IdleWork EXCEPT !.stage = "reporting"] \in Work
      /\ IdleWork.stage = "idle"
      /\ [IdleWork EXCEPT !.stage = "idle"].stage = "idle"
      /\ [IdleWork EXCEPT !.stage = "reporting"].stage = "reporting"
  BY DEF IdleWork, Work, CommitOrNull
<1>2. CASE ReportFailure(w) \/ Crash(w)
  BY <1>1, <1>2 DEF ReportFailure, Crash, ingestVars
<1>3. CASE MarkSucceeded(w)
  <2>1. /\ work[w].job \in DOMAIN jobs /\ jobs[work[w].job].status = "running"
        /\ work[w].stage \in Working /\ work[w].stage = "succeeded"
    BY <1>3 DEF MarkSucceeded, WorkInv, Working
  <2>2. jobs' = [jobs EXCEPT ![work[w].job].status = "succeeded"]
        /\ work' = [work EXCEPT ![w] = IdleWork]
        /\ UNCHANGED <<head, past, schedulerVars, checkout, snapshots, drift, guidance>>
    BY <1>3 DEF MarkSucceeded, ingestVars
  <2> QED BY <1>1, <2>1, <2>2, StatusSet DEF Active
<1>4. CASE MarkFailed(w)
  <2>1. /\ work[w].job \in DOMAIN jobs /\ jobs[work[w].job].status = "running"
        /\ work[w].stage \in Working
    BY <1>4 DEF MarkFailed, WorkInv, Working
  <2>2. PICK s \in {"retry_wait", "failed"} : jobs' = [jobs EXCEPT ![work[w].job].status = s]
    BY <1>4 DEF MarkFailed
  <2>3. PICK x \in {"idle", "reporting"} :
          work' = [work EXCEPT ![w] = [IdleWork EXCEPT !.stage = x]]
    BY <1>4 DEF MarkFailed
  <2>4. UNCHANGED <<head, past, schedulerVars, checkout, snapshots, drift, guidance>>
    BY <1>4 DEF MarkFailed, ingestVars
  <2>5. work' \in [Worker -> Work] /\ work'[w].stage = x
        /\ \A v \in Worker \ {w} : work'[v] = work[v]
    BY <1>1, <2>3
  <2>6. s \in Active \cup {"succeeded", "failed"} /\ s # "succeeded"
    BY <2>2 DEF Active
  <2>7. /\ jobs' \in Seq(JobRow) /\ DOMAIN jobs' = DOMAIN jobs
        /\ jobs'[work[w].job].status = s
        /\ jobs'[work[w].job].key = jobs[work[w].job].key
        /\ jobs'[work[w].job].target = jobs[work[w].job].target
        /\ \A j \in DOMAIN jobs \ {work[w].job} : jobs'[j] = jobs[j]
    BY <2>1, <2>2, <2>6, StatusSet
  <2> QED BY <2>1, <2>4, <2>5, <2>6, <2>7 DEF Active
<1> QED BY <1>2, <1>3, <1>4 DEF Leaves

\* Every step is one of the source, the API, the poll or a worker.
LEMMA Steps ==
  ASSUME [Next]_vars
  PROVE  \/ \E c \in Commit : MoveHead(c)
         \/ ExplicitIngest \/ PollStep \/ PollFails
         \/ \E w \in Worker : Claim(w) \/ Inside(w) \/ Leaves(w)
         \/ UNCHANGED vars
  BY DEF Next, IngestStep, Inside, Leaves

\* What the steps outside the workers do to the jobs and the poll.
LEMMA PollEffect ==
  ASSUME TypeInv, PollStep \/ PollFails
  PROVE  /\ poll' \in [stage : {"idle", "listed", "checked", "detected"},
                       last : CommitOrNull, found : CommitOrNull]
         /\ \/ jobs' = jobs
            \/ /\ poll.stage = "detected" /\ poll'.stage = "idle"
               /\ \E k \in Keys, t \in CommitOrNull : jobs' = Append(jobs, NewJob(k, t))
         /\ \/ poll'.stage \in {"idle", "listed"}
            \/ /\ poll'.stage = "checked" /\ jobs' = jobs
               /\ \A j \in DOMAIN jobs : jobs[j].status \notin Active
            \/ poll.stage = "checked" /\ poll'.stage = "detected" /\ jobs' = jobs
         /\ UNCHANGED <<head, work, ingestVars>>
<1> USE DEF TypeInv
<1>1. IdlePoll.stage = "idle"
      /\ IdlePoll \in [stage : {"idle", "listed", "checked", "detected"},
                       last : CommitOrNull, found : CommitOrNull]
  BY DEF IdlePoll, CommitOrNull
<1>2. CASE PollList
  BY <1>2 DEF PollList, CommitOrNull
<1>3. CASE PollSkipsActive
  BY <1>1, <1>3 DEF PollSkipsActive
<1>4. CASE PollDetect
  BY <1>1, <1>4 DEF PollDetect, CommitOrNull
<1>5. CASE PollEnqueue
  <2>1. <<poll.last, poll.found>> \in Keys /\ poll.found \in CommitOrNull
    BY DEF Keys
  <2> QED BY <1>1, <1>5, <2>1 DEF PollEnqueue
<1>6. CASE PollFails
  BY <1>1, <1>6 DEF PollFails
<1> QED BY <1>2, <1>3, <1>4, <1>5, <1>6 DEF PollStep

LEMMA TypeStep ==
  ASSUME TypeInv, WorkInv, [Next]_vars
  PROVE  TypeInv'
<1>1. ASSUME NEW c \in Commit, MoveHead(c)
      PROVE  TypeInv'
  BY <1>1 DEF TypeInv, MoveHead, schedulerVars, ingestVars
<1>2. CASE ExplicitIngest
  <2>1. NoKey \in Keys /\ NoCommit \in CommitOrNull
    BY DEF Keys, CommitOrNull
  <2>2. jobs' \in Seq(JobRow)
    BY <1>2, <2>1, RowAdded DEF ExplicitIngest
  <2> QED BY <1>2, <2>2 DEF TypeInv, ExplicitIngest, schedulerVars, ingestVars
<1>3. CASE PollStep \/ PollFails
  <2>1. jobs' \in Seq(JobRow)
    BY <1>3, PollEffect, RowAdded DEF TypeInv
  <2> QED BY <1>3, <2>1, PollEffect DEF TypeInv, ingestVars
<1>4. ASSUME NEW w \in Worker, Claim(w)
      PROVE  TypeInv'
  BY <1>4, ClaimEffect DEF TypeInv, schedulerVars, ingestVars
<1>5. ASSUME NEW w \in Worker, Inside(w)
      PROVE  TypeInv'
  <2>1. Resolve(w) => work[w] \in Work /\ Target(w) \in CommitOrNull
    <3>1. CASE Resolve(w)
      <4>1. work[w].job \in DOMAIN jobs
        BY <3>1 DEF WorkInv, Resolve, Working, IngestStages
      <4>2. jobs[work[w].job] \in JobRow
        BY <4>1 DEF TypeInv
      <4> QED BY <4>2 DEF TypeInv, Target, JobRow
    <3> QED BY <3>1
  <2>2. repo' \in [status : {"pending", "indexing", "indexed", "failed"}, last : CommitOrNull]
    BY <1>5 DEF Inside, MarkIndexing, ReadRepository, Resolve, Inspect, CreateSnapshot,
                RecordDrift, ReplaceGuidance, MarkIndexed, StepFails, ingestVars, TypeInv, Work
  <2>3. checkout' \in [mode : {"none", "branch", "detached"}, commit : CommitOrNull,
                    branch : CommitOrNull]
    <3>1. CASE Resolve(w)
      BY <2>1, <3>1 DEF Resolve, ResolveExact, ResolveBranch, Pulled, TypeInv, CommitOrNull
    <3> QED BY <1>5, <3>1 DEF Inside, MarkIndexing, ReadRepository, Inspect, CreateSnapshot,
                RecordDrift, ReplaceGuidance, MarkIndexed, StepFails, ingestVars, TypeInv
  <2> QED BY <1>5, <2>2, <2>3, InsideEffect DEF TypeInv, schedulerVars
<1>6. ASSUME NEW w \in Worker, Leaves(w)
      PROVE  TypeInv'
  <2>1. repo' \in [status : {"pending", "indexing", "indexed", "failed"}, last : CommitOrNull]
    BY <1>6 DEF Leaves, MarkSucceeded, MarkFailed, ReportFailure, Crash, ingestVars, TypeInv
  <2> QED BY <1>6, <2>1, LeavesEffect DEF TypeInv, schedulerVars
<1>7. CASE UNCHANGED vars
  BY <1>7 DEF TypeInv, vars, schedulerVars, ingestVars
<1> QED BY <1>1, <1>2, <1>3, <1>4, <1>5, <1>6, <1>7, Steps

-----------------------------------------------------------------------------
(* Jobs and workers.                                                       *)

LEMMA WorkStep ==
  ASSUME TypeInv, WorkInv, [Next]_vars
  PROVE  WorkInv'
<1>1. ASSUME work' = work,
             \A j \in DOMAIN jobs : j \in DOMAIN jobs' /\ jobs'[j] = jobs[j]
      PROVE  WorkInv'
  BY <1>1 DEF WorkInv
<1>2. CASE ExplicitIngest
  <2>1. NoKey \in Keys /\ NoCommit \in CommitOrNull
    BY DEF Keys, CommitOrNull
  <2> QED BY <1>1, <1>2, <2>1, RowAdded DEF ExplicitIngest
<1>3. CASE PollStep \/ PollFails
  BY <1>1, <1>3, PollEffect, RowAdded
<1>4. ASSUME NEW w \in Worker, Claim(w)
      PROVE  WorkInv'
  <2>1. CASE work'[w] = work[w]
    BY <1>4, <2>1, ClaimEffect DEF WorkInv
  <2>2. CASE /\ work'[w].stage = "marking" /\ work'[w].job \in DOMAIN jobs
             /\ jobs'[work'[w].job].status = "running"
             /\ \A v \in Worker : work[v].job = work'[w].job =>
                  jobs[work[v].job].status # "running"
    <3>1. \A v \in Worker \ {w} : work[v].stage \in Working => work[v].job # work'[w].job
      BY <2>2 DEF WorkInv
    <3>2. \A v \in Worker \ {w} : work'[v] = work[v]
      BY <1>4, ClaimEffect
    <3>3. ASSUME NEW v \in Worker, work'[v].stage \in Working
          PROVE  work'[v].job \in DOMAIN jobs' /\ jobs'[work'[v].job].status = "running"
      <4>1. CASE v = w
        BY <1>4, <2>2, <4>1, ClaimEffect
      <4>2. CASE v # w
        <5>1. work[v].job \in DOMAIN jobs /\ jobs[work[v].job].status = "running"
          BY <3>2, <3>3, <4>2 DEF WorkInv
        <5>2. jobs'[work[v].job].status = "running" /\ DOMAIN jobs' = DOMAIN jobs
          BY <1>4, <5>1, ClaimEffect
        <5> QED BY <3>2, <4>2, <5>1, <5>2
      <4> QED BY <4>1, <4>2
    <3>4. ASSUME NEW u \in Worker, NEW v \in Worker, u # v,
                 work'[u].stage \in Working, work'[v].stage \in Working
          PROVE  work'[u].job # work'[v].job
      <4>1. CASE u # w /\ v # w
        BY <3>2, <3>4, <4>1 DEF WorkInv
      <4>2. CASE u = w \/ v = w
        BY <3>1, <3>2, <3>4, <4>2
      <4> QED BY <4>1, <4>2
    <3> QED BY <3>3, <3>4 DEF WorkInv
  <2> QED BY <1>4, <2>1, <2>2, ClaimEffect
<1>5. ASSUME NEW w \in Worker, Inside(w)
      PROVE  WorkInv'
  BY <1>5, InsideEffect DEF WorkInv, Working
<1>6. ASSUME NEW w \in Worker, Leaves(w)
      PROVE  WorkInv'
  <2>1. work'[w].stage \notin Working
    BY <1>6, LeavesEffect DEF Working, IngestStages
  <2> QED BY <1>6, <2>1, LeavesEffect DEF WorkInv
<1>7. CASE UNCHANGED <<work, jobs>>
  BY <1>1, <1>7
<1> QED BY <1>2, <1>3, <1>4, <1>5, <1>6, <1>7, Steps DEF MoveHead, vars

\* A step that gives no job a new key and makes none active keeps the polled
\* jobs as few as they are.
LEMMA PolledKept ==
  ASSUME PollInv, DOMAIN jobs' = DOMAIN jobs,
         poll'.stage \in {"checked", "detected"} => poll.stage \in {"checked", "detected"},
         \A j \in DOMAIN jobs :
           jobs'[j].key = jobs[j].key /\ (jobs'[j].status \in Active => jobs[j].status \in Active)
  PROVE  PollInv'
  BY DEF PollInv, OnePolledIngestion, Polled

LEMMA PollInvStep ==
  ASSUME TypeInv, WorkInv, PollInv, [Next]_vars
  PROVE  PollInv'
<1>1. CASE ExplicitIngest
  <2>1. NoKey \in Keys /\ NoCommit \in CommitOrNull
    BY DEF Keys, CommitOrNull
  <2>2. jobs' = Append(jobs, NewJob(NoKey, NoCommit)) /\ poll' = poll
    BY <1>1 DEF ExplicitIngest, schedulerVars
  <2>3. /\ \A j \in DOMAIN jobs : j \in DOMAIN jobs' /\ jobs'[j] = jobs[j]
        /\ \A j \in DOMAIN jobs' \ DOMAIN jobs : jobs'[j].key = NoKey
    BY <2>1, <2>2, RowAdded DEF NewJob
  <2> QED BY <2>2, <2>3 DEF PollInv, OnePolledIngestion, Polled
<1>2. CASE PollStep \/ PollFails
  <2>1. CASE jobs' = jobs
    BY <1>2, <2>1, PollEffect DEF PollInv, OnePolledIngestion, Polled
  <2>2. ASSUME poll.stage = "detected", poll'.stage = "idle", NEW k \in Keys,
               NEW t \in CommitOrNull, jobs' = Append(jobs, NewJob(k, t))
        PROVE  PollInv'
    <3>1. /\ \A j \in DOMAIN jobs : j \in DOMAIN jobs' /\ jobs'[j] = jobs[j]
          /\ \A j \in DOMAIN jobs' \ DOMAIN jobs : j = Len(jobs) + 1
      BY <2>2, RowAdded
    <3>2. \A j \in DOMAIN jobs : ~Polled(j)
      BY <2>2 DEF PollInv
    <3> QED BY <2>2, <3>1, <3>2 DEF PollInv, OnePolledIngestion, Polled
  <2> QED BY <1>2, <2>1, <2>2, PollEffect
<1>3. ASSUME NEW w \in Worker, Claim(w)
      PROVE  PollInv'
  BY <1>3, ClaimEffect, PolledKept DEF schedulerVars
<1>4. ASSUME NEW w \in Worker, Inside(w)
      PROVE  PollInv'
  BY <1>4, InsideEffect, PolledKept DEF schedulerVars
<1>5. ASSUME NEW w \in Worker, Leaves(w)
      PROVE  PollInv'
  BY <1>5, LeavesEffect, PolledKept DEF schedulerVars
<1>6. CASE UNCHANGED <<poll, jobs>>
  BY <1>6, PolledKept
<1> QED BY <1>1, <1>2, <1>3, <1>4, <1>5, <1>6, Steps DEF MoveHead, vars, schedulerVars

-----------------------------------------------------------------------------
(* The commit of an attempt.                                               *)

\* The attempt of a worker that stays where it is keeps its commit.
LEMMA CommitKept ==
  ASSUME TypeInv, WorkInv, CommitInv, NEW v \in Worker, work'[v] = work[v],
         snapshots \subseteq snapshots',
         \A j \in DOMAIN jobs : jobs'[j].target = jobs[j].target
  PROVE  /\ work'[v].stage \in Checked => Target(v)' \in {NoCommit, work'[v].commit}
         /\ work'[v].stage \in Recorded => work'[v].commit \in snapshots'
<1>1. work[v].stage \in Checked => work[v].job \in DOMAIN jobs
  BY DEF WorkInv, Checked, Working, IngestStages
<1> QED BY <1>1 DEF CommitInv, Target

\* What is ingested stays ingested as long as no other job succeeds.
LEMMA ExactKept ==
  ASSUME ExactCommitIngested, snapshots \subseteq snapshots',
         DOMAIN jobs' = DOMAIN jobs,
         \A j \in DOMAIN jobs :
           /\ jobs'[j].target = jobs[j].target
           /\ jobs'[j].status = "succeeded" =>
                jobs[j].status = "succeeded" \/ jobs[j].target \in snapshots \cup {NoCommit}
  PROVE  ExactCommitIngested'
  BY DEF ExactCommitIngested

LEMMA CommitStep ==
  ASSUME TypeInv, WorkInv, CommitInv, [Next]_vars
  PROVE  CommitInv'
<1>0. ExactCommitIngested
  BY DEF CommitInv
<1>1. ASSUME UNCHANGED <<work, snapshots>>, NEW k \in Keys, NEW t \in CommitOrNull,
             jobs' = Append(jobs, NewJob(k, t))
      PROVE  CommitInv'
  <2>1. /\ \A j \in DOMAIN jobs : j \in DOMAIN jobs' /\ jobs'[j] = jobs[j]
        /\ \A j \in DOMAIN jobs' \ DOMAIN jobs : jobs'[j].status = "queued"
    BY <1>1, RowAdded DEF NewJob
  <2>2. ExactCommitIngested'
    BY <1>0, <1>1, <2>1 DEF ExactCommitIngested
  <2> QED BY <1>1, <2>1, <2>2, CommitKept DEF CommitInv
<1>2. CASE ExplicitIngest
  <2>1. NoKey \in Keys /\ NoCommit \in CommitOrNull
    BY DEF Keys, CommitOrNull
  <2> QED BY <1>1, <1>2, <2>1 DEF ExplicitIngest, ingestVars
<1>3. CASE UNCHANGED <<work, snapshots, jobs>>
  BY <1>0, <1>3, CommitKept, ExactKept DEF CommitInv
<1>4. CASE PollStep \/ PollFails
  BY <1>1, <1>3, <1>4, PollEffect DEF ingestVars
<1>5. ASSUME NEW w \in Worker, Claim(w)
      PROVE  CommitInv'
  <2>1. UNCHANGED snapshots /\ ExactCommitIngested'
    BY <1>0, <1>5, ClaimEffect, ExactKept DEF ingestVars
  <2>2. \A v \in Worker : work'[v] = work[v] \/ work'[v].stage = "marking"
    BY <1>5, ClaimEffect
  <2> QED BY <1>5, <2>1, <2>2, ClaimEffect, CommitKept DEF CommitInv, Checked, Recorded
<1>6. ASSUME NEW w \in Worker, Leaves(w)
      PROVE  CommitInv'
  <2>1. work[w].stage = "succeeded" => Target(w) \in snapshots \cup {NoCommit}
    BY DEF CommitInv, Checked, Recorded
  <2>2. UNCHANGED snapshots /\ ExactCommitIngested'
    BY <1>0, <1>6, <2>1, LeavesEffect, ExactKept DEF Target
  <2>3. \A v \in Worker : work'[v] = work[v] \/ work'[v].stage \in {"idle", "reporting"}
    BY <1>6, LeavesEffect
  <2> QED BY <1>6, <2>2, <2>3, LeavesEffect, CommitKept DEF CommitInv, Checked, Recorded
<1>7. ASSUME NEW w \in Worker, Inside(w)
      PROVE  CommitInv'
  <2>1. snapshots \subseteq snapshots'
    BY <1>7 DEF Inside, MarkIndexing, ReadRepository, Resolve, Inspect, CreateSnapshot,
                RecordDrift, ReplaceGuidance, MarkIndexed, StepFails, ingestVars
  <2>2. jobs' = jobs /\ work'[w].job = work[w].job /\ Target(w)' = Target(w)
    BY <1>7, InsideEffect DEF Target
  <2>3. ExactCommitIngested'
    BY <1>0, <2>1, <2>2, ExactKept
  <2>4. \A v \in Worker \ {w} :
          /\ work'[v].stage \in Checked => Target(v)' \in {NoCommit, work'[v].commit}
          /\ work'[v].stage \in Recorded => work'[v].commit \in snapshots'
    BY <1>7, <2>1, <2>2, InsideEffect, CommitKept
  <2> DEFINE Good == /\ work'[w].stage \in Checked => Target(w) \in {NoCommit, work'[w].commit}
                     /\ work'[w].stage \in Recorded => work'[w].commit \in snapshots'
  <2>5. Good
    <3>1. CASE Inspect(w)
      <4>1. /\ work'[w].commit = checkout.commit
            /\ work'[w].stage = IF Target(w) \in {NoCommit, checkout.commit}
                                THEN "snapshotting" ELSE "failed"
        BY <3>1 DEF Inspect, TypeInv, Work
      <4> QED BY <4>1 DEF Checked, Recorded
    <3>2. CASE ReadRepository(w)
      <4>1. work'[w].stage = "resolving"
        BY <3>2 DEF ReadRepository, TypeInv, Work
      <4> QED BY <4>1 DEF Checked, Recorded
    <3>3. ASSUME NEW s \in {"reading", "inspecting", "failed"}, GoTo(w, s)
          PROVE  Good
      <4>1. work'[w].stage = s
        BY <3>3, Goes DEF Stages, Working, IngestStages
      <4> QED BY <4>1 DEF Checked, Recorded
    <3>4. ASSUME NEW s \in {"scoring", "guidance", "indexing", "succeeded"}, GoTo(w, s),
                 work[w].stage \in Checked, work[w].commit \in snapshots'
          PROVE  Good
      <4>1. work'[w].stage = s /\ work'[w].commit = work[w].commit
        BY <3>4, Goes DEF Stages, Working, IngestStages
      <4> QED BY <3>4, <4>1 DEF CommitInv
    <3>5. CASE CreateSnapshot(w)
      BY <3>4, <3>5 DEF CreateSnapshot, Checked
    <3>6. CASE RecordDrift(w)
      BY <2>1, <3>3, <3>4, <3>6 DEF RecordDrift, Checked, Recorded, CommitInv
    <3>7. CASE ReplaceGuidance(w) \/ MarkIndexed(w)
      BY <2>1, <3>4, <3>7 DEF ReplaceGuidance, MarkIndexed, Checked, Recorded, CommitInv
    <3>8. CASE MarkIndexing(w) \/ Resolve(w) \/ StepFails(w)
      BY <3>3, <3>8 DEF MarkIndexing, Resolve, ResolveExact, ResolveBranch, StepFails
    <3> QED BY <1>7, <3>1, <3>2, <3>5, <3>6, <3>7, <3>8 DEF Inside
  <2> QED BY <2>2, <2>3, <2>4, <2>5 DEF CommitInv
<1> QED BY <1>2, <1>3, <1>4, <1>5, <1>6, <1>7, Steps DEF MoveHead, vars, ingestVars

-----------------------------------------------------------------------------
(* One worker.                                                             *)

\* Nothing but an attempt and its failure moves the row, the drift or the
\* guidance.
LEMMA SoloKept ==
  ASSUME SoloInv, UNCHANGED <<repo, snapshots, drift, guidance>>,
         \A w \in Worker : work'[w] = work[w] \/ work'[w].stage \notin IngestStages \ {"marking"}
  PROVE  SoloInv'
<1>1. ASSUME NEW w \in Worker  PROVE Attempt(w)'
  <2>1. CASE work'[w] = work[w]
    BY <2>1 DEF SoloInv, Attempt
  <2>2. CASE work'[w].stage \notin IngestStages \ {"marking"}
    BY <2>2 DEF Attempt, IngestStages
  <2> QED BY <2>1, <2>2
<1> QED BY <1>1 DEF SoloInv, IndexedIsConsistent

LEMMA SoloStep ==
  ASSUME OneWorker, TypeInv, WorkInv, CommitInv, SoloInv, [Next]_vars
  PROVE  SoloInv'
<1>1. CASE (\E c \in Commit : MoveHead(c)) \/ ExplicitIngest \/ PollStep \/ PollFails
            \/ UNCHANGED vars
  BY <1>1, SoloKept, PollEffect DEF MoveHead, ExplicitIngest, vars, ingestVars
<1>2. ASSUME NEW w \in Worker, Claim(w)
      PROVE  SoloInv'
  <2>1. \A v \in Worker : work'[v] = work[v] \/ work'[v].stage = "marking"
    BY <1>2, ClaimEffect
  <2> QED BY <1>2, <2>1, ClaimEffect, SoloKept DEF ingestVars
<1>3. ASSUME NEW w \in Worker, Leaves(w)
      PROVE  SoloInv'
  <2>1. \A v \in Worker : work'[v] = work[v] \/ work'[v].stage \in {"idle", "reporting"}
    BY <1>3, LeavesEffect
  <2>2. CASE repo' = repo
    BY <1>3, <2>1, <2>2, LeavesEffect, SoloKept DEF IngestStages
  <2>3. CASE ReportFailure(w)
    <3>1. repo'.status = "failed"
      BY <2>3 DEF ReportFailure, TypeInv
    <3>2. \A v \in Worker : v = w /\ work'[v].stage \in {"idle", "reporting"}
      BY <1>3, LeavesEffect DEF OneWorker
    <3> QED BY <3>1, <3>2 DEF SoloInv, IndexedIsConsistent, Attempt, IngestStages
  <2> QED BY <1>3, <2>2, <2>3 DEF Leaves, MarkSucceeded, MarkFailed, Crash, ingestVars
<1>4. ASSUME NEW w \in Worker, Inside(w)
      PROVE  SoloInv'
  <2>1. \A v \in Worker : v = w
    BY DEF OneWorker
  <2>2. SUFFICES IndexedIsConsistent' /\ Attempt(w)'
    BY <2>1 DEF SoloInv
  <2>3. Attempt(w) /\ IndexedIsConsistent /\ work[w] \in Work
    BY DEF SoloInv, TypeInv
  <2>4. work[w].stage \in Recorded => work[w].commit \in snapshots
    BY DEF CommitInv
  <2>5. ASSUME NEW s \in Stages, GoTo(w, s)
        PROVE  work'[w].stage = s /\ work'[w].base = work[w].base
               /\ work'[w].commit = work[w].commit
    BY <2>5, Goes
  <2>6. CASE MarkIndexing(w)
    <3>1. work'[w].stage = "reading" /\ repo'.status = "indexing"
      BY <2>5, <2>6 DEF MarkIndexing, Stages, Working, IngestStages, TypeInv
    <3> QED BY <3>1 DEF IndexedIsConsistent, Attempt, IngestStages
  <2>7. CASE ReadRepository(w)
    <3>1. /\ work[w].stage = "reading" /\ work'[w].stage = "resolving"
          /\ work'[w].base = repo.last
          /\ UNCHANGED <<repo, snapshots, drift, guidance>>
      BY <2>3, <2>7 DEF ReadRepository, Work, TypeInv, ingestVars
    <3> QED BY <2>3, <3>1 DEF IndexedIsConsistent, Attempt, IngestStages
  <2>8. CASE Resolve(w)
    <3>1. /\ work[w].stage = "resolving" /\ work'[w].stage \in {"inspecting", "failed"}
          /\ work'[w].base = work[w].base
          /\ UNCHANGED <<repo, snapshots, drift, guidance>>
      BY <2>5, <2>8 DEF Resolve, ResolveExact, ResolveBranch, Stages, Working, IngestStages
    <3> QED BY <2>3, <3>1 DEF IndexedIsConsistent, Attempt, IngestStages
  <2>9. CASE Inspect(w)
    <3>1. /\ work[w].stage = "inspecting" /\ work'[w].stage \in {"snapshotting", "failed"}
          /\ work'[w].base = work[w].base
          /\ UNCHANGED <<repo, snapshots, drift, guidance>>
      BY <2>3, <2>9 DEF Inspect, Work, TypeInv, ingestVars
    <3> QED BY <2>3, <3>1 DEF IndexedIsConsistent, Attempt, IngestStages
  <2>10. CASE CreateSnapshot(w)
    <3>1. /\ work[w].stage = "snapshotting" /\ work'[w].stage = "scoring"
          /\ work'[w].base = work[w].base /\ snapshots \subseteq snapshots'
          /\ UNCHANGED <<repo, drift, guidance>>
      BY <2>5, <2>10 DEF CreateSnapshot, Stages, Working, IngestStages
    <3> QED BY <2>3, <3>1 DEF IndexedIsConsistent, Attempt, IngestStages
  <2>11. CASE RecordDrift(w)
    <3>1. /\ work[w].stage = "scoring" /\ UNCHANGED <<repo, snapshots, guidance>>
          /\ \/ work'[w].stage = "failed"
             \/ /\ work'[w].stage = "guidance" /\ work'[w].base = work[w].base
                /\ work'[w].commit = work[w].commit
                /\ drift' = IF work[w].base = work[w].commit THEN drift
                            ELSE drift \cup {<<work[w].base, work[w].commit>>}
      BY <2>5, <2>11 DEF RecordDrift, Stages, Working, IngestStages
    <3> QED BY <2>3, <3>1 DEF IndexedIsConsistent, Attempt, IngestStages
  <2>12. CASE ReplaceGuidance(w)
    <3>1. /\ work[w].stage = "guidance" /\ work'[w].stage = "indexing"
          /\ work'[w].base = work[w].base /\ work'[w].commit = work[w].commit
          /\ guidance' = work[w].commit /\ UNCHANGED <<repo, snapshots, drift>>
      BY <2>5, <2>12 DEF ReplaceGuidance, Stages, Working, IngestStages
    <3> QED BY <2>3, <3>1 DEF IndexedIsConsistent, Attempt, IngestStages
  <2>13. CASE MarkIndexed(w)
    <3>1. /\ work[w].stage = "indexing" /\ work'[w].stage = "succeeded"
          /\ repo'.last = work[w].commit /\ UNCHANGED <<snapshots, drift, guidance>>
      BY <2>5, <2>13 DEF MarkIndexed, Stages, Working, IngestStages
    <3> QED BY <2>3, <2>4, <3>1 DEF IndexedIsConsistent, Attempt, IngestStages, Recorded
  <2>14. CASE StepFails(w)
    <3>1. work'[w].stage = "failed" /\ UNCHANGED <<repo, snapshots, drift, guidance>>
      BY <2>5, <2>14 DEF StepFails, Stages, Working, ingestVars
    <3> QED BY <2>3, <3>1 DEF IndexedIsConsistent, Attempt, IngestStages
  <2> QED BY <1>4, <2>6, <2>7, <2>8, <2>9, <2>10, <2>11, <2>12, <2>13, <2>14 DEF Inside
<1> QED BY <1>1, <1>2, <1>3, <1>4, Steps

-----------------------------------------------------------------------------
(* The theorems.                                                           *)

LEMMA InitIInv == Init => IInv /\ SoloInv
<1> SUFFICES ASSUME Init  PROVE IInv /\ SoloInv
  OBVIOUS
<1>1. NewJob(NoKey, NoCommit) \in JobRow
  BY DEF NewJob, JobRow, Keys, CommitOrNull, Active
<1>2. /\ jobs \in Seq(JobRow) /\ DOMAIN jobs = {1} /\ jobs[1] = NewJob(NoKey, NoCommit)
  BY <1>1 DEF Init
<1>3. IdleWork \in Work /\ IdleWork.stage = "idle" /\ IdlePoll.stage = "idle"
      /\ IdlePoll \in [stage : {"idle", "listed", "checked", "detected"},
                       last : CommitOrNull, found : CommitOrNull]
  BY DEF IdleWork, Work, IdlePoll, CommitOrNull
<1>4. TypeInv
  BY <1>2, <1>3 DEF Init, TypeInv, CommitOrNull
<1>5. WorkInv
  BY <1>3 DEF Init, WorkInv, Working, IngestStages
<1>6. PollInv
  BY <1>2, <1>3 DEF Init, PollInv, OnePolledIngestion
<1>7. CommitInv
  BY <1>2, <1>3 DEF Init, CommitInv, Checked, Recorded, ExactCommitIngested, NewJob
<1>8. SoloInv
  BY <1>3 DEF Init, SoloInv, IndexedIsConsistent, Attempt, IngestStages
<1> QED BY <1>4, <1>5, <1>6, <1>7, <1>8 DEF IInv

LEMMA NextIInv == IInv /\ [Next]_vars => IInv'
  BY TypeStep, WorkStep, PollInvStep, CommitStep DEF IInv

\* The inductive invariant of the jobs and their commits, for any workers.
THEOREM Invariant == Spec => []IInv
  BY InitIInv, NextIInv, PTL DEF Spec

\* Although the check for active jobs and the enqueue are two transactions, the
\* polls of one scheduler never have two ingestions active, whatever is claimed,
\* retried, recovered or enqueued by hand in between.
THEOREM OnePolledAtATime == Spec => []OnePolledIngestion
<1>1. IInv => OnePolledIngestion
  BY DEF IInv, PollInv
<1> QED BY <1>1, Invariant, PTL

\* A polled job that succeeded, after any crashes and retries and with any
\* number of workers, has a snapshot of the commit it was enqueued for.
THEOREM PolledCommitIsIngested == Spec => []ExactCommitIngested
<1>1. IInv => ExactCommitIngested
  BY DEF IInv, CommitInv
<1> QED BY <1>1, Invariant, PTL

\* With one worker, the invariant of its attempts.
THEOREM SoloInvariant ==
  ASSUME OneWorker
  PROVE  Spec => [](IInv /\ SoloInv)
<1>1. IInv /\ SoloInv /\ [Next]_vars => (IInv /\ SoloInv)'
  BY NextIInv, SoloStep DEF IInv
<1> QED BY <1>1, InitIInv, PTL DEF Spec

\* With one worker, a repository shown as indexed has the snapshot and the
\* guidance of its recorded commit.
THEOREM IndexedRowsAreConsistent ==
  ASSUME OneWorker
  PROVE  Spec => []IndexedIsConsistent
<1>1. SoloInv => IndexedIsConsistent
  BY DEF SoloInv
<1> QED BY <1>1, SoloInvariant, PTL

\* With one worker, the processed commit moves only over recorded drift.
THEOREM DriftIsRecordedFirst ==
  ASSUME OneWorker
  PROVE  Spec => DriftBeforeAdvance
<1> DEFINE OverDrift == repo'.last # repo.last => <<repo.last, repo'.last>> \in drift
<1>1. ASSUME IInv, SoloInv, [Next]_vars  PROVE OverDrift
  <2>1. ASSUME NEW w \in Worker, MarkIndexed(w)  PROVE OverDrift
    <3>1. /\ work[w].stage = "indexing" /\ repo'.last = work[w].commit
      BY <2>1 DEF MarkIndexed
    <3>2. work[w].base = repo.last
          /\ (work[w].base = work[w].commit \/ <<work[w].base, work[w].commit>> \in drift)
      BY <1>1, <3>1 DEF SoloInv, Attempt, IngestStages
    <3> QED BY <3>1, <3>2
  <2>2. ASSUME repo'.last = repo.last  PROVE OverDrift
    BY <2>2
  <2>3. ASSUME NEW w \in Worker, MarkIndexing(w) \/ ReportFailure(w)  PROVE OverDrift
    BY <1>1, <2>3 DEF MarkIndexing, ReportFailure, IInv, TypeInv
  <2> QED BY <1>1, <2>1, <2>2, <2>3
          DEF Next, MoveHead, ExplicitIngest, PollStep, PollList, PollSkipsActive, PollDetect,
              PollEnqueue, PollFails, Claim, IngestStep, ReadRepository, Resolve, Inspect,
              CreateSnapshot, RecordDrift, ReplaceGuidance, StepFails, MarkSucceeded,
              MarkFailed, Crash, ingestVars, vars
<1>2. IInv /\ SoloInv /\ [Next]_vars => [OverDrift]_vars
  BY <1>1
<1> QED BY <1>2, SoloInvariant, PTL DEF Spec, DriftBeforeAdvance

=============================================================================
