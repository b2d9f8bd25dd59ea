------------------------- MODULE RepositoryIngestion -------------------------
(***************************************************************************)
(* One registered repository: the scheduler that polls its HEAD            *)
(* (services/scheduler.py, poll_repositories), the ingest jobs it and the  *)
(* API enqueue, and the workers that ingest a commit step by step          *)
(* (services/repositories.py, ingest_repository_job), each step a          *)
(* transaction or a git command of its own.                                *)
(*                                                                         *)
(* The job queue is the one of JobQueue with claims, leases and retries    *)
(* reduced to single steps, under its assumption that a lease outlasts the *)
(* job: a running job is recovered only when no worker works on it.        *)
(***************************************************************************)
EXTENDS Naturals, Sequences

CONSTANTS
  Worker,         \* ingestion workers; k8s/README.md allows one at a time
  Commit,         \* numbered in the order in which HEAD first gets to them
  NoCommit,       \* NULL: "baseline" in a key, no target in a payload
  Tree,           \* the content of each commit
  History,        \* the pairs of an ancestor (or the commit itself) and a commit
  Local,          \* source_type = LOCAL_PATH, otherwise GITHUB
  DefaultBranch,  \* the repository has a default_branch
  MaxAttempts,
  HeadReturns,    \* HEAD may move back to a commit it has been at
  MaxMoves,       \* bound: moves of HEAD
  MaxExplicit,    \* bound: explicit re-ingests
  MaxFaults       \* bound: crashes and failing steps

ASSUME CommitAssumption == Commit \subseteq Nat /\ NoCommit \notin Commit
ASSUME FlagAssumption   == {Local, DefaultBranch, HeadReturns} \subseteq BOOLEAN
ASSUME BoundAssumption  ==
  MaxAttempts \in Nat \ {0} /\ {MaxMoves, MaxExplicit, MaxFaults} \subseteq Nat

VARIABLES
  head,       \* the commit the source's HEAD or branch is at
  past,       \* the commits it has been at before
  repo,       \* the repositories row: status and last_processed_commit_sha
  jobs,       \* the ingest jobs in the order of created_at
  poll,       \* where poll_repositories is for this repository
  checkout,   \* the cached checkout: on a branch or detached, its commit, and
              \* the commit its local branch is at
  work,       \* what each worker does
  snapshots,  \* the commits that have a repo_snapshots row
  drift,      \* the drift_events rows: <<from, to>>
  guidance,   \* the commit whose guidance sources are enabled
  moves, explicit, faults

schedulerVars == <<poll>>
ingestVars    == <<repo, checkout, snapshots, drift, guidance>>
boundVars     == <<moves, explicit, faults>>
vars == <<head, past, jobs, work, schedulerVars, ingestVars, boundVars>>

-----------------------------------------------------------------------------
Active  == {"queued", "running", "retry_wait"}
NoKey   == <<>>

\* A polled job has the key "repository-ingest:<id>:<from>:<to>".
NewJob(k, t) == [key |-> k, target |-> t, status |-> "queued", attempts |-> 0]

IdlePoll == [stage |-> "idle", last |-> NoCommit, found |-> NoCommit]
IdleWork == [stage |-> "idle", job |-> 0, base |-> NoCommit, commit |-> NoCommit]

\* The steps of an attempt, in the order of ingest_repository_job.
IngestStages == {"marking", "reading", "resolving", "inspecting", "snapshotting",
                 "scoring", "guidance", "indexing"}

\* register_with_ingest_job: the row and its first job in one transaction.
Init ==
  /\ head \in Commit /\ past = {head} /\ \A c \in Commit : head <= c
  /\ repo = [status |-> "pending", last |-> NoCommit]
  /\ jobs = <<NewJob(NoKey, NoCommit)>>
  /\ poll = IdlePoll
  /\ checkout = [mode |-> "none", commit |-> NoCommit, branch |-> NoCommit]
  /\ work = [w \in Worker |-> IdleWork]
  /\ snapshots = {} /\ drift = {} /\ guidance = NoCommit
  /\ moves = 0 /\ explicit = 0 /\ faults = 0

-----------------------------------------------------------------------------
(* The source and the API.                                                 *)

MoveHead(c) ==
  /\ moves < MaxMoves
  /\ c # head
  /\ IF c \in past THEN HeadReturns ELSE \A d \in Commit : d < c => d \in past
  /\ head' = c /\ past' = past \cup {c} /\ moves' = moves + 1
  /\ UNCHANGED <<jobs, work, schedulerVars, ingestVars, explicit, faults>>

\* enqueue_repository_ingest: no idempotency key and no target.
ExplicitIngest ==
  /\ explicit < MaxExplicit
  /\ explicit' = explicit + 1
  /\ jobs' = Append(jobs, NewJob(NoKey, NoCommit))
  /\ UNCHANGED <<head, past, work, schedulerVars, ingestVars, moves, faults>>

-----------------------------------------------------------------------------
(* The scheduler: poll_repositories.                                       *)

Fault == faults < MaxFaults /\ faults' = faults + 1

\* list_all: what the poll knows of the row from here on.
PollList ==
  /\ poll.stage = "idle"
  /\ poll' = [stage |-> "listed", last |-> repo.last, found |-> NoCommit]
  /\ UNCHANGED <<head, past, jobs, work, ingestVars, boundVars>>

\* Mutant of PollSkipsActive: a job in retry_wait does not count as active.
PollSkipsQueued ==
  /\ poll.stage = "listed"
  /\ poll' = IF \E j \in DOMAIN jobs : jobs[j].status \in {"queued", "running"}
             THEN IdlePoll ELSE [poll EXCEPT !.stage = "checked"]
  /\ UNCHANGED <<head, past, jobs, work, ingestVars, boundVars>>

\* has_active_repository_job.
PollSkipsActive ==
  /\ poll.stage = "listed"
  /\ poll' = IF \E j \in DOMAIN jobs : jobs[j].status \in Active
             THEN IdlePoll ELSE [poll EXCEPT !.stage = "checked"]
  /\ UNCHANGED <<head, past, jobs, work, ingestVars, boundVars>>

\* GitRepositoryChangeDetector.detect.
PollDetect ==
  /\ poll.stage = "checked"
  /\ poll' = IF head = poll.last THEN IdlePoll
             ELSE [poll EXCEPT !.stage = "detected", !.found = head]
  /\ UNCHANGED <<head, past, jobs, work, ingestVars, boundVars>>

\* enqueue: a job that has the key already, in whatever status, is returned.
PollEnqueue ==
  LET key == <<poll.last, poll.found>>
  IN  /\ poll.stage = "detected"
      /\ jobs' = IF \E j \in DOMAIN jobs : jobs[j].key = key THEN jobs
                 ELSE Append(jobs, NewJob(key, poll.found))
      /\ poll' = IdlePoll
      /\ UNCHANGED <<head, past, work, ingestVars, boundVars>>

\* The git command fails, or the process dies: the poll ends.
PollFails ==
  /\ poll.stage # "idle"
  /\ Fault
  /\ poll' = IdlePoll
  /\ UNCHANGED <<head, past, jobs, work, ingestVars, moves, explicit>>

-----------------------------------------------------------------------------
(* The worker: claim_next, ingest_repository_job, mark_succeeded/failed.   *)

Orphans == {j \in DOMAIN jobs : /\ jobs[j].status = "running"
                                /\ \A w \in Worker : work[w].job # j}

\* _recover_expired_leases on the orphans R whose lease has expired.
AfterRecovery(R) ==
  [j \in DOMAIN jobs |->
     IF j \notin R THEN jobs[j]
     ELSE [jobs[j] EXCEPT !.status =
             IF jobs[j].attempts >= MaxAttempts THEN "failed" ELSE "queued"]]

\* The oldest job that is due; a job in retry_wait may not be due yet.
NextDue(rows) ==
  {j \in DOMAIN rows : /\ rows[j].status \in {"queued", "retry_wait"}
                       /\ rows[j].attempts < MaxAttempts
                       /\ \A i \in 1 .. j - 1 : rows[i].status # "queued"}

Claim(w) ==
  /\ work[w].stage = "idle"
  /\ \E R \in SUBSET Orphans :
       LET rows == AfterRecovery(R)
       IN  \/ /\ R # {} /\ NextDue(rows) = {}
              /\ jobs' = rows /\ UNCHANGED work
           \/ \E j \in NextDue(rows) :
                /\ jobs' = [rows EXCEPT ![j].status = "running", ![j].attempts = @ + 1]
                /\ work' = [work EXCEPT ![w] = [IdleWork EXCEPT !.stage = "marking",
                                                                !.job = j]]
  /\ UNCHANGED <<head, past, schedulerVars, ingestVars, boundVars>>

\* Mutant of Target: target_commit_sha is not taken from the payload.
TargetIgnored(w) == NoCommit

Target(w) == jobs[work[w].job].target
GoTo(w, s) == work' = [work EXCEPT ![w].stage = s]

MarkIndexing(w) ==
  /\ work[w].stage = "marking"
  /\ repo' = [repo EXCEPT !.status = "indexing"]
  /\ GoTo(w, "reading")
  /\ UNCHANGED <<head, past, jobs, schedulerVars, checkout, snapshots, drift, guidance,
                 boundVars>>

\* Mutant of ReadRepository: drift is scored against a baseline.
ReadNothing(w) ==
  /\ work[w].stage = "reading"
  /\ GoTo(w, "resolving")
  /\ UNCHANGED <<head, past, jobs, schedulerVars, ingestVars, boundVars>>

ReadRepository(w) ==
  /\ work[w].stage = "reading"
  /\ work' = [work EXCEPT ![w].base = repo.last, ![w].stage = "resolving"]
  /\ UNCHANGED <<head, past, jobs, schedulerVars, ingestVars, boundVars>>

\* RepositorySourceResolver.resolve.  A target, and every local source, is
\* checked out detached at the exact commit, whatever the local branch; otherwise
\* the cached checkout is cloned or pulled, and a pull needs a branch to be on.
ResolveExact(w) ==
  /\ Target(w) # NoCommit \/ Local
  /\ LET c == IF Target(w) # NoCommit THEN Target(w) ELSE head
     IN  checkout' = [mode |-> "detached", commit |-> c,
                      branch |-> IF checkout.mode = "none" THEN head ELSE checkout.branch]
  /\ GoTo(w, "inspecting")

\* A clone and a fast-forward get to HEAD; a HEAD that went back to an ancestor
\* leaves the branch where it is.
Pulled == IF checkout.mode = "none" \/ <<checkout.branch, head>> \in History THEN head
          ELSE checkout.branch

\* There is no branch, or it and HEAD have diverged.
PullFails ==
  \/ checkout.mode = "detached" /\ ~DefaultBranch
  \/ /\ checkout.mode # "none"
     /\ <<checkout.branch, head>> \notin History /\ <<head, checkout.branch>> \notin History

ResolveBranch(w) ==
  /\ Target(w) = NoCommit /\ ~Local
  /\ IF PullFails THEN GoTo(w, "failed") /\ UNCHANGED checkout
     ELSE /\ checkout' = [mode |-> "branch", commit |-> Pulled, branch |-> Pulled]
          /\ GoTo(w, "inspecting")

Resolve(w) ==
  /\ work[w].stage = "resolving"
  /\ ResolveExact(w) \/ ResolveBranch(w)
  /\ UNCHANGED <<head, past, jobs, schedulerVars, repo, snapshots, drift, guidance,
                 boundVars>>

\* Mutant of Inspect: the commit found is not compared with the target.
InspectAny(w) ==
  /\ work[w].stage = "inspecting"
  /\ work' = [work EXCEPT ![w].commit = checkout.commit, ![w].stage = "snapshotting"]
  /\ UNCHANGED <<head, past, jobs, schedulerVars, ingestVars, boundVars>>

\* inspect_path, and the check of the commit it found against the target.
Inspect(w) ==
  /\ work[w].stage = "inspecting"
  /\ work' = [work EXCEPT ![w].commit = checkout.commit,
                          ![w].stage = IF Target(w) \in {NoCommit, checkout.commit}
                                       THEN "snapshotting" ELSE "failed"]
  /\ UNCHANGED <<head, past, jobs, schedulerVars, ingestVars, boundVars>>

CreateSnapshot(w) ==
  /\ work[w].stage = "snapshotting"
  /\ snapshots' = snapshots \cup {work[w].commit}
  /\ GoTo(w, "scoring")
  /\ UNCHANGED <<head, past, jobs, schedulerVars, repo, checkout, drift, guidance,
                 boundVars>>

\* GitDriftScorer.score and drift_event_repo.create: nothing is recorded for an
\* unchanged commit, and the sum over an empty diff, which is the integer 0, has
\* no quantize.
EmptyDiff(a, b) == a # NoCommit /\ a # b /\ Tree[a] = Tree[b]

RecordDrift(w) ==
  LET a == work[w].base
      b == work[w].commit
  IN  /\ work[w].stage = "scoring"
      /\ IF EmptyDiff(a, b) THEN GoTo(w, "failed") /\ UNCHANGED drift
         ELSE /\ drift' = IF a = b THEN drift ELSE drift \cup {<<a, b>>}
              /\ GoTo(w, "guidance")
      /\ UNCHANGED <<head, past, jobs, schedulerVars, repo, checkout, snapshots,
                     guidance, boundVars>>

ReplaceGuidance(w) ==
  /\ work[w].stage = "guidance"
  /\ guidance' = work[w].commit
  /\ GoTo(w, "indexing")
  /\ UNCHANGED <<head, past, jobs, schedulerVars, repo, checkout, snapshots, drift,
                 boundVars>>

\* Mutants of MarkIndexed: the HEAD of the moment is recorded, and mark_indexed is
\* called, which records no commit.
MarkIndexedAtHead(w) ==
  /\ work[w].stage = "indexing"
  /\ repo' = [status |-> "indexed", last |-> head]
  /\ GoTo(w, "succeeded")
  /\ UNCHANGED <<head, past, jobs, schedulerVars, checkout, snapshots, drift, guidance,
                 boundVars>>

MarkIndexedOnly(w) ==
  /\ work[w].stage = "indexing"
  /\ repo' = [repo EXCEPT !.status = "indexed"]
  /\ GoTo(w, "succeeded")
  /\ UNCHANGED <<head, past, jobs, schedulerVars, checkout, snapshots, drift, guidance,
                 boundVars>>

\* mark_indexed_at_commit.
MarkIndexed(w) ==
  /\ work[w].stage = "indexing"
  /\ repo' = [status |-> "indexed", last |-> work[w].commit]
  /\ GoTo(w, "succeeded")
  /\ UNCHANGED <<head, past, jobs, schedulerVars, checkout, snapshots, drift, guidance,
                 boundVars>>

\* A step raises: a git command or a transaction fails.
StepFails(w) ==
  /\ work[w].stage \in IngestStages
  /\ Fault
  /\ GoTo(w, "failed")
  /\ UNCHANGED <<head, past, jobs, schedulerVars, ingestVars, moves, explicit>>

MarkSucceeded(w) ==
  /\ work[w].stage = "succeeded"
  /\ jobs' = [jobs EXCEPT ![work[w].job].status = "succeeded"]
  /\ work' = [work EXCEPT ![w] = IdleWork]
  /\ UNCHANGED <<head, past, schedulerVars, ingestVars, boundVars>>

\* mark_failed; the final failure is reported to the repository.
MarkFailed(w) ==
  LET j == work[w].job
      retry == jobs[j].attempts < MaxAttempts
  IN  /\ work[w].stage = "failed"
      /\ jobs' = [jobs EXCEPT ![j].status = IF retry THEN "retry_wait" ELSE "failed"]
      /\ work' = [work EXCEPT ![w] = [IdleWork EXCEPT !.stage =
                                        IF retry THEN "idle" ELSE "reporting"]]
      /\ UNCHANGED <<head, past, schedulerVars, ingestVars, boundVars>>

\* mark_repository_failed.
ReportFailure(w) ==
  /\ work[w].stage = "reporting"
  /\ repo' = [repo EXCEPT !.status = "failed"]
  /\ work' = [work EXCEPT ![w] = IdleWork]
  /\ UNCHANGED <<head, past, jobs, schedulerVars, checkout, snapshots, drift, guidance,
                 boundVars>>

\* The process dies and is restarted; its job stays running until its lease ends.
Crash(w) ==
  /\ work[w].stage # "idle"
  /\ Fault
  /\ work' = [work EXCEPT ![w] = IdleWork]
  /\ UNCHANGED <<head, past, jobs, schedulerVars, ingestVars, moves, explicit>>

-----------------------------------------------------------------------------
PollStep == PollList \/ PollSkipsActive \/ PollDetect \/ PollEnqueue

IngestStep(w) ==
  \/ MarkIndexing(w) \/ ReadRepository(w) \/ Resolve(w) \/ Inspect(w)
  \/ CreateSnapshot(w) \/ RecordDrift(w) \/ ReplaceGuidance(w) \/ MarkIndexed(w)
  \/ MarkSucceeded(w) \/ MarkFailed(w) \/ ReportFailure(w)

Next ==
  \/ \E c \in Commit : MoveHead(c)
  \/ ExplicitIngest
  \/ PollStep \/ PollFails
  \/ \E w \in Worker : Claim(w) \/ IngestStep(w) \/ StepFails(w) \/ Crash(w)

Spec == Init /\ [][Next]_vars

\* The scheduler polls for ever, leases and retry delays end, and the steps of
\* an ingestion end (the git commands of the resolver have no timeout: that they
\* end is an assumption on the environment).
FairSpec ==
  /\ Spec
  /\ WF_vars(PollStep)
  /\ \A w \in Worker : WF_vars(Claim(w)) /\ WF_vars(IngestStep(w))

-----------------------------------------------------------------------------
\* README.md: the scheduler "skips repositories with an active ingestion job",
\* so that several commits become one job: although the check and the enqueue are
\* separate transactions, no two polled ingestions are ever active together.
OnePolledIngestion ==
  \A i, j \in DOMAIN jobs :
    /\ jobs[i].status \in Active /\ jobs[i].key # NoKey
    /\ jobs[j].status \in Active /\ jobs[j].key # NoKey
    => i = j

\* A repository shown as indexed has the snapshot and the guidance of the commit
\* it is recorded at, whatever attempts crashed or failed half-way before.
IndexedIsConsistent ==
  repo.status = "indexed" => repo.last \in snapshots /\ guidance = repo.last

\* README.md: ingestion "creates the snapshot, calculates and persists drift, and
\* only then advances the repository's processed commit".  The processed commit
\* never moves over a change for which no drift event is recorded.
DriftBeforeAdvance ==
  [][repo'.last # repo.last => <<repo.last, repo'.last>> \in drift]_vars

\* A polled job that succeeded has ingested the very commit the poll detected,
\* also when HEAD has moved on since or an explicit ingest has pulled in between.
ExactCommitIngested ==
  \A j \in DOMAIN jobs :
    jobs[j].status = "succeeded" /\ jobs[j].target # NoCommit
      => jobs[j].target \in snapshots

\* README.md: "The scheduler detects new commits and enqueues ingestion
\* automatically": once HEAD stays at a commit, the repository gets to it, unless
\* the polled job for it has used up its attempts.
HeadIsProcessed ==
  \A c \in Commit :
    <>[](head = c) =>
      <>[](\/ repo.last = c
           \/ \E j \in DOMAIN jobs : jobs[j].target = c /\ jobs[j].status = "failed")

-----------------------------------------------------------------------------
\* README.md: "The endpoint remains available for an explicit re-ingest", and the
\* worker "records baseline and commit-to-commit drift events": as long as no
\* command, transaction or process fails, no ingestion does.
IngestionSucceeds ==
  faults = 0 => \A j \in DOMAIN jobs : jobs[j].status # "failed"
=============================================================================
