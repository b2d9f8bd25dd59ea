# A formal model of Ooh

Ooh registers source repositories, ingests each new commit, measures how far it drifts
from the last one, and lets a language model write tests ("questions") about the change
and judge the answers people give. Python processes share one Postgres database: an HTTP
API, a scheduler, and workers. There is no message broker: all coordination is rows, row
locks, leases and idempotency keys, and the browser follows a running job by replaying a
table of events. This directory models that coordination in TLA+, model-checks it with TLC
and proves with TLAPS, for every value of the constants, the safety properties of the queue, the
event stream, the schedules, the ingestion, the agent runs and the context packs. Source paths below are relative to
`src/src/ooh/` unless they begin with `frontend/`, `k8s/` or name `README.md` (those are
under `src/`).

## The system

| Component | State | Operations | What is hard |
|---|---|---|---|
| **Job queue** `db/repos/jobs.py`, `services/jobs.py` | `jobs` rows: status, attempts, lease, owner, `run_after`, idempotency key, result | enqueue, `claim_next` (recover expired leases, then claim), `mark_succeeded`, `mark_failed` | several workers, leases that expire under a live worker, crashes, worker ids that repeat |
| **Worker loop** `worker/runner.py`, `worker/main.py` | one job in hand | claim, dispatch, finalize, report a failed repository | each call is a transaction of its own; stop and crash between any two |
| **Repository polling** `services/scheduler.py`, `scheduler/` | `repositories.last_processed_commit_sha`, ingest jobs | poll every repository, detect HEAD, enqueue a keyed job | check, git command and enqueue are separate; HEAD moves at any time |
| **Ingestion** `services/repositories.py`, `worker/repository_source_resolver.py` | repository status, cached checkout, snapshots, drift events, guidance | the steps of `ingest_repository_job` | each step commits alone, a retry redoes them, the checkout is shared and keeps its mode |
| **Drift scorer** `worker/drift_scorer.py` | none | score a commit range | weights, empty diffs, merges |
| **Schedules** `db/repos/repository_schedules.py` | schedule row, trigger evaluations | upsert, `evaluate_pending` | `now()` is the start of a transaction; snapshot, row lock and unique constraint must together give one evaluation per event |
| **Execution events** `db/repos/execution_events.py` | append-only events, one cursor row | append (in the writer's transaction), paged reads | ids must follow the order of commits |
| **Trace snapshot and stream** `services/traces.py`, `api/routes/traces.py` | none (reads) | snapshot, replay, server-sent events | several reads at different times; the last page of an ended run |
| **Trace client** `frontend/src/App.tsx` | trace shown, last event id | snapshot, stream, replay after an error | overlapping, delayed and lost deliveries |
| **Agent trace** `db/repos/agent_traces.py` | runs, steps, artifacts | start, end, record, each with its event | each write is a transaction of its own: a worker that dies, or a write that fails outside every handler, leaves a run or a step RUNNING |
| **Test generation** `agent/test_generation_runner.py`, `agent/execution_tracing.py` | agent run, generated tests | plan, inspect, generate, dedupe, retry, persist | step sequence numbers, one deadline over many model calls, crash half-way, writes that fail after the last handler |
| **Tool inspection** `agent/tool_inspection.py`, `agent/repository_inspection.py`, `agent/tools/` | the transcript of a run | call tools within byte and call bounds | bounds, duplicate calls, deadline |
| **Answer judging** `services/answer_judging.py`, `agent/answer_judging_runner.py` | answers, results, learnings | submit, judge, repair, store | answer and job, result, learning and the marks of step and run are separate transactions |
| **Context packs, evidence** `worker/context_pack_builder.py`, `agent/evidence.py` | pack files and rows | build the packs of a snapshot, read one back, accept references | builds share files, read a checkout that moves, and are read by runs meanwhile |
| **Prompt budget** `agent/prompt_budget.py` | none | compact a transcript, project a pack, within one limit of bytes | parts with limits of their own; off-by-one at each |
| **Attention profiles** `db/repos/attention_profiles.py` | one active profile per repository | create, activate | two activations at once |
| API routes and schemas, configuration, providers, structural index, deployment | | | I/O, parsing and wiring |

How they interact: the API and the scheduler enqueue jobs; workers claim them, and an ingest
job writes the drift events the scheduler's schedules turn into generation jobs; every
change of a job or an agent run appends an execution event in the same transaction; the API
serves those events to the browser.

What makes each correct:

- *Queue*: an attempt has one owner, a stale worker cannot finalize, an ended job stays ended,
  a job is attempted at most `max_attempts` times and ends whatever crashes.
- *Polling and ingestion*: one polled ingestion at a time, exactly the detected commit, no
  processed commit without its drift event, an indexed repository is consistent, HEAD is reached.
- *Schedules*: each event evaluated once with its job, under the schedule in force, none replayed
  from a time when the schedule was off, none forgotten.
- *Event log and stream*: no reader skips a change, a completed trace is the final one, an ended run
  completes every trace.
- *Generation*: step numbers are never reused, a run that is over shows as open only steps whose own
  writes failed, tests appear all at once and never for a FAILED run, nothing is asked twice, every job
  ends and no run stays open beside a live worker unless the write that was to end it failed.
- *Judging*: a job reports exactly the result it stored, the stored status is the grade of the
  stored score, a lost learning fails the run.
- *Packs and profiles*: one active profile, a pack's row is of the pack's file, a question is of its
  job's snapshot and its evidence names that snapshot's content, excerpts keep to the budget but for what
  decoding and redaction add to the last one.

## Modules

| Module | Models | State | Actions and the code they stand for |
|---|---|---|---|
| `JobLifecycle` | what the queue promises of a job | `state`, `attempt` | `Submit`, `Start`, `GiveBack`, `Succeed`, `Fail`; no workers, leases or locks |
| `JobQueue` | `jobs.py`, `process_once`, restarts | rows, row locks, each worker's place in `process_once`, its claim | `Enqueue` = `enqueue_job`; `BeginClaim`/`CommitClaim` = `claim_next` with `_recover_expired_leases`; `Dispatch`; `ReadForFinalize`/`WriteFinalize` = `mark_succeeded`, `mark_failed` around `_validate_lease_owner`; `ReportFailure` = `mark_repository_failed`; `Crash`, `Restart`, `LeaseRunsOut`, `BackoffElapses` |
| `JobQueueProofs`, `RepositoryIngestionProofs`, `ScheduleTriggerProofs`, `TraceStreamProofs`, `AgentJobsProofs`, `AgentRunProofs`, `ContextPacksProofs`, `PromptBudgetProofs` | theorems about the module of the name; `AgentRunProofs`, on generation and judging, is about `AgentJobs` | | |
| `RepositoryIngestion` | one repository from poll to index | HEAD, repository row, ingest jobs, checkout, snapshots, drift, guidance | `PollList` .. `PollEnqueue` = `poll_repositories`; `MarkIndexing` .. `MarkIndexed` = the steps of `ingest_repository_job`; `ResolveExact`, `ResolveBranch` = the source resolver; `StepFails`, `PollFails`, `Crash` |
| `ScheduleTrigger` | schedules and drift triggers | clock, schedule rows and their locks, events, evaluations, jobs, open transactions | `BeginUpsert`, `LockSchedule`, `CommitUpsert` = `upsert`; `BeginTick`, `LockRow`, `Evaluate`, `EvaluateConflicts` = `evaluate_pending`; `BeginDrift`, `CommitDrift`; `CrashScheduler` |
| `EventFeed` | what the event log promises a client | log, contents, the client's status and position, what it shows | `Publish`, `Open`, `Load`, `Fail`, `Follow`; no cursor row, pages, streams or replays |
| `TraceStream` | event log, snapshot, stream and browser client | events and cursor row, open transactions, server generator, wire, client | `Append`, `Commit`, `Rollback` = `append_execution_event` and its session; `Snapshot*` = `get_run_snapshot`; `Connect`, `SrvPoll`, `SrvCheck`, `SrvDrain` = `iter_execution_event_sse`; `Deliver`, `ConnectionLost`, `Replay*` = `useTraceData` |
| `AgentJob` | what generation and judge jobs share: the job row as its attempts see it, each attempt's process, run and steps | job, phase, run, steps, `torn` | `Claim`, `LeaseExpires`, `Crash`, `RefuseJob`, `ReportSuccess`, `ReportFailure` = `process_once` around a handler; `Write`, `Mark` = `create_step`, `mark_step_finished`; `EndInFailure` = a handler that marks step and run FAILED and raises, either mark of which may fail; `LeaveRunning` = a write that fails outside every handler; `Torn` = what a step is whose own writes fail |
| `StepSequences` | the numbers of the steps of a generation run | | the strides and bases of the runner, the inspection and the loop |
| `GenerationRun` | an attempt of a `generate_test` job (`test_generation_runner.py`, `test_generation.py`, `repository_inspection.py`, `execution_tracing.py`) | loop variables, accepted and failed questions, `generated_tests` | `StartRun`, `BeginPack`, `PackUnreadable`; `InspectModel` .. `FinishInspection` = the inspector's loop; `AskModel` .. `InvalidEvidence` = `GeneratedTestAgentLoop.run`; `AcceptQuestion`, `RejectDuplicate` = `_generate_question`; `BeginPersist` .. `FinishRun`; `StartBreaks`, `PlanBreaks`, `InspectBreaks`, `ToolBreaks`, `AskBreaks`, `ValidationBreaks`, `EvidenceBreaks`, `RejectBreaks`, `PersistBreaks`, `FinishBreaks` = the same places when one of their writes fails |
| `AnswerJudging` | a submission and an attempt of its `judge_answer` job | answers, the request, judgements, results, learnings | `SubmitAnswer`, `EnqueueJudging`, `SubmissionBreaks` = `submit_answer`; `StartJudging` .. `SaveLearning`, `FinishSaving`, `FinishJudging` = `judge_answer` with `AnswerJudgingLoop.run`, the `*Breaks` and `*Fails` its failing writes, in the try and outside, `Judged` = `apply_answer_judging_policy` |
| `AgentJobs` | the worker that runs either kind of job: `AgentJob`, `GenerationRun` and `AnswerJudging` composed | | `Work` = `dispatch` and the report of what the handler returned or raised |
| `AttentionProfiles` | creating and activating profiles (`attention_profiles.py`) | profiles, active ones, open requests | `OpenCreate`, `OpenActivate` read; `Write`, `WriteFails`, `WriteInactive` flush and commit under the partial unique index |
| `Evidence` | references (`evidence.py`) | | `Available`, `Accepted`, `Verified`, `Enriched` |
| `PackContents` | what a pack holds (`context_pack_builder.py`, `agent/tools/common.py`) | | files and guidance per type, excerpts, their decoding, redaction and budget, `Readable` for the tools |
| `ContextPacks` | builds of packs and the generation jobs that read them, beside an ingestion: `AttentionProfiles` and `PackContents` composed | checkout, snapshot, drift, guidance, pack files and rows, builds | `CheckOut` .. `ReplaceGuidance` = the ingestion; `Start` .. `ReadGuidance`, `ReadExcerpt`, `Truncate`, `Fill`, `InsertRow` = `build_context_packs_for_snapshot`; `ReadPack`, `ReadFile`, `Accept` = the run of a job; `Crash` |
| `PromptBudget` | one request to the model (`prompt_budget.py`, and `_build_request`, `_user_message_with_context` around it) | request; for transcript and projection, how much of each list is kept and the bytes of the whole | `KeepTranscript` .. `EndTranscript` = `compact_tool_observation`; `KeepItem`, `KeepMetadata`, `CloseSection` = the projection's `_try_set` and `_try_append`; `Start`, `MakeRoom`, `Check` = the limits the callers set and check |
| `MC*` | constants for TLC | | |

`JobQueue` is shown to implement `JobLifecycle` (`INSTANCE ... WITH`, `FollowsLifecycle`), by
TLC and by proof. `RepositoryIngestion` uses the queue with claims, leases and retries as single
steps: that is the level of `JobLifecycle`, with the order in which jobs are claimed; `AgentJob` has
one job on that level, whose two attempts may both be at work. `TraceStream` is shown to implement
`EventFeed` (`FollowsFeed`), also by both: its four snapshot reads are loads of one record each, an event that is
delivered and a replayed page are steps of the position, and everything else that happens to a connection is a
stutter. Definitions
whose comment begins "Mutant" are broken variants of the definition they name; no action of a
specification uses them. Substituting one for the definition must break the property it is paired
with in `PROJECT.json`.

### Abstractions

- *Time in the queue.* `run_after <= now` and `lease_expires_at > now` are a flag of the row
  that changes at any moment (`LeaseRunsOut`, `BackoffElapses`), which covers every duration of a
  lease, a retry delay and a job.
- *Time of schedules.* `now()` of a transaction that stores a time is a number taken when it begins;
  transactions commit in any order.
- *Transactions* are the steps between which another process can be seen: the selection that
  locks rows and the commit of `claim_next`; the unlocked read and the update of a
  finalisation; the snapshot, each row lock and the commit of `evaluate_pending`; each insert into
  the event log and its commit. Where a transaction reads and writes under one lock, or once, it
  is one step.
- *Handlers* of the queue return or raise: any outcome, any duration, any order.
- *Events* carry the id of the change they record instead of its content, so that "the trace shows
  the newest state" can be compared.
- *Model, tools, providers and git* may do anything a caller can tell apart: answer, answer off the
  contract, break the parser, fail, be late. Each is a disjunct of the step that asks.
- *A question* is a value, and which pairs the duplicate test takes for one another is a constant;
  a tool call is its canonical signature; a judgement is its score, status and whether it suggests a learning.
- *Agent runs*: only its worker writes a run, so the transactions between two calls of something
  outside are one step, before or after which the worker may die. Each of those transactions may fail
  alone: that is an action of its own (`*Breaks`), which does what the handlers around it do. RUNNING
  stands for PENDING too. `torn` is auxiliary: it records the rows of a trace that an exception left
  missing or unfinished, `RunRow` for the run, and no guard reads it.
- *Files* are a size, and what the first n bytes decode to (`Decoded`, with `errors="replace"`) and redaction then
  adds or takes (`Redacted`) are constants. `DecodeAssumption` bounds the first: no fewer bytes than were cut, up to two more
  in a file of UTF-8 (a character the cut leaves incomplete becomes the three of U+FFFD), up to three for one elsewhere.
- *Scores* are integers of half the last stored digit, so that rounding half to even is exact.
- *Commits* are numbers, and a tree is a value that two commits may share. `History` says which commit descends from
  which, that is, whether `git pull --ff-only` moves a branch, leaves it or fails.

## Runs

| Run | Question | Result | Distinct states |
|---|---|---|---|
| `job_queue` | Two workers with the same `hostname:pid`, two jobs, two attempts, crashes, expiring leases; exactly the code. Do attempt numbers fence workers, does a running row always have a recoverable lease? | holds | 124,576 |
| `job_queue_no_overlap` | The same without a recovery in the window of a finalisation (below). Do stale workers finalize nothing, do ended jobs stay ended, does every job end, does the queue implement `JobLifecycle`? | holds | 64,221 |
| `job_queue_stale` | README.md: "stale workers cannot finalize a reclaimed attempt" | violated | |
| `trace_stream` | Two writers, one client that opens the trace at any time, two-event transactions, pages of one event, broken connections. Is nothing skipped, is a complete trace the final one, is every ended run completed, does it all implement `EventFeed`? | holds | 76,209 |
| `ingestion` | A GitHub repository with a default branch, three commits, one explicit re-ingest, one commit that replaces another and has the files of the first, two faults (crash or failing step) anywhere | holds | 608,949 |
| `ingestion_return` | HEAD returns to an earlier commit: is HEAD still reached? | violated | |
| `ingestion_detached` | GitHub without a default branch, no fault: does every ingestion succeed? | violated | |
| `agent_jobs` | One job of either kind, two attempts that may overlap, crashes, lost leases, every failure of model, tools, evidence, duplicates and of each write of artifact, step and run. Are step numbers unique, is an open step of an ended run one whose own writes failed, are tests and results what the job reports, grades kept; does every job end? | holds | 639,434 |
| `generation_valid` | README.md: "A job succeeds when at least one planned question is valid" | violated | |
| `context_packs` | Builds of packs beside an ingestion that moves the checkout they read, requests that switch the active profile, and another build of the same snapshot. Is what a build leaves whole, what a question is bound to right, what its evidence names of its snapshot? | holds | 686,568 |
| `schedule_trigger` | One schedule, two schedulers, two clients, batches of one, three stored times | holds | 101,456 |
| `prompt_budget` | Requests of the inspector and of the generator whose parts exhaust the limits one after the other. Is a request refused only for what cannot be cut, and can a shown file be cited? | holds | 21,099 |

No run checks a type invariant: types are proved, with the invariants that need them (below). Every
property of a run is about something that could go wrong.

### Bounds

- *Queue*: two workers are needed for a stale and a current owner, two attempts for "not the last"
  and "the last" one, `RecoveryLimit` 1 with two jobs for a recovery that leaves some behind, one
  idempotency key and jobs without one, one type that reports failures and one that `dispatch` does
  not know. Each worker claims different types. The proofs lift all these bounds.
- *Trace*: `PageSize` 1 with three events makes every read stop at a full page; `MaxPerTxn` 2
  lets one transaction take two ids; one client suffices because clients only read.
- *Ingestion*: three commits let HEAD move while an earlier one is being ingested and again before
  the next poll; two moves, one explicit job and two faults are enough for a failure in each
  attempt of one job, or one failure in two. HEAD starts at the first commit, as a registration finds it.
  The third commit is on the first beside the second (`Forked`), so that a pull finds the branch behind,
  at HEAD, or diverged, and has the first one's files (`RevertedTree`), so that a diff is empty.
- *Schedules*: two schedulers are what their locks, snapshots and unique constraint are there for;
  two clients overlap in inserting, enabling and disabling; a batch of one makes a second
  tick necessary; three times are two requests and one event, or two events and one request.

- *Agent jobs*: two attempts are a first and a last one, which overlap when the first has lost its
  lease. The plans are: a job retried while its first attempt goes on; one question with a repair, an
  evidence regeneration and a duplicate; a pack of two questions; an inspection of two turns;
  two packs, the second of which may fail; six questions, which are refused. Of three questions two
  are near-duplicates. Judgements have each grade, one just under its threshold, some with
  the wrong status. Two submissions are an answer nobody judges and one whose job is claimed. Failing writes need no
  bound: one ends its run or its question, of which there are finitely many. `MaxDuplicates` is 1 as in the code, `PriorLimit` reaches back over all tests of two attempts.
  `RoomAssumption` names what the strides leave room for: two duplicate
  attempts, seven repairs and regenerations together, 99,900 calls of an inspection. The code's own
  limits are 1, 1 and 1 (the defaults), and a deadline.
- *Packs*: two commits let the checkout move on once under a build; of four paths one
  is changed, one deleted, one guidance, one unsafe; budgets of a few bytes are exhausted by the second
  excerpt, which is cut within a character, or is no UTF-8, or grows by redaction. Two requests are needed for an overlap, two builds for a shared file. The two do not meet but through the
  profile a build reads, so either two requests run beside one build of two packs, or two
  builds of one pack each (`Loads`).

- *Prompt budget*: the limits are the defaults of the code. Packs of a large and of a small repository, of
  long names and of names of wide characters; instructions from 600 to 7,200 bytes in steps below the size of
  any reference, so that every item is the last that fits in some request; transcripts whose failed or repeated calls
  end within 46 bytes of the limit, one byte after the other.

Bounds that are not in the code: `MaxEvents`, `MaxMoves`, `MaxExplicit`, `MaxFaults`, `MaxClock`,
`Attempts`, `calls` of a plan, `MaxSubmissions`, `MaxCommit`, `MaxBuilds`, `Loads`.
The runs check for deadlock except `trace_stream`, whose system stops when every event is logged
and the client has completed or failed; `agent_jobs` and `generation_valid`, which end with their
job; `context_packs`, which ends with its builds; and `prompt_budget`, which ends with its request.

### Fairness

- *Queue.* Workers keep polling and Kubernetes restarts a process that exits (`k8s/README.md`
  241-245): weak fairness of each step and of `Restart`. `BeginClaim` and `CommitClaim` get
  strong fairness: a process that is restarted for ever must get through one claim some time, or
  nothing would ever use up the attempts. A handler ends: model calls and agent loops have deadlines;
  the git commands of an ingestion have no timeout, that they end is an assumption.
- *Trace.* The browser reconnects, the generator polls as long as it is connected; a connection may
  break any number of times, but not always before the server answered or a sent event arrived
  (strong fairness of `SrvPoll`, `SrvCheck`, `SrvDrain`, `Deliver`). Writers have none: a run need not end.
- *Ingestion.* The scheduler polls for ever, workers keep working; faults are bounded.
- *Schedules.* Schedulers tick and are restarted for ever; crashes from outside end some time,
  whereas a tick that fails at the unique constraint may happen again and again. A
  request that holds the row lock ends.
- *Agent jobs.* Workers poll for jobs and carry on with the one they hold (model calls and loops have
  deadlines), and the lease of a dead worker runs out: weak fairness of `ClaimJob`, of `Work` and of
  `Lapse` for a dead worker. Crashes and other lapses have none. `Work` is fair as a whole and never
  chooses for the model: every loop ends by its own counters.
- *Packs* have none: the run checks safety only.

## What the runs found

1. **A stale worker can finalize** (`job_queue_stale`). `mark_succeeded` and `mark_failed` read the job
   without a lock, validate the lease and then update by primary key. If the lease expires and another
   worker's `claim_next` commits between the read and the update, the stale result
   is written over the running attempt; README.md 220-221 excludes this. `NoOverlap` names the
   assumption that this does not happen. `SELECT ... FOR UPDATE` in `mark_*` would make
   it true. With `NoOverlap = FALSE` the model is the code; the properties of `job_queue` and
   the first three theorems need no such assumption.
2. **A returning HEAD is not ingested again** (`ingestion_return`). The idempotency key of a polled job
   is the pair of commits. When HEAD goes A, B, A, B, the second A-to-B poll finds the succeeded
   job of the first, enqueues nothing, and every later poll does the same.
3. **A detached checkout cannot be pulled** (`ingestion_detached`). A polled ingestion checks out the
   exact commit detached; a repository without `default_branch` is on no branch afterwards, and an
   explicit re-ingest fails at `git pull --ff-only`.
4. **A later pack discards valid questions** (`generation_valid`). Reading and inspecting a pack is
   outside the handler of a single question. When the second pack's artifact is unreadable or its
   inspection fails, the run is FAILED and the questions accepted from the first are not inserted;
   README.md 141-142 promises success.

What the modules say of the code without a document that promises otherwise: a run whose worker died stays RUNNING
for ever (`StepsCloseWithRun` speaks of runs that ended); so does one whose worker lives, when a write outside every try
fails (`StartBreaks`, `PersistBreaks`, `FinishBreaks`, `FinishJudgingBreaks`: the job is then retried, even if the tests or
the result are inserted already), or the mark of a handler does (`EndInFailure`); a tool call, a validation or a check of evidence whose
artifact cannot be written stays RUNNING in a run that ends, since only `execute_model_call` guards that case
(`ToolBreaks`, `ValidationBreaks`, `EvidenceBreaks`), and so does a validation whose parser raises a `TypeError`; a judging
whose persist step cannot be marked is FAILED although result and learning are saved (`SavingBreaks`); an answer whose job was not enqueued is never judged
(`SubmissionBreaks`); activating a profile whose key is below the active one's fails at the
unique index, since the updates go out in the order of keys (`WriteFails`); an excerpt may be of a later commit than the
hash beside it (`ReadExcerpt`); the text of a pack may exceed its budget by what its last excerpt gains when it is decoded and redacted
(`WithinBudget`); a checkout whose remote was rewritten cannot be pulled, and one whose remote went back stays where it is
(`PullFails`, `Pulled`); a retry that overlaps its first attempt may repeat its questions (`RepeatsOnlyByOverlap`).

The code also shows, in `PromptBudget`: references of guidance beyond the first 24 are cut while the
guidance is shown, so it can be read and not cited (`ShownFilesCanBeCited` speaks of files); a repair or a
regeneration, whose message holds the rejected answer and excluded questions, may leave less than 1,000 bytes and is then refused; names of
wide characters can make the part that every projection has larger than the room; and
`compact_tool_observation` opens the lists of duplicates and of calls without measuring again (`OpenNextList`), so failed or repeated
calls that end at the limit leave a transcript up to 42 bytes over the 2,500 of README.md 33-34. The limit of the
whole prompt still holds, since the caller sets aside more. In `RepositoryIngestion`, the score of a commit that changes no
file is the integer 0, which has no `quantize` (`EmptyDiff`): the run `ingestion` meets it, and `HeadIsProcessed` excepts
a commit whose job has failed for good.

That run has the constants that keep it clear of findings 2 and 3: a default branch, and a HEAD that does not return.

## What is proved

`JobQueueProofs` holds for every set of workers and jobs, every `MaxAttempts` and
`RecoveryLimit` above zero, and worker ids that may all be equal (the ASSUMEs of `JobQueue`).

| Theorem | States | Assumes |
|---|---|---|
| `TypeCorrect` | `Spec => []TypeOK` | |
| `AttemptsFence` | `Spec => []FencedAttempts` | |
| `RunningRowsAreLeased` | `Spec => []LockMatchesStatus` | |
| `FinalizersHoldTheirLease` | `Spec => []FinalizerHoldsLease` | `NoOverlap` |
| `WaitingJobsCanBeClaimed` | `Spec => []WaitingIsClaimable` | `NoOverlap` |
| `ResultsAreOfTheLastAttempt` | `Spec => []ResultFromLastAttempt` | `NoOverlap` |
| `ReportsAreFinal` | `Spec => []ReportedFailuresAreFinal` | `NoOverlap` |
| `FinalStatusIsFinal` | `Spec => TerminalIsFinal` | `NoOverlap` |
| `QueueFollowsLifecycle` | `Spec => FollowsLifecycle` | `NoOverlap` |

*The inductive invariant `IInv`.* `FencedAttempts` alone is not inductive: a claim commits an
attempt number computed when its SELECT ran, and nothing in `FencedAttempts` says that the row is still the
same. `LocksMatchClaims` says that a row lock is held exactly for the rows an open claim
selected, so two open claims never share a row; `OpenClaims` that such a row has
not changed since, so the new attempt number exceeds every one handed out; `ClaimsOfJobs`
that a worker past its claim has a job. With `TypeOK`, `FencedAttempts` and `LockMatchesStatus`
they are `IInv`. A write of a stale worker does not disturb it even without `NoOverlap`,
because it leaves `attempt_count` alone and always releases the lease with the status.

*The second invariant `FInv`*, under `NoOverlap`, adds what a finalisation relies on: the row a
worker validated is not locked (`FinalizedRowsFree`), so no recovery or claim can change it and
`FinalizerHoldsLease` is preserved; fencing excludes a second finalizer of the same attempt.
`BackoffOnlyInRetryWait` says that a row not yet due is in `retry_wait`, and
`ReportsFailures` that a worker about to report has seen its ingest job fail for good.

*Refinement.* Under `IInv` and `FInv` every step is, for every job, a life step
(`NextLifeStep`): one of the actions of `JobLifecycle` or none. A claim that takes over a row it
has itself recovered is a `Start` from running.

`AgentJobsProofs` holds for every set of questions and tool calls, every plan within
`RoomAssumption`, and every interleaving of the attempts, of generation and of judging.

| Theorem | States | Assumes |
|---|---|---|
| `SequencesAreUnique` | `Spec => []NoSequenceReused` | `BoundAssumption`, `PlanAssumption`, `RoomAssumption` |

`NoSequenceReused` compares the steps there are with the steps inserted, and says nothing of where
the next number comes from. The invariant `IInv` does: at every place of the loops,
what an attempt has inserted is below the number the next step of that place gets. `Placed` says this for
each place (`AtPack`, `AtInspection`, `AtQuestion`, `AtTurn`), with the
ranges of the counters the number is computed from; `Counted` that each inserted step is there once;
`PlanKnown` that the plan is one of `Plans`; `Shapes` that the records keep their fields. The
arithmetic is in six lemmas (`InspectionOrder`, `CallOrder`, `TurnOrder`, `NextTurn`, `AttemptOrder`,
`PackOrder`): the range of a turn lies below that of the next, of an attempt at a question below the next
attempt, of a question below the next question, of a pack below the next pack. `WriteGrows` and `Moves`
carry a step that inserts a number above all others; then there is one lemma for each action.
`ValidPlan`, which the service checks before there is a run, is part of it: a pack without the bound of five
questions would run into the numbers of the next pack.

`AgentRunProofs` continues over that `IInv`, under the same assumptions.

| Theorem | States | Assumes besides |
|---|---|---|
| `TracesClose` | `Spec => []StepsCloseWithRun` | |
| `CallsAreRecordedOnce` | `Spec => []EachCallOnce` | `SignatureAssumption` |
| `TestsAccountForPlan` | `Spec => []TestsMatchRun` | `QuestionAssumption` |
| `RetriesRepeatByOverlap` | `Spec => []RepeatsOnlyByOverlap` | `EnoughPrior` |
| `GradesAreAligned` | `Spec => []GradesHold` | `SubmissionAssumption`, `JudgementAssumption` |
| `ReportsAreStored` | `Spec => []ReportIsStored` | the same |
| `LostLearningsShow` | `Spec => []LostLearningFailsRun` | the same |

- *Open steps (`OInv`).* Which steps may be open depends on where the attempt is (`OpenAt`): at most
  the step of the whole run, those in hand, and those in `torn`. Every failing action is one of two kinds, `Breaking`, which
  ends the run (`BreakingEnds`), and `Failing`, which ends the question (`FailingGoes`); what they leave open they put into `torn`.
- *Calls (`CInv`).* The signatures of the recorded calls of an inspection are exactly those it has
  seen, and there are as many steps as signatures.
- *Tests (`AInv`).* `Settled`, the accepted and failed questions, equals at every place of the loop the number of questions
  planned up to there; so at the end it is the number requested. Counting them needs no induction over the plan: a
  question is a pair of pack and place, and going to the next one adds a pair to a finite set.
- *Repeats (`RInv`).* An attempt has read all the tests there were when it began, and accepts nothing near them.
  `EnoughPrior` says that the list of prior questions reaches back at least 15: the code asks
  for 50 (`test_generation_runner.py` 662) and an attempt has at most 15 questions. In the model no other
  job adds tests in between.
- *Judging (`JInv`).* Each stored result is what the verdict of its attempt makes of the answer, and the run of that attempt
  says whether the learning was lost, or the persist step torn, if it is FAILED (`ResultInv`); a learning is saved
  at most once; an attempt has a result exactly from its insertion on
  (`AttemptInv`). `Rounding` shows, for all scores, what rounding half to even does at a threshold.

`TraceStreamProofs` holds for every set of writers, page size, number of events, and events per transaction.

| Theorem | States |
|---|---|
| `IdsAreVisibleInOrder` | `Spec => []IdsFollowVisibility` |
| `ClientSkipsNothing` | `Spec => []NothingSkipped` |
| `StreamsSendAll` | `Spec => []StreamEndsAfterLastEvent` |
| `CompleteTracesAreFinal` | `Spec => []CompleteIsFinal` |
| `ClientFollowsFeed` | `Spec => FollowsFeed` |

`IInv` has a part for each actor. `LogInv`: whoever holds the cursor row has the next ids without a gap.
`TraceInv`: a record has the id of the last event that changed it. `ClientInv`: what is shown of a record
covers the events up to the client's cursor, and is final if the snapshot saw the end. `StreamInv`: what the server
has passed and the client not received is in transit. `ReplayInv`: a page that arrives late
has every event between the client's cursor and its own end, and nothing new for a trace that is complete.

*Refinement.* `NothingSkipped` would allow a client that applies an event twice, or out of order as long as a later one
repairs it. `ClientFollowsFeed` excludes that, from the same `IInv`. A commit of the run publishes its one event
(`CommitPublishes`), behind all there are by `LogInv`. The last snapshot read may complete the trace, because what was read
before it is still final (`SnapshotLoads`). What `Fresh` leaves of a delivered event or of a page is exactly what lies between
the old position and the new one (`ApplyFollows`): `StreamInv` and `ReplayInv` say that there is no gap before it, and the comparison
with `lastEventIdRef` drops what was passed already.

`ScheduleTriggerProofs` holds for any repositories, schedulers, clients, score ranges and batch size.

| Theorem | States |
|---|---|
| `TypeCorrect` | `Spec => []TypeOK` |
| `IdleTimesAreNotReplayed` | `Spec => []NothingReplayed` |
| `MatchesTriggerOnce` | `Spec => []OneTriggerPerMatch` |
| `EvaluationsAreInForce` | `Spec => EvaluatedInForce` |

The reason is the row lock: what a scheduler has in its batch stays eligible under the schedule it has locked (`TickInv`), and
a request past its lock holds it (`RequestInv`). `IdleInv` says that no schedule, stored or requested, covers an event
of a time when the schedule was off: the request stores the start of its own transaction.

`RepositoryIngestionProofs` holds for any commits, bounds and attempts.

| Theorem | States | Assumes |
|---|---|---|
| `OnePolledAtATime` | `Spec => []OnePolledIngestion` | |
| `PolledCommitIsIngested` | `Spec => []ExactCommitIngested` | |
| `IndexedRowsAreConsistent` | `Spec => []IndexedIsConsistent` | `OneWorker` |
| `DriftIsRecordedFirst` | `Spec => DriftBeforeAdvance` | `OneWorker` |

`IInv` says that attempts have running jobs of their own (`WorkInv`), that from its check to its
enqueue a poll is the only source of polled jobs (`PollInv`), and that an attempt past the check of its commit works on the
commit asked for (`CommitInv`). The last two theorems are false of two workers, which `k8s/README.md`
245-249 excludes (one replica, `Recreate`): `SoloInv` relates the row, the drift and the guidance to where the
single attempt is.

`ContextPacksProofs` holds for every finite set of stored profiles and set of requests, every number of builds and commits,
any files, sizes and limits.

| Theorem | States | Assumes |
|---|---|---|
| `OneProfileActive` | `Spec => []OneActiveProfile` | `LoadAssumption` |
| `LastBuildsAreWhole` | `Spec => []LastBuildIsWhole` | `LoadAssumption`, `PackAssumption`, `ContentsAssumption` |
| `QuestionsAreBound` | `Spec => []BoundToJob` | the same |
| `PacksFitBudget` | `Spec => []WithinBudget` | the same, `DecodeAssumption` |
| `EvidenceStaysOfSnapshot` | `Spec => []EvidenceIsOfSnapshot` | the same |

`OneActiveProfile` does not say why the set of active profiles, once not empty, stays so: a request
that finds its own profile among the active ones writes nothing, relying on what it read. The invariant
`IInv` adds that as long as none is active no request has seen or made one, so a request that saw one
finds the set not empty, and every other write leaves exactly its own profile (`WriteIInv`). The index is
in it as "any two active profiles are equal". `OthersFrame` shows that builds and ingestions
never write a profile, so the steps of the requests are all there is to consider.

*The invariant of the builds, `BuildInv`.* Builds share nothing but the pack files, which are named by snapshot and type.
`OrderOf` says that a build that started earlier was met or is over, so whoever writes to a file
of a build that is alive is one of its `Rivals` (`WriterIsRival`). `FilesOf` says that what is in a file a build has opened is
its own or of a rival, known by its drift; `WholeOf` that without rivals it is exactly what the
build wrote; `RowsOf` that its rows are those it has recorded; `StageOf` what each phase says of the counters. Rivals only become more, and
keep snapshot and drift even when they die (`RivalsGrow`), so what holds of the other builds survives a step of one
(`OthersKeep`); the steps of a build itself take one lemma each. For the evidence, `OffersAreSound`
shows that every offer of code in a pack has the hash of the pack's snapshot, and
`EvidenceIsSound` that the first offer and the first hash of a source, which `Available` takes,
therefore do. They rest on `KeptMembers`: what is kept of a list by a filter are its members.

`PromptBudgetProofs` holds for requests with packs and transcripts of any size, paths of any length, and all limits the
code accepts.

| Theorem | States | Assumes |
|---|---|---|
| `CutsSuffice` | `Spec => []RefusedOnlyForFixedParts` | `LimitAssumption`, `RequestAssumption` |
| `CitationsSuffice` | `Spec => []ShownFilesCanBeCited` | the same |

`LimitAssumption` is what the constructors of the inspector and of the generator require (4,000 and 500 bytes).
`RequestAssumption` says that a file has at least a status or other metadata of 13 bytes beside its path (the drift packs list
`status`, the others `size_bytes` and more), and a transcript that was not compacted at least its counters.

- *The transcript (`TranscriptInv`).* It stays within its limit but for the brackets that `OpenNextList` adds
  unmeasured: 26 bytes, then 42. The 1,200 bytes the inspector reserves are the 1,000 of the projection, the 43 of the two prefixes,
  and these 42, with 115 to spare: so `MakeRoom` never refuses a request of the inspector (`MakeRoomIInv`).
- *The projection (`ProjectionInv`).* Whatever was added fitted, so it exceeds its room only if the part it began with
  did; and the second measurement of `Check` is the first one, since the room is what the surroundings leave.
- *The citations (`CitationInv`).* References and files are cut independently, so that a shown file has its reference needs
  an argument about bytes. When the references end before that of some file, that reference did not fit (`CutReference`: their own
  limit of 24 lies beyond the 10 files that are shown). Later a file could only fit if it were shorter than the
  reference that did not, which it is by at most 19 bytes; but whenever something can be cited, what was
  kept in between, a transcript of 175 bytes or a file of 24, has taken more than that (`Taken`, `KeepStep`).
  With neither a reference nor a transcript nothing restricts citing.

*Only model-checked:* liveness (`EveryJobFinishes`, `FinishedRunCompletes`, `HeadIsProcessed`,
`CoveredIsEvaluated`, `RunsEnd`), which TLAPS cannot prove under fairness. Every safety property, action property and
refinement of a passing run is stated by a theorem.

## Not modelled

- *Parsing, hashing, tree-sitter, file walking, HTTP clients, request validation, migrations, logging,
  manifests*: data and I/O without protocol state. Their failures appear as failing steps.
- *Listing routes and the rest of the frontend*: they read, or edit single records.
- *A clone killed half-way and stale git lock files*: effects of the file system.
- *Two ingestion workers on one checkout*: the deployment excludes them (`k8s/README.md` 245-248);
  the constant `Worker` of `RepositoryIngestion` allows them, and with two `IndexedIsConsistent`
  does not hold.
- *The browser giving up* after an HTTP error answer to a reconnect.
- *Drift weights and output limits of the tools*: arithmetic on texts that no state depends on. `PromptBudget` has
  the bytes of a request apart from the run that sends it: in `GenerationRun` that a prompt finds no room
  is a failure of the call.
- *The field rules of the payload contracts, prompts and their wording*: a payload is on the contract,
  off it, or breaks the parser.
- *Duplicate drift events of a retried ingestion* and the second generation job they may trigger:
  `RepositoryIngestion` keeps drift events as a set.
- *The deadlock between event cursor and job row* that Postgres resolves by aborting one
  transaction: `JobQueue` and `TraceStream` are separate.

## Plan

Done: every module above, and a theorem for every property of a passing run but liveness. What would be
added next, in this order:

1. `RepositoryIngestion` composed with `ScheduleTrigger`, for the duplicate drift events of a retried
   ingestion and the jobs they trigger.
2. `JobQueue` composed with the event log, for the order in which a claim and an append take their row locks.
3. `RepositoryIngestion` on the level of `JobQueue` instead of `JobLifecycle`, so that the stale worker of
   finding 1 is one of its workers.

Modules to be proved about avoid RECURSIVE operators and the folds over sequences they reach: `Kept` of
`PackContents` counts places instead, and `PromptBudget` keeps the bytes of what it builds in variables, each step adding what
it costs, so that no list is ever summed. A changed record is written in full where the
provers cannot see through a nested EXCEPT.

## Running

`tlc -config JobQueue.cfg MCJobQueue.tla` and likewise for each `.cfg` (`JobQueue*` with
`MCJobQueue`, `Ingestion*` with `MCRepositoryIngestion`, `AgentJobs` and `GenerationValid` with
`MCAgentJobs`, the others with the MC module of their
name); `tlapm` on each `*Proofs.tla` (minutes each; `AgentRunProofs` checks its own
steps only, not those of `AgentJobsProofs`). `PROJECT.json` lists every run with its properties, the
variant that violates each property, the source lines of each definition, and the hazards of the
code with the properties that cover them.
