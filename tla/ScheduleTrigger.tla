--------------------------- MODULE ScheduleTrigger ---------------------------
(***************************************************************************)
(* Drift-triggered generation: the schedule of a repository                *)
(* (db/repos/repository_schedules.py, upsert), the drift events that       *)
(* ingestion records, and the scheduler processes that evaluate each event *)
(* once and enqueue a generation job for those in the score range          *)
(* (evaluate_pending, called from services/scheduler.py, tick).            *)
(*                                                                         *)
(* now() is the start of a transaction, not its commit, so every           *)
(* transaction that stores a time takes it from `clock' when it begins.    *)
(* The transactions are READ COMMITTED: the candidates of evaluate_pending *)
(* are those of the snapshot its SELECT begins with; the row lock it then  *)
(* takes re-checks the conditions on the locked schedule row, but not the  *)
(* NOT EXISTS on the evaluations, which stays with the snapshot.           *)
(***************************************************************************)
EXTENDS Naturals, FiniteSets

CONSTANTS
  Repository,
  Scheduler,    \* scheduler processes
  Client,       \* requests that update a schedule
  Score,        \* drift scores
  ScoreRange,        \* drift_min_score and drift_max_score of a schedule
  NoMax,        \* NULL drift_max_score
  BatchSize,    \* OOH_SCHEDULER_BATCH_SIZE
  MaxClock,     \* bound: transactions that store a time
  NoOne

ASSUME ScoreAssumption == Score \subseteq Nat /\ NoMax \notin Nat
ASSUME RangeAssumption == ScoreRange \subseteq [min : Score, max : Score \cup {NoMax}]
ASSUME BatchAssumption == BatchSize \in Nat \ {0} /\ MaxClock \in Nat
ASSUME OwnerAssumption == Scheduler \cap Client = {} /\ NoOne \notin Scheduler \cup Client

VARIABLES
  clock,
  schedule,     \* the repository_schedules rows; since = 0: there is none
  lock,         \* who holds the schedule row FOR UPDATE, or is inserting it
  arriving,     \* drift events of transactions that have not committed
  events,       \* the drift_events rows
  request,      \* the upsert each client has under way
  tick,         \* the evaluate_pending each scheduler has under way
  evaluations,  \* the drift_trigger_evaluations rows
  jobs,         \* the events whose idempotency key a generation job has
  idle          \* history: events recorded while the schedule was off

scheduleVars == <<schedule, request>>
eventVars    == <<arriving, events, idle>>
triggerVars  == <<tick, evaluations, jobs>>
vars         == <<clock, lock, scheduleVars, eventVars, triggerVars>>

-----------------------------------------------------------------------------
Time == 0 .. MaxClock

Schedule == [enabled : BOOLEAN, range : ScoreRange, since : Time]

\* from_commit_sha is NULL exactly for the baseline.
Event == [repo : Repository, at : 1 .. MaxClock, score : Score, baseline : BOOLEAN]

Evaluation == [event : Event, range : ScoreRange, matched : BOOLEAN]

NoRequest == [stage |-> "none"]
NoTick    == [stage |-> "idle", pending |-> {}, batch |-> {}]
DownTick  == [stage |-> "down", pending |-> {}, batch |-> {}]

Exists(s) == s.since > 0

\* The conditions on the two joined rows.
Eligible(s, e) ==
  /\ Exists(s) /\ s.enabled
  /\ e.at >= s.since
  /\ ~e.baseline

\* score_matches.
Matches(score, range) ==
  score >= range.min /\ (range.max = NoMax \/ score <= range.max)

Evaluated == {v.event : v \in evaluations}

\* Mutant of Candidates: events that have an evaluation are not left out.
CandidatesAll == {e \in events : Eligible(schedule[e.repo], e)}

\* The rows of the SELECT of evaluate_pending.
Candidates ==
  {e \in events : Eligible(schedule[e.repo], e) /\ e \notin Evaluated}

-----------------------------------------------------------------------------
Init ==
  /\ clock = 0
  /\ \E range \in ScoreRange :
       schedule = [r \in Repository |-> [enabled |-> FALSE, range |-> range, since |-> 0]]
  /\ lock = [r \in Repository |-> NoOne]
  /\ arriving = {} /\ events = {} /\ idle = {}
  /\ request = [c \in Client |-> NoRequest]
  /\ tick = [s \in Scheduler |-> NoTick]
  /\ evaluations = {} /\ jobs = {}

\* The start of a transaction whose now() is stored.
TakeTime == clock < MaxClock /\ clock' = clock + 1

Release(o) == lock' = [r \in Repository |-> IF lock[r] = o THEN NoOne ELSE lock[r]]

-----------------------------------------------------------------------------
(* Drift events: drift_event_repo.create.                                  *)

\* A schedule is off while it is not enabled and no request is enabling it.
Off(r) ==
  /\ ~(Exists(schedule[r]) /\ schedule[r].enabled)
  /\ \A c \in Client : request[c] # NoRequest => request[c].repo # r

BeginDrift(r, score, baseline) ==
  LET e == [repo |-> r, at |-> clock + 1, score |-> score, baseline |-> baseline]
  IN  /\ TakeTime
      /\ arriving' = arriving \cup {e}
      /\ idle' = IF Off(r) THEN idle \cup {e} ELSE idle
      /\ UNCHANGED <<lock, scheduleVars, events, triggerVars>>

CommitDrift(e) ==
  /\ arriving' = arriving \ {e}
  /\ events' = events \cup {e}
  /\ UNCHANGED <<clock, lock, scheduleVars, idle, triggerVars>>

-----------------------------------------------------------------------------
(* RepositoryScheduleRepo.upsert.                                          *)

\* SELECT ... FOR UPDATE: it finds no row to wait for, or waits for its lock.
BeginUpsert(c, r, enabled, range) ==
  /\ request[c] = NoRequest
  /\ TakeTime
  /\ request' = [request EXCEPT ![c] =
       [stage |-> IF Exists(schedule[r]) THEN "select" ELSE "insert", repo |-> r,
        enabled |-> enabled, range |-> range, at |-> clock + 1]]
  /\ UNCHANGED <<lock, schedule, eventVars, triggerVars>>

\* The row is locked, or inserted: uq_repository_schedules_repository lets the
\* second of two first requests fail once the first has committed.
LockSchedule(c) ==
  LET q == request[c]
  IN  /\ q.stage \in {"select", "insert"}
      /\ lock[q.repo] = NoOne
      /\ IF q.stage = "insert" /\ Exists(schedule[q.repo])
         THEN request' = [request EXCEPT ![c] = NoRequest] /\ UNCHANGED lock
         ELSE /\ request' = [request EXCEPT ![c].stage = "locked"]
              /\ lock' = [lock EXCEPT ![q.repo] = c]
      /\ UNCHANGED <<clock, schedule, eventVars, triggerVars>>

\* Mutant of Upserted: enabling a schedule keeps its active_since.
UpsertedInPlace(s, q) ==
  [enabled |-> q.enabled, range |-> q.range,
   since |-> IF Exists(s) THEN s.since ELSE q.at]

\* The row: active_since moves when a disabled schedule is enabled.
Upserted(s, q) ==
  [enabled |-> q.enabled, range |-> q.range,
   since |-> IF Exists(s) /\ (s.enabled \/ ~q.enabled) THEN s.since ELSE q.at]

CommitUpsert(c) ==
  LET q == request[c]
  IN  /\ q.stage = "locked"
      /\ schedule' = [schedule EXCEPT ![q.repo] = Upserted(@, q)]
      /\ request' = [request EXCEPT ![c] = NoRequest]
      /\ Release(c)
      /\ UNCHANGED <<clock, eventVars, triggerVars>>

UpsertFails(c) ==
  /\ request[c] # NoRequest
  /\ request' = [request EXCEPT ![c] = NoRequest]
  /\ Release(c)
  /\ UNCHANGED <<clock, schedule, eventVars, triggerVars>>

-----------------------------------------------------------------------------
(* RepositoryScheduleRepo.evaluate_pending.                                *)

BeginTick(s) ==
  /\ tick[s].stage = "idle"
  /\ Candidates # {}
  /\ tick' = [tick EXCEPT ![s] = [stage |-> "scan", pending |-> Candidates, batch |-> {}]]
  /\ UNCHANGED <<clock, lock, scheduleVars, eventVars, evaluations, jobs>>

Scanned(s) == tick[s].pending = {} \/ Cardinality(tick[s].batch) = BatchSize

\* Mutants of LockRow: the schedule row is not locked, and a batch of any size.
LockRowNot(s) ==
  /\ tick[s].stage = "scan" /\ ~Scanned(s)
  /\ \E e \in tick[s].pending :
       /\ \A f \in tick[s].pending : e.at <= f.at
       /\ LET row == schedule[e.repo]
          IN  tick' = [tick EXCEPT
                ![s].pending = @ \ {e},
                ![s].batch = @ \cup {[event |-> e, range |-> row.range,
                                      matched |-> Matches(e.score, row.range)]}]
  /\ UNCHANGED <<clock, lock, scheduleVars, eventVars, evaluations, jobs>>

\* FOR UPDATE OF the schedule SKIP LOCKED, row by row in the order of created_at.
LockRow(s) ==
  /\ tick[s].stage = "scan" /\ ~Scanned(s)
  /\ \E e \in tick[s].pending :
       /\ \A f \in tick[s].pending : e.at <= f.at
       /\ LET row   == schedule[e.repo]
              owned == lock[e.repo] \in {NoOne, s}
              found == [event |-> e, range |-> row.range,
                        matched |-> Matches(e.score, row.range)]
          IN  /\ lock' = IF owned THEN [lock EXCEPT ![e.repo] = s] ELSE lock
              /\ tick' = [tick EXCEPT
                   ![s].pending = @ \ {e},
                   ![s].batch = IF owned /\ Eligible(row, e) THEN @ \cup {found} ELSE @]
  /\ UNCHANGED <<clock, scheduleVars, eventVars, evaluations, jobs>>

\* The unique constraint on schedule and event.
Conflict(s) ==
  /\ tick[s].stage = "scan" /\ Scanned(s)
  /\ \E v \in tick[s].batch : v.event \in Evaluated

Triggered(s) == {v.event : v \in {u \in tick[s].batch : u.matched}}

\* Mutant of Evaluate: the job of a match is enqueued in a session of its own.
EvaluateApart(s) ==
  /\ tick[s].stage = "scan" /\ Scanned(s) /\ ~Conflict(s)
  /\ IF Triggered(s) \subseteq jobs
     THEN /\ evaluations' = evaluations \cup tick[s].batch
          /\ tick' = [tick EXCEPT ![s] = NoTick]
          /\ Release(s) /\ UNCHANGED jobs
     ELSE jobs' = jobs \cup Triggered(s) /\ UNCHANGED <<evaluations, tick, lock>>
  /\ UNCHANGED <<clock, scheduleVars, eventVars>>

\* The loop over the batch and the commit.  enqueue_job returns the job that has
\* the key already, if there is one.
Evaluate(s) ==
  /\ tick[s].stage = "scan" /\ Scanned(s) /\ ~Conflict(s)
  /\ evaluations' = evaluations \cup tick[s].batch
  /\ jobs' = jobs \cup Triggered(s)
  /\ tick' = [tick EXCEPT ![s] = NoTick]
  /\ Release(s)
  /\ UNCHANGED <<clock, scheduleVars, eventVars>>

\* An evaluation that exists already: the insert fails, the whole batch rolls
\* back, and the exception leaves tick and ends the process.
EvaluateConflicts(s) ==
  /\ Conflict(s)
  /\ tick' = [tick EXCEPT ![s] = DownTick]
  /\ Release(s)
  /\ UNCHANGED <<clock, scheduleVars, eventVars, evaluations, jobs>>

\* The process dies from the outside (with a conflict it dies anyway).
CrashScheduler(s) ==
  /\ tick[s].stage # "down" /\ ~Conflict(s)
  /\ tick' = [tick EXCEPT ![s] = DownTick]
  /\ Release(s)
  /\ UNCHANGED <<clock, scheduleVars, eventVars, evaluations, jobs>>

RestartScheduler(s) ==
  /\ tick[s].stage = "down"
  /\ tick' = [tick EXCEPT ![s] = NoTick]
  /\ UNCHANGED <<clock, lock, scheduleVars, eventVars, evaluations, jobs>>

-----------------------------------------------------------------------------
SchedulerStep(s) ==
  \/ BeginTick(s) \/ LockRow(s) \/ Evaluate(s) \/ EvaluateConflicts(s)
  \/ RestartScheduler(s)

Next ==
  \/ \E r \in Repository, score \in Score, baseline \in BOOLEAN : BeginDrift(r, score, baseline)
  \/ \E e \in arriving : CommitDrift(e)
  \/ \E c \in Client :
       \/ \E r \in Repository, enabled \in BOOLEAN, range \in ScoreRange :
            BeginUpsert(c, r, enabled, range)
       \/ LockSchedule(c) \/ CommitUpsert(c) \/ UpsertFails(c)
  \/ \E s \in Scheduler : SchedulerStep(s) \/ CrashScheduler(s)

Spec == Init /\ [][Next]_vars

\* A scheduler ticks for ever and is restarted when it dies; that it dies from
\* the outside ends some time.  A request that holds the row ends.
FairSpec ==
  /\ Spec
  /\ <>[][\A s \in Scheduler : ~CrashScheduler(s)]_vars
  /\ \A c \in Client : WF_vars(CommitUpsert(c))
  /\ \A s \in Scheduler : WF_vars(SchedulerStep(s))

-----------------------------------------------------------------------------
TypeOK ==
  /\ clock \in Time
  /\ schedule \in [Repository -> Schedule]
  /\ lock \in [Repository -> Scheduler \cup Client \cup {NoOne}]
  /\ {arriving, events, idle, jobs} \subseteq SUBSET Event
  /\ \A c \in Client : request[c] = NoRequest
       \/ request[c] \in [stage : {"select", "insert", "locked"}, repo : Repository,
                          enabled : BOOLEAN, range : ScoreRange, at : 1 .. MaxClock]
  /\ \A s \in Scheduler :
       /\ tick[s].stage \in {"idle", "scan", "down"}
       /\ tick[s].pending \subseteq Event
       /\ tick[s].batch \subseteq Evaluation
       /\ Cardinality(tick[s].batch) <= BatchSize
  /\ evaluations \subseteq Evaluation

\* README.md: "Enabling a schedule starts from that moment and does not replay
\* older drift events".  No event recorded while the schedule was off is ever
\* evaluated, whichever requests and schedulers overlap.
NothingReplayed == Evaluated \cap idle = {}

\* An event is evaluated once, with a job exactly if it matched, although a
\* scheduler may evaluate from a snapshot that another one has overtaken.
OneTriggerPerMatch ==
  /\ \A u, v \in evaluations : u.event = v.event => u = v
  /\ jobs = {v.event : v \in {u \in evaluations : u.matched}}

\* An evaluation is made under the schedule that is in force when it commits:
\* enabled, active since before the event, and with the recorded score range.
EvaluatedInForce ==
  [][\A v \in evaluations' \ evaluations :
       LET s == schedule[v.event.repo]
       IN  Eligible(s, v.event) /\ v.range = s.range]_vars

\* README.md: the scheduler "records every drift evaluation".  A visible event
\* that an enabled schedule covers is evaluated unless the schedule is switched
\* off or restarted first, whatever batches fail.
CoveredIsEvaluated ==
  \A r \in Repository, t \in 1 .. MaxClock :
    (\E e \in events : e.repo = r /\ e.at = t /\ Eligible(schedule[r], e))
      ~> \/ \E e \in Evaluated : e.at = t
         \/ ~schedule[r].enabled \/ schedule[r].since > t
=============================================================================
