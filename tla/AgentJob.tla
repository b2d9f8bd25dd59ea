------------------------------ MODULE AgentJob ------------------------------
(* What the two jobs with an agent run share, generate_test and judge_answer: *)
(* the row of the queue as its attempts see it, the process of each attempt,  *)
(* and the agent run and steps the attempt records.  JobQueue has the whole   *)
(* of the queue; here a lease is lost at any time.                            *)
(*                                                                            *)
(* A worker alone writes its run, so the transactions between two outside     *)
(* calls are one step; a crash may fall between any two steps.  Each of these *)
(* transactions may fail on its own, though, and raise: "torn" keeps the rows *)
(* that this leaves missing or unfinished, for the properties to refer to.    *)
(* The status RUNNING stands for PENDING too: a row that is not finished.     *)
EXTENDS Integers, FiniteSets

VARIABLES
    job,        \* the row of the job: type, status, attempt, payload, result
    phase,      \* where the worker of each attempt is
    run,        \* the status of each attempt's agent run
    steps,      \* each attempt's agent_steps: sequence -> kind and status
    created,    \* how many steps each attempt has inserted
    torn        \* the rows of each attempt's trace an exception left unwritten

jobVars == <<job, phase, run, steps, created, torn>>

\* Bound: the attempts of a job.
Attempts == 1..2
Final == {"SUCCEEDED", "FAILED"}

-----------------------------------------------------------------------------
(* The step table: (agent_run_id, sequence) is unique.                       *)

Step(kind, status) == [kind |-> kind, status |-> status]
One(seq, step) == [s \in {seq} |-> step]
NoSteps == [s \in {} |-> Step("none", "none")]
Over(new, old) ==
    [s \in DOMAIN new \union DOMAIN old |-> IF s \in DOMAIN new THEN new[s] ELSE old[s]]

\* An attempt inserts the steps of "new" and finishes those of "updated".
Write(a, new, updated) ==
    /\ steps' = [steps EXCEPT ![a] = Over(new, Over(updated, @))]
    /\ created' = [created EXCEPT ![a] = @ + Cardinality(DOMAIN new)]

Mark(a, seq, status) == One(seq, Step(steps[a][seq].kind, status))

\* A step whose own writes fail (its row, its artifacts, or the mark that
\* finishes it) is not there, or stays open.
Torn(seq, kind) == {NoSteps, One(seq, Step(kind, "RUNNING"))}

\* The row of the run among those of its steps.
RunRow == 0

Tear(a, rows) == torn' = [torn EXCEPT ![a] = @ \union rows]

-----------------------------------------------------------------------------
(* The job and its attempts.                                                 *)

JobInit(type, status, max, payload) ==
    /\ job = [type |-> type, status |-> status, attempt |-> 0, max |-> max,
              payload |-> payload, result |-> << >>]
    /\ phase = [a \in Attempts |-> "idle"]
    /\ run = [a \in Attempts |-> "none"]
    /\ steps = [a \in Attempts |-> NoSteps]
    /\ created = [a \in Attempts |-> 0]
    /\ torn = [a \in Attempts |-> {}]

Go(a, next) == phase' = [phase EXCEPT ![a] = next]

\* A worker claims the job.
Claim(a) ==
    /\ job.status = "QUEUED" /\ phase[a] = "idle"
    /\ a = job.attempt + 1 /\ a <= job.max
    /\ job' = [job EXCEPT !.status = "RUNNING", !.attempt = a]
    /\ Go(a, "start")
    /\ UNCHANGED <<run, steps, created, torn>>

Requeued == IF job.attempt < job.max THEN "QUEUED" ELSE "FAILED"

\* The lease of the claim runs out, its worker dead or still at work.
LeaseExpires ==
    /\ job.status = "RUNNING"
    /\ job' = [job EXCEPT !.status = Requeued]
    /\ UNCHANGED <<phase, run, steps, created, torn>>

Busy(a) == phase[a] \notin {"idle", "done", "dead"}

\* The process of a worker dies; what it has written stays.
Crash(a) ==
    /\ Busy(a)
    /\ Go(a, "dead")
    /\ UNCHANGED <<job, run, steps, created, torn>>

\* The service refuses the job before there is a run.
RefuseJob(a) ==
    /\ phase[a] = "start"
    /\ Go(a, "raised")
    /\ UNCHANGED <<job, run, steps, created, torn>>

Owns(a) == job.status = "RUNNING" /\ job.attempt = a

\* The worker hands the result in; without the lease, for nothing.
ReportSuccess(a, result) ==
    /\ phase[a] = "report"
    /\ Go(a, "done")
    /\ \/ Owns(a) /\ job' = [job EXCEPT !.status = "SUCCEEDED", !.result = result]
       \/ ~Owns(a) /\ UNCHANGED job
    /\ UNCHANGED <<run, steps, created, torn>>

\* Mutant: the worker keeps the exception to itself.
ReportFailureNot(a) ==
    /\ phase[a] = "raised"
    /\ Go(a, "done")
    /\ UNCHANGED <<job, run, steps, created, torn>>

\* The worker reports the exception: another attempt, or the end of the job.
ReportFailure(a) ==
    /\ phase[a] = "raised"
    /\ Go(a, "done")
    /\ \/ Owns(a) /\ job' = [job EXCEPT !.status = Requeued]
       \/ ~Owns(a) /\ UNCHANGED job
    /\ UNCHANGED <<run, steps, created, torn>>

\* The exception goes up to the worker.
Raise(a) == Go(a, "raised") /\ UNCHANGED job

\* A handler marks the steps of "closing" and then the run FAILED; either mark
\* may fail, and then the run stays as it is.
EndInFailure(a, new, updated, closing, rows) ==
    \E lost \in {{}, {RunRow}, {RunRow} \union DOMAIN closing} :
        /\ Write(a, new, Over(updated, [s \in DOMAIN closing \ lost |-> closing[s]]))
        /\ run' = [run EXCEPT ![a] = IF lost = {} THEN "FAILED" ELSE "RUNNING"]
        /\ Tear(a, rows \union lost)
        /\ Raise(a)

\* A write outside every handler fails: the run stays as it is.
LeaveRunning(a, new, updated, rows) ==
    /\ Write(a, new, updated)
    /\ run' = [run EXCEPT ![a] = "RUNNING"]
    /\ Tear(a, {RunRow} \union rows)
    /\ Raise(a)

-----------------------------------------------------------------------------
(* Properties of both jobs.                                                  *)

\* No two steps of a run have the same sequence number, whatever packs,
\* questions, duplicate attempts, turns and tool calls the run goes through:
\* the unique constraint of agent_steps never fails a run.
NoSequenceReused ==
    \A a \in Attempts : Cardinality(DOMAIN steps[a]) = created[a]
=============================================================================
