----------------------------- MODULE AgentJobs -----------------------------
(* The worker of agent jobs: JobRunner takes either kind from one queue and   *)
(* dispatches on the type of the job.  A behaviour is the life of one job.    *)
EXTENDS GenerationRun, AnswerJudging

vars == <<jobVars, genVars, judgeVars>>

Init ==
    \/ GenInit /\ NoJudging
    \/ JudgeInit /\ NoGeneration

\* The API takes an answer.
Submit ==
    /\ SubmitAnswer \/ EnqueueJudging \/ SubmissionBreaks
    /\ UNCHANGED genVars

ClaimJob(a) == Claim(a) /\ UNCHANGED <<genVars, judgeVars>>

\* dispatch, and what becomes of its result.
Work(a) ==
    \/ (RefuseJob(a) \/ ReportFailure(a)) /\ UNCHANGED <<genVars, judgeVars>>
    \/ /\ job.type = "generate_test" /\ UNCHANGED judgeVars
       /\ GenStep(a) \/ (ReportSuccess(a, GenResult(a)) /\ UNCHANGED genVars)
    \/ /\ job.type = "judge_answer" /\ UNCHANGED genVars
       /\ JudgeStep(a) \/ (ReportSuccess(a, JudgeResult(a)) /\ UNCHANGED judgeVars)

Lapse == LeaseExpires /\ UNCHANGED <<genVars, judgeVars>>
Die(a) == Crash(a) /\ UNCHANGED <<genVars, judgeVars>>

Next ==
    \/ Submit
    \/ \E a \in Attempts : ClaimJob(a) \/ Work(a) \/ Die(a)
    \/ Lapse

\* Workers poll for jobs and carry on with the one they hold; a lease whose
\* worker is dead runs out in the end.
Fairness ==
    /\ \A a \in Attempts : WF_vars(ClaimJob(a)) /\ WF_vars(Work(a))
    /\ WF_vars(Lapse /\ phase[job.attempt] = "dead")

Spec == Init /\ [][Next]_vars /\ Fairness

-----------------------------------------------------------------------------
(* Properties of both jobs.                                                  *)

\* The steps that carry a run: those of its whole work and of its insertion.
Spine == IF job.type = "generate_test" THEN {GenerationSeq, PersistSeq} ELSE {JudgeSeq, SaveSeq}

\* When a run is FAILED or SUCCEEDED, a step is open only if a write of its own
\* failed (or its parser raised what the loop does not catch), and a step of the
\* spine only in a judging whose handler had no step to mark: the trace shows no
\* other work going on in a run that is over, whatever else fails around it.
StepsCloseWithRun ==
    \A a \in Attempts : run[a] \in Final =>
        \A s \in DOMAIN steps[a] : steps[a][s].status = "RUNNING" =>
            /\ s \in torn[a]
            /\ s \in Spine => job.type = "judge_answer" /\ run[a] = "FAILED"

\* A job that was enqueued ends, whatever fails, and the workers of its attempts
\* let go of it; one that survives leaves its run RUNNING only if a write failed
\* that kept the run from being ended: outside every handler, or in one.
RunsEnd ==
    job.status = "QUEUED" ~>
        /\ job.status \in Final
        /\ \A a \in Attempts :
               /\ ~Busy(a)
               /\ phase[a] = "done" /\ run[a] = "RUNNING" => RunRow \in torn[a]
=============================================================================
