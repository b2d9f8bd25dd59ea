--------------------------- MODULE AnswerJudging ---------------------------
(* An answer to a generated test: its submission, which saves the answer and  *)
(* enqueues the job in two transactions, and what an attempt of the           *)
(* judge_answer job does: the loop that asks the model for a judgement, the   *)
(* grading policy, the result and the learning saved with it.                 *)
(*                                                                            *)
(* Scores are twenty-thousandths, half of the last digit a stored score has.  *)
(* Of an answer only what the policy looks at is kept.                        *)
EXTENDS AgentJob, Sequences

CONSTANTS
    Submissions,        \* the answers a developer may submit
    Judgements,         \* the payloads a model may come up with
    MaxSubmissions,     \* bound: how often the developer submits
    JudgeAttempts,      \* max_attempts of the job
    MaxRepairs          \* max_repair_attempts of the loop

\* An answer: to a short-answer test or not; how its text relates to the
\* reference answer; whether that is atomic; whether only it may be given.
Submission == [short : BOOLEAN, text : {"equal", "contains", "denies", "differs"},
               atomic : BOOLEAN, answerOnly : BOOLEAN]
Grades == {"passing", "needs_review", "getting_out_of_hand"}
Scores == 0..20000
Judgement == [score : Scores, status : Grades, learning : BOOLEAN]
NoJudgement == [score |-> 0, status |-> "getting_out_of_hand", learning |-> FALSE]

ASSUME SubmissionAssumption == Submissions \subseteq Submission
ASSUME JudgementAssumption == Judgements \subseteq Judgement
ASSUME LimitAssumption == /\ {MaxSubmissions, MaxRepairs} \subseteq Nat
                          /\ JudgeAttempts \in Attempts

VARIABLES
    answers,    \* test_answers
    api,        \* the request: idle, or between its two transactions
    verdict,    \* the judgement each attempt ended up with
    repairs,    \* repairs of each attempt's loop
    results,    \* test_results, oldest first
    learnings   \* saved_learnings: the results they were saved for

judgeVars == <<answers, api, verdict, repairs, results, learnings>>

NoJudging ==
    /\ answers = << >> /\ api = "idle"
    /\ verdict = [a \in Attempts |-> NoJudgement]
    /\ repairs = [a \in Attempts |-> 0]
    /\ results = << >> /\ learnings = << >>

\* Before the answer there is no job.
JudgeInit == JobInit("judge_answer", "none", JudgeAttempts, 0) /\ NoJudging

-----------------------------------------------------------------------------
(* submit_answer.                                                            *)

SubmitAnswer ==
    /\ job.type = "judge_answer" /\ job.status = "none"
    /\ api = "idle" /\ Len(answers) < MaxSubmissions
    /\ \E answer \in Submissions : answers' = Append(answers, answer)
    /\ api' = "saved"
    /\ UNCHANGED <<jobVars, verdict, repairs, results, learnings>>

EnqueueJudging ==
    /\ api = "saved" /\ api' = "idle"
    /\ job' = [job EXCEPT !.status = "QUEUED", !.payload = Len(answers)]
    /\ UNCHANGED <<phase, run, steps, created, torn, answers, verdict, repairs, results, learnings>>

\* The process dies, or the job is not inserted; the developer may submit again.
SubmissionBreaks ==
    /\ api = "saved" /\ api' = "idle"
    /\ UNCHANGED <<jobVars, answers, verdict, repairs, results, learnings>>

-----------------------------------------------------------------------------
(* The grading policy.                                                       *)

Grade(score) == IF score >= 16000 THEN "passing"
                ELSE IF score >= 8000 THEN "needs_review"
                ELSE "getting_out_of_hand"

\* Mutant: the status is the model's.
AlignedNot(judgement) == judgement

\* _align_status_with_score
Aligned(judgement) == [score |-> judgement.score, status |-> Grade(judgement.score),
                       learning |-> judgement.learning]

\* _unambiguously_contains_expected_answer
Contains(answer) == answer.text = "equal" \/ (answer.atomic /\ answer.text = "contains")

\* The answers the policy takes for right whatever the model says.
Safeguarded(answer) == answer.short /\ ~answer.answerOnly /\ Contains(answer)

FullScore == [score |-> 20000, status |-> "passing", learning |-> FALSE]

\* apply_answer_judging_policy
Judged(answer, judgement) ==
    IF Safeguarded(answer) /\ judgement.score # 20000 THEN FullScore ELSE Aligned(judgement)

\* _score_decimal: four decimals, half to even.
Stored(score) == LET n == score \div 2 IN IF score % 2 = 0 THEN n ELSE n + (n % 2)

-----------------------------------------------------------------------------
(* judge_answer.                                                             *)

JudgeSeq == 1
SaveSeq == 2

\* _create_judge_step, _create_persist_step
NewJudgeStep == Step("judge", "RUNNING")
NewSaveStep == Step("persist", "RUNNING")

StartJudging(a) ==
    /\ phase[a] = "start"
    /\ run' = [run EXCEPT ![a] = "RUNNING"]
    /\ Write(a, One(JudgeSeq, NewJudgeStep), NoSteps)
    /\ Go(a, "judge")
    /\ UNCHANGED <<job, torn, judgeVars>>

\* The handler: the step it holds is FAILED, and the run.
JudgingFails(a, closing, rows) ==
    /\ EndInFailure(a, NoSteps, NoSteps, closing, rows)
    /\ UNCHANGED judgeVars

\* The run is not marked, outside the handler; or the judge step is not, and the
\* handler does not hold it.
StartJudgingBreaks(a) ==
    /\ phase[a] = "start"
    /\ \/ LeaveRunning(a, NoSteps, NoSteps, {})
       \/ \E new \in Torn(JudgeSeq, "judge") :
              EndInFailure(a, new, NoSteps, NoSteps, {JudgeSeq})
    /\ UNCHANGED judgeVars

\* The provider fails, or answers without one JSON object (which the loop does
\* not repair), or the payload breaks the coercion; or an artifact fails, or the
\* mark of the judge step.
JudgingBreaks(a) == phase[a] = "judge" /\ JudgingFails(a, Mark(a, JudgeSeq, "FAILED"), {})

\* A payload off the contract: one more call while repairs last.
InvalidJudgement(a) ==
    /\ phase[a] = "judge"
    /\ \/ /\ repairs[a] >= MaxRepairs
          /\ JudgingFails(a, Mark(a, JudgeSeq, "FAILED"), {})
       \/ /\ repairs[a] < MaxRepairs
          /\ repairs' = [repairs EXCEPT ![a] = @ + 1]
          /\ UNCHANGED <<jobVars, answers, api, verdict, results, learnings>>

\* A payload on the contract goes through the policy.
ValidJudgement(a) ==
    /\ phase[a] = "judge"
    /\ \E judgement \in Judgements :
           verdict' = [verdict EXCEPT ![a] = Judged(answers[job.payload], judgement)]
    /\ Write(a, One(SaveSeq, NewSaveStep), Mark(a, JudgeSeq, "SUCCEEDED"))
    /\ repairs' = [repairs EXCEPT ![a] = 0]
    /\ Go(a, "judged")
    /\ UNCHANGED <<job, run, torn, answers, api, results, learnings>>

\* The judge step is finished, the step of the insertion not begun, and the
\* handler holds neither.
SaveStepBreaks(a) ==
    /\ phase[a] = "judge"
    /\ \E new \in Torn(SaveSeq, "persist") :
           EndInFailure(a, new, Mark(a, JudgeSeq, "SUCCEEDED"), NoSteps, {SaveSeq})
    /\ UNCHANGED judgeVars

InsertResult(a) ==
    /\ phase[a] = "judged"
    /\ results' = Append(results, [answer |-> job.payload, by |-> a,
                                   score |-> Stored(verdict[a].score), status |-> verdict[a].status,
                                   alert |-> verdict[a].status # "passing"])
    /\ Go(a, "inserted")
    /\ UNCHANGED <<job, run, steps, created, torn, answers, api, verdict, repairs, learnings>>

ResultFails(a) == phase[a] = "judged" /\ JudgingFails(a, Mark(a, SaveSeq, "FAILED"), {})

\* _save_suggested_learning, a transaction of its own.
ResultOf(a) == CHOOSE i \in DOMAIN results : results[i].by = a

\* Mutant: the learning is forgotten.
SaveLearningNever(a) ==
    /\ phase[a] = "inserted"
    /\ Go(a, "learned")
    /\ UNCHANGED <<job, run, steps, created, torn, judgeVars>>

SaveLearning(a) ==
    /\ phase[a] = "inserted"
    /\ learnings' = IF verdict[a].learning THEN Append(learnings, ResultOf(a)) ELSE learnings
    /\ Go(a, "learned")
    /\ UNCHANGED <<job, run, steps, created, torn, answers, api, verdict, repairs, results>>

LearningFails(a) ==
    /\ phase[a] = "inserted" /\ verdict[a].learning
    /\ JudgingFails(a, Mark(a, SaveSeq, "FAILED"), {})

\* The step of the insertion is finished.
FinishSaving(a) ==
    /\ phase[a] = "learned"
    /\ Write(a, NoSteps, Mark(a, SaveSeq, "SUCCEEDED"))
    /\ Go(a, "saved")
    /\ UNCHANGED <<job, run, torn, judgeVars>>

\* It is not: the handler marks step and run FAILED, with all that is saved.
SavingBreaks(a) ==
    phase[a] = "learned" /\ JudgingFails(a, Mark(a, SaveSeq, "FAILED"), {SaveSeq})

FinishJudging(a) ==
    /\ phase[a] = "saved"
    /\ run' = [run EXCEPT ![a] = "SUCCEEDED"]
    /\ Go(a, "report")
    /\ UNCHANGED <<job, steps, created, torn, judgeVars>>

\* The run is not marked, outside the handler.
FinishJudgingBreaks(a) ==
    phase[a] = "saved" /\ LeaveRunning(a, NoSteps, NoSteps, {}) /\ UNCHANGED judgeVars

JudgeStep(a) ==
    \/ StartJudging(a) \/ StartJudgingBreaks(a)
    \/ JudgingBreaks(a) \/ InvalidJudgement(a) \/ ValidJudgement(a) \/ SaveStepBreaks(a)
    \/ InsertResult(a) \/ ResultFails(a) \/ SaveLearning(a) \/ LearningFails(a)
    \/ FinishSaving(a) \/ SavingBreaks(a) \/ FinishJudging(a) \/ FinishJudgingBreaks(a)

\* Mutant: the score before it is rounded for the table.
JudgeResultRaw(a) == [score |-> verdict[a].score, status |-> verdict[a].status]

JudgeResult(a) == [score |-> results[ResultOf(a)].score, status |-> results[ResultOf(a)].status]

-----------------------------------------------------------------------------
(* Properties.                                                               *)

\* The stored status is the grade of the stored score, whatever the model
\* claimed, but at a threshold, to which a score graded below it may be rounded;
\* no score below the threshold goes without an alert.  An answer that plainly
\* holds the expected one passes in full, whatever the model made of it.
GradesHold ==
    \A i \in DOMAIN results :
        LET r == results[i] IN
        /\ r.status = Grade(2 * r.score) \/ r.score \in {4000, 8000}
        /\ r.score < 8000 => r.alert
        /\ r.alert => r.score <= 8000
        /\ Safeguarded(answers[r.answer]) => r.score = 10000

\* A SUCCEEDED job stands for exactly one result of its own attempt, with the
\* score and status it reports, for the answer it was enqueued for.
ReportIsStored ==
    job.type = "judge_answer" /\ job.status = "SUCCEEDED" =>
        LET mine == {i \in DOMAIN results : results[i].by = job.attempt} IN
        /\ Cardinality(mine) = 1
        /\ \A i \in mine :
               /\ results[i].answer = Len(answers)
               /\ job.result = [score |-> results[i].score, status |-> results[i].status]

\* An attempt leaves at most one result, and saves its learning once, if it has
\* one.  A SUCCEEDED run lost none; a run that is FAILED after the insert lost its
\* learning, unless a failing mark of the insertion's step is all that went wrong.
LostLearningFailsRun ==
    \A i \in DOMAIN results :
        LET a == results[i].by
            saved == {n \in DOMAIN learnings : learnings[n] = i} IN
        /\ \A j \in DOMAIN results \ {i} : results[j].by # a
        /\ \A n, m \in saved : n = m
        /\ saved # {} => verdict[a].learning
        /\ run[a] = "SUCCEEDED" /\ verdict[a].learning => saved # {}
        /\ run[a] = "FAILED" =>
               \/ verdict[a].learning /\ saved = {}
               \/ SaveSeq \in torn[a] /\ (verdict[a].learning => saved # {})
=============================================================================
