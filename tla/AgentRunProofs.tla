--------------------------- MODULE AgentRunProofs ---------------------------
(***************************************************************************)
(* Proofs about the two kinds of agent runs, on top of the invariant of    *)
(* AgentJobsProofs.                                                        *)
(*                                                                         *)
(* The generation of tests, for every plan, whatever the model comes up    *)
(* with, and every interleaving of the attempts of a job: the trace of a   *)
(* run that is over, the tests it has inserted, the questions it has       *)
(* repeated and the tool calls it has recorded.                            *)
(*                                                                         *)
(* The judging of answers, for any answers and judgements and any limit of *)
(* repairs: the grade that is stored, the report of the job, and what a    *)
(* run says of a lost learning.  Its invariant ties each row of            *)
(* test_results to the verdict of the attempt that wrote it and, since     *)
(* result and learning are two transactions, to how far that attempt's run *)
(* has got.                                                                *)
(***************************************************************************)
EXTENDS AgentJobsProofs

-----------------------------------------------------------------------------
(* Attempts do not disturb one another.                                      *)

\* What a step of another attempt leaves alone.
Kept(b) ==
    /\ phase'[b] = phase[b] /\ steps'[b] = steps[b] /\ run'[b] = run[b] /\ at'[b] = at[b]
    /\ inputs'[b] = inputs[b] /\ failures'[b] = failures[b] /\ torn'[b] = torn[b]

Framed ==
    /\ DOMAIN phase = Attempts /\ DOMAIN steps = Attempts /\ DOMAIN run = Attempts
    /\ DOMAIN at = Attempts /\ DOMAIN inputs = Attempts /\ DOMAIN failures = Attempts
    /\ DOMAIN torn = Attempts
    /\ job.type \in {"generate_test", "judge_answer"}

\* The state of the attempts after a step of the attempt a.
Only(a) == Framed' /\ \A b \in Attempts \ {a} : Kept(b)

LEMMA FailsOnly ==
    ASSUME Framed, NEW a \in Attempts, NEW new, NEW updated, NEW closing, NEW rows,
           EndInFailure(a, new, updated, closing, rows), UNCHANGED genVars
    PROVE  Only(a) /\ job' = job
    BY DEF Framed, EndInFailure, Raise, Tear, Write, Go, genVars, Only, Kept

LEMMA LeaveOnly ==
    ASSUME Framed, NEW a \in Attempts, NEW new, NEW updated, NEW rows,
           LeaveRunning(a, new, updated, rows), UNCHANGED genVars
    PROVE  Only(a) /\ job' = job
    BY DEF Framed, LeaveRunning, Raise, Tear, Write, Go, genVars, Only, Kept

LEMMA QuestionOnly ==
    ASSUME Framed, NEW a \in Attempts, NEW new, NEW updated, NEW rows,
           QuestionFails(a, new, updated, rows)
    PROVE  Only(a) /\ job' = job
    BY DEF Framed, QuestionFails, Advance, ToQuestion, Tear, Write, Go, Only, Kept

LEMMA AgainOnly ==
    ASSUME Framed, NEW a \in Attempts, NEW updated, NEW r, NEW g, AskAgain(a, updated, r, g)
    PROVE  Only(a) /\ job' = job
    BY DEF Framed, AskAgain, Write, Go, Only, Kept

LEMMA GenOnly ==
    ASSUME Framed, NEW a \in Attempts, GenStep(a)
    PROVE  Only(a) /\ job' = job
<1>1. CASE PackUnreadable(a) \/ PlanBreaks(a) \/ NothingGenerated(a) \/ InsertFails(a)
  BY <1>1, FailsOnly DEF PackUnreadable, PlanBreaks, NothingGenerated, InsertFails, RunFails
<1>2. CASE InspectModel(a) \/ InspectBreaks(a) \/ InspectLate(a) \/ ToolBreaks(a)
  BY <1>2, FailsOnly
     DEF InspectModel, InspectBreaks, InspectLate, ToolBreaks, InspectionFails, RunFails
<1>3. CASE AskFails(a) \/ AskLate(a) \/ AskBreaks(a) \/ ValidationBreaks(a)
           \/ EvidenceBreaks(a) \/ ArtifactFails(a) \/ RejectBreaks(a)
  BY <1>3, QuestionOnly DEF AskFails, AskLate, AskBreaks, ValidationBreaks, EvidenceBreaks,
                            ArtifactFails, RejectBreaks
<1>4. CASE InvalidOutput(a) \/ InvalidEvidence(a)
  BY <1>4, QuestionOnly, AgainOnly DEF InvalidOutput, InvalidEvidence
<1>12. CASE StartBreaks(a) \/ PersistBreaks(a) \/ FinishBreaks(a)
  BY <1>12, LeaveOnly DEF StartBreaks, PersistBreaks, FinishBreaks
<1>5. CASE StartRun(a) \/ BeginPack(a) \/ FinishInspection(a)
  BY <1>5 DEF StartRun, BeginPack, FinishInspection, ToQuestion, Framed, Write, Go, Only, Kept
<1>6. CASE RequestTools(a)
  BY <1>6 DEF RequestTools, Framed, Write, Go, Only, Kept
<1>7. CASE CallTool(a)
  BY <1>7 DEF CallTool, Framed, Write, Go, Only, Kept
<1>8. CASE AskModel(a) \/ ValidOutput(a) \/ ValidEvidence(a)
  BY <1>8 DEF AskModel, ValidOutput, ValidEvidence, Framed, Write, Go, Only, Kept
<1>9. CASE AcceptQuestion(a)
  BY <1>9 DEF AcceptQuestion, Advance, ToQuestion, Framed, Go, Only, Kept
<1>10. CASE RejectDuplicate(a)
  <2>1. CASE \E new : QuestionFails(a, new, NoSteps, {})
    BY <2>1, QuestionOnly
  <2>2. CASE ~\E new : QuestionFails(a, new, NoSteps, {})
    BY <1>10, <2>2 DEF RejectDuplicate, Framed, Write, Go, Only, Kept
  <2> QED BY <2>1, <2>2
<1>11. CASE BeginPersist(a) \/ InsertTests(a) \/ FinishRun(a)
  BY <1>11 DEF BeginPersist, InsertTests, FinishRun, Framed, Write, Go, Only, Kept
<1> QED
  BY <1>1, <1>2, <1>3, <1>4, <1>5, <1>6, <1>7, <1>8, <1>9, <1>10, <1>11, <1>12 DEF GenStep

\* The same for the steps of a judge and of the queue.
LEMMA JudgeOnly ==
    ASSUME Framed, NEW a \in Attempts, JudgeStep(a), UNCHANGED genVars
    PROVE  Only(a) /\ job' = job
<1>1. CASE \/ JudgingBreaks(a) \/ SaveStepBreaks(a) \/ ResultFails(a)
           \/ LearningFails(a) \/ SavingBreaks(a)
  BY <1>1, FailsOnly
     DEF JudgingBreaks, SaveStepBreaks, ResultFails, LearningFails, SavingBreaks, JudgingFails
<1>2. CASE InvalidJudgement(a)
  BY <1>2, FailsOnly DEF InvalidJudgement, JudgingFails, jobVars, genVars, Framed, Only, Kept
<1>3. CASE StartJudging(a) \/ ValidJudgement(a) \/ InsertResult(a)
  BY <1>3 DEF StartJudging, ValidJudgement, InsertResult, genVars, Framed, Write, Go, Only, Kept
<1>4. CASE SaveLearning(a) \/ FinishSaving(a) \/ FinishJudging(a)
  BY <1>4
     DEF SaveLearning, FinishSaving, FinishJudging, genVars, Framed, Write, Go, Only, Kept
<1>5. CASE StartJudgingBreaks(a) \/ FinishJudgingBreaks(a)
  BY <1>5, FailsOnly, LeaveOnly DEF StartJudgingBreaks, FinishJudgingBreaks
<1> QED BY <1>1, <1>2, <1>3, <1>4, <1>5 DEF JudgeStep

\* What the queue may do to a job.
JobMoves(a) ==
    /\ DOMAIN job' = JobFields /\ job'.type = job.type /\ job'.payload = job.payload
    /\ job'.status = "SUCCEEDED" /\ job'.status # job.status =>
           /\ Owns(a) /\ phase[a] = "report" /\ job'.attempt = a
           /\ phase'[a] = "done"
    /\ job'.status = "SUCCEEDED" /\ job'.status = job.status => job' = job

LEMMA QueueOnly ==
    ASSUME IInv, Framed, NEW a \in Attempts, UNCHANGED genVars,
           \/ Claim(a) \/ Crash(a) \/ RefuseJob(a) \/ ReportFailure(a)
           \/ \E result : ReportSuccess(a, result)
    PROVE  /\ Only(a) /\ JobMoves(a) /\ UNCHANGED <<run, steps, torn>>
           /\ \/ phase[a] = "idle" /\ phase'[a] = "start"
              \/ /\ phase'[a] \in {"raised", "done", "dead"}
                 /\ phase[a] \notin {"idle", "done", "dead"}
<1>1. DOMAIN job = JobFields
  BY DEF IInv, Shapes
<1>2. CASE Claim(a)
  <2>1. job.status = "QUEUED" /\ job' = [job EXCEPT !.status = "RUNNING", !.attempt = a]
    BY <1>2 DEF Claim
  <2>2. JobMoves(a)
    BY <1>1, <2>1 DEF JobMoves, JobFields
  <2> QED BY <1>1, <1>2, <2>2 DEF Claim, Go, Framed, genVars, Only, Kept, JobMoves
<1>3. CASE Crash(a) \/ RefuseJob(a)
  BY <1>1, <1>3 DEF Crash, Busy, RefuseJob, Go, Framed, genVars, Only, Kept, JobMoves
<1>4. CASE ReportFailure(a)
  <2>1. job' = job \/ (job.status = "RUNNING" /\ job' = [job EXCEPT !.status = Requeued])
    BY <1>4 DEF ReportFailure, Owns
  <2>2. JobMoves(a)
    BY <1>1, <2>1 DEF JobMoves, JobFields, Requeued
  <2> QED BY <1>4, <2>2 DEF ReportFailure, Go, Framed, genVars, Only, Kept, JobMoves
<1>5. CASE \E result : ReportSuccess(a, result)
  <2>1. PICK result : ReportSuccess(a, result)
    BY <1>5
  <2>2. phase[a] = "report" /\ phase'[a] = "done"
    BY <2>1 DEF ReportSuccess, Go, Framed
  <2>3. job' = job \/ (Owns(a) /\ job' = [job EXCEPT !.status = "SUCCEEDED", !.result = result])
    BY <2>1 DEF ReportSuccess
  <2>4. JobMoves(a)
    BY <1>1, <2>2, <2>3 DEF JobMoves, JobFields, Owns
  <2> QED BY <2>1, <2>2, <2>4 DEF ReportSuccess, Go, Framed, genVars, Only, Kept, JobMoves
<1> QED BY <1>2, <1>3, <1>4, <1>5

-----------------------------------------------------------------------------
(* The trace of a run: which steps are open, and which rows are torn.        *)

Open(a) == {s \in Held(a) : steps[a][s].status = "RUNNING"}
\* The steps that are open although nothing has failed them.
Loose(a) == Open(a) \ torn[a]

Live == Looping \cup {"persist", "inserted", "judge", "judged", "learned", "saved"}
Quit == {"raised", "done", "dead"}

\* The steps an attempt is at work on.
LooseAt(a, open) ==
    /\ phase[a] \in {"pack", "generate", "dedupe"} => open \subseteq {GenerationSeq}
    /\ phase[a] \in {"inspect", "tools"} => open \subseteq {GenerationSeq, PlanSeq(at[a].pack)}
    /\ phase[a] = "validate" => open \subseteq {GenerationSeq, ValidationSeq(a)}
    /\ phase[a] = "verify" => open \subseteq {GenerationSeq, EvidenceSeq(a)}
    /\ phase[a] = "persist" => open \subseteq {PersistSeq}
    /\ phase[a] = "inserted" =>
           open \subseteq IF job.type = "generate_test" THEN {PersistSeq} ELSE {SaveSeq}
    /\ phase[a] = "judge" => open \subseteq {JudgeSeq}
    /\ phase[a] \in {"judged", "learned"} => open \subseteq {SaveSeq}
    /\ phase[a] = "saved" => open = {}

\* The rows a failed question or inspection may leave torn behind it.
Side(rows) == rows \cap {RunRow, GenerationSeq, PersistSeq} = {}

\* A torn run is not over, and nobody is at work on it.  A generation that tears
\* its own step or that of its insertion tears its run; a judging goes on, or
\* succeeds, only with every row in its place.
TornInv(a) ==
    /\ RunRow \in torn[a] => run[a] = "RUNNING" /\ phase[a] \in Quit
    /\ job.type = "generate_test" /\ RunRow \notin torn[a] => Side(torn[a])
    /\ job.type = "judge_answer" /\ torn[a] # {} => run[a] # "SUCCEEDED" /\ phase[a] \in Quit

OpenInv(a) ==
    /\ run[a] \in Final => Loose(a) = {}
    /\ phase[a] \in Live => run[a] = "RUNNING"
    /\ LooseAt(a, Loose(a))
    /\ TornInv(a)

\* Steps that are inserted or updated as finished ones, or as torn ones.
Ended(table) == \A s \in DOMAIN table : table[s].status # "RUNNING"
EndedBut(table, rows) == \A s \in DOMAIN table : table[s].status = "RUNNING" => s \in rows

\* A write leaves open what it does not finish, and what it inserts open.
LEMMA LooseWritten ==
    ASSUME Framed, NEW a \in Attempts, NEW new, NEW updated, Write(a, new, updated),
           NEW rows, torn'[a] = torn[a] \cup rows, NEW x,
           EndedBut(new, x \cup rows), Ended(updated),
           Loose(a) \ DOMAIN updated \subseteq x \cup rows
    PROVE  Loose(a)' \subseteq x
<1>1. steps'[a] = Over(new, Over(updated, steps[a]))
  BY DEF Write, Framed
<1>2. SUFFICES ASSUME NEW s \in DOMAIN steps'[a], steps'[a][s].status = "RUNNING",
                      s \notin torn[a], s \notin rows
               PROVE  s \in x
  BY DEF Loose, Open, Held
<1>3. CASE s \in DOMAIN new
  <2>1. steps'[a][s] = new[s]
    BY <1>1, <1>3 DEF Over
  <2> QED BY <1>2, <1>3, <2>1 DEF EndedBut
<1>4. CASE s \notin DOMAIN new
  <2>1. s \in DOMAIN Over(updated, steps[a]) /\ steps'[a][s] = Over(updated, steps[a])[s]
    BY <1>1, <1>4 DEF Over
  <2>2. CASE s \in DOMAIN updated
    <3>1. steps'[a][s] = updated[s]
      BY <2>1, <2>2 DEF Over
    <3> QED BY <1>2, <2>2, <3>1 DEF Ended
  <2>3. CASE s \notin DOMAIN updated
    <3>1. s \in DOMAIN steps[a] /\ steps'[a][s] = steps[a][s]
      BY <2>1, <2>3 DEF Over
    <3>2. s \in Loose(a)
      BY <1>2, <3>1 DEF Loose, Open, Held
    <3> QED BY <1>2, <2>3, <3>2
  <2> QED BY <2>2, <2>3
<1> QED BY <1>3, <1>4

\* The writes of the steps: one step inserted, none, one finished, none.
LEMMA StepShapes ==
    /\ DOMAIN NoSteps = {}
    /\ \A x, step : DOMAIN One(x, step) = {x} /\ One(x, step)[x] = step
    /\ \A kind, status : Step(kind, status).kind = kind /\ Step(kind, status).status = status
    /\ \A a, x, status :
           DOMAIN Mark(a, x, status) = {x} /\ Mark(a, x, status)[x].status = status
    BY DEF NoSteps, One, Step, Mark

\* What a step inserts or finishes as FAILED or SUCCEEDED is not open.
LEMMA EndedSteps ==
    /\ Ended(NoSteps)
    /\ \A x, kind : \A status \in Final : Ended(One(x, Step(kind, status)))
    /\ \A a, x : \A status \in Final : Ended(Mark(a, x, status))
    BY DEF Ended, One, Step, Mark, NoSteps, Final

LEMMA EndedMark ==
    ASSUME NEW a, NEW x, NEW status \in Final
    PROVE  DOMAIN Mark(a, x, status) = {x} /\ Ended(Mark(a, x, status))
    BY EndedSteps DEF Mark, One

\* So are the steps that are inserted but for the torn one, or the one begun.
LEMMA EndedButSteps ==
    /\ \A table, rows : Ended(table) => EndedBut(table, rows)
    /\ \A rows : EndedBut(NoSteps, rows)
    /\ \A x, kind, rows : \A status \in Final : EndedBut(One(x, Step(kind, status)), rows)
    /\ \A x, step, rows : x \in rows => EndedBut(One(x, step), rows)
    BY DEF Ended, EndedBut, One, Step, NoSteps, Final

LEMMA TornSteps ==
    ASSUME NEW x, NEW kind, NEW new \in Torn(x, kind)
    PROVE  EndedBut(new, {x})
<1>1. new = NoSteps \/ new = One(x, Step(kind, "RUNNING"))
  BY DEF Torn
<1> QED BY <1>1, EndedButSteps

\* An attempt whose step wrote nothing.
LEMMA LooseKept ==
    ASSUME NEW a, UNCHANGED <<steps, torn>>
    PROVE  Loose(a)' = Loose(a)
    BY DEF Loose, Open, Held

\* The others are where they were.
LEMMA OthersOpen ==
    ASSUME NEW a, Only(a), \A b \in Attempts : OpenInv(b), job'.type = job.type, OpenInv(a)'
    PROVE  \A b \in Attempts : OpenInv(b)'
<1> SUFFICES ASSUME NEW b \in Attempts \ {a} PROVE OpenInv(b)'
  OBVIOUS
<1>1. Kept(b) /\ OpenInv(b)
  BY DEF Only
<1>2. /\ Loose(b)' = Loose(b)
      /\ ValidationSeq(b)' = ValidationSeq(b) /\ EvidenceSeq(b)' = EvidenceSeq(b)
  BY <1>1 DEF Kept, Loose, Open, Held, ValidationSeq, EvidenceSeq, Base
<1> QED BY <1>1, <1>2 DEF OpenInv, LooseAt, TornInv, Side, Kept

\* A handler finishes the steps that are open, but for those it tears.
LEMMA FailsOpen ==
    ASSUME Framed, NEW a \in Attempts, NEW new, NEW updated, NEW closing, NEW rows,
           EndInFailure(a, new, updated, closing, rows), job' = job,
           EndedBut(new, rows), Ended(updated), Ended(closing),
           Loose(a) \subseteq DOMAIN updated \cup DOMAIN closing \cup rows,
           RunRow \notin torn[a], TornInv(a), RunRow \notin rows,
           job.type = "generate_test" => Side(rows)
    PROVE  OpenInv(a)'
<1>1. PICK lost \in {{}, {RunRow}, {RunRow} \union DOMAIN closing} :
          /\ Write(a, new, Over(updated, [s \in DOMAIN closing \ lost |-> closing[s]]))
          /\ run' = [run EXCEPT ![a] = IF lost = {} THEN "FAILED" ELSE "RUNNING"]
          /\ Tear(a, rows \union lost)
          /\ Raise(a)
  BY DEF EndInFailure
<1>2. phase'[a] = "raised"
  BY <1>1 DEF Raise, Go, Framed
<1>3. torn'[a] = torn[a] \cup (rows \cup lost)
  BY <1>1 DEF Tear, Framed
<1>4. CASE lost # {}
  <2>1. RunRow \in torn'[a] /\ run'[a] = "RUNNING"
    BY <1>1, <1>3, <1>4 DEF Framed
  <2> QED BY <1>2, <2>1
      DEF OpenInv, LooseAt, TornInv, Quit, Final, Live, Looping, Asking
<1>5. CASE lost = {}
  <2> DEFINE done == Over(updated, [s \in DOMAIN closing \ lost |-> closing[s]])
  <2>1. DOMAIN done = DOMAIN updated \cup DOMAIN closing
    BY <1>5 DEF Over
  <2>2. Ended(done)
    <3> SUFFICES ASSUME NEW s \in DOMAIN done PROVE done[s].status # "RUNNING"
      BY DEF Ended
    <3>1. CASE s \in DOMAIN updated
      <4>1. done[s] = updated[s]
        BY <2>1, <3>1 DEF Over
      <4> QED BY <3>1, <4>1 DEF Ended
    <3>2. CASE s \notin DOMAIN updated
      <4>1. s \in DOMAIN closing /\ done[s] = closing[s]
        BY <1>5, <2>1, <3>2 DEF Over
      <4> QED BY <4>1 DEF Ended
    <3> QED BY <3>1, <3>2
  <2>3. Write(a, new, done) /\ run'[a] = "FAILED"
    BY <1>1, <1>5 DEF Framed
  <2> HIDE DEF done
  <2>4. torn'[a] = torn[a] \cup rows
    BY <1>3, <1>5
  <2>5. Loose(a)' = {}
    <3>1. PICK x : x = {}
      OBVIOUS
    <3>2. x \cup rows = rows
      BY <3>1
    <3>3. Loose(a)' \subseteq x
      BY <2>1, <2>2, <2>3, <2>4, <3>2, LooseWritten
    <3> QED BY <3>1, <3>3
  <2>6. TornInv(a)'
    BY <1>2, <2>3, <2>4 DEF TornInv, Quit, Side
  <2> QED BY <1>2, <2>5, <2>6 DEF OpenInv, LooseAt, Live, Looping, Asking
<1> QED BY <1>4, <1>5

\* A run that is left as it is tells so.
LEMMA LeaveOpen ==
    ASSUME Framed, NEW a \in Attempts, NEW new, NEW updated, NEW rows,
           LeaveRunning(a, new, updated, rows)
    PROVE  OpenInv(a)'
<1>1. phase'[a] = "raised" /\ run'[a] = "RUNNING" /\ RunRow \in torn'[a]
  BY DEF LeaveRunning, Raise, Tear, Go, Framed
<1> QED BY <1>1 DEF OpenInv, LooseAt, TornInv, Quit, Final, Live, Looping, Asking

\* A failed generation finishes its own step.
LEMMA RunFailsOpen ==
    ASSUME IInv, Framed, NEW a \in Attempts, phase[a] \in Looping, OpenInv(a),
           NEW new, NEW updated, NEW rows, RunFails(a, new, updated, rows),
           EndedBut(new, rows), Ended(updated), Side(rows),
           Loose(a) \subseteq DOMAIN updated \cup {GenerationSeq} \cup rows
    PROVE  OpenInv(a)'
<1>1. DOMAIN Mark(a, GenerationSeq, "FAILED") = {GenerationSeq}
      /\ Ended(Mark(a, GenerationSeq, "FAILED"))
  BY EndedMark DEF Final
<1>2. TornInv(a) /\ RunRow \notin torn[a] /\ RunRow \notin rows
  BY DEF OpenInv, TornInv, Side, Looping, Asking, Quit
<1>3. EndInFailure(a, new, updated, Mark(a, GenerationSeq, "FAILED"), rows) /\ job' = job
  BY DEF RunFails, EndInFailure, Raise
<1> QED BY <1>1, <1>2, <1>3, FailsOpen

\* Rows a step of a live generation tears beside the run.
LEMMA SideTorn ==
    ASSUME NEW a \in Attempts, OpenInv(a), phase[a] \in Live, job.type = "generate_test",
           job' = job, NEW rows, Side(rows), torn'[a] = torn[a] \cup rows
    PROVE  TornInv(a)'
    BY DEF OpenInv, TornInv, Side, Quit, Live, Looping, Asking

\* A question that fails, or is asked for again, leaves the generation step open.
LEMMA QuestionOpen ==
    ASSUME IInv, Framed, NEW a \in Attempts, NEW new, NEW updated, NEW rows,
           phase[a] \in Asking, OpenInv(a), job' = job,
           Write(a, new, updated), torn'[a] = torn[a] \cup rows, run' = run,
           phase'[a] \in {"generate", "pack", "dedupe"},
           EndedBut(new, rows), Ended(updated), Side(rows),
           phase[a] = "validate" => ValidationSeq(a) \in DOMAIN updated \cup rows,
           phase[a] = "verify" => EvidenceSeq(a) \in DOMAIN updated \cup rows
    PROVE  OpenInv(a)'
<1>1. /\ phase[a] \in Live /\ run[a] = "RUNNING" /\ job.type = "generate_test"
      /\ Loose(a) \ DOMAIN updated \subseteq {GenerationSeq} \cup rows
  BY DEF IInv, Placed, OpenInv, LooseAt, Live, Looping, Asking
<1>2. Loose(a)' \subseteq {GenerationSeq}
  <2>1. PICK x : x = {GenerationSeq}
    OBVIOUS
  <2>2. EndedBut(new, x \cup rows)
    BY DEF EndedBut
  <2>3. Loose(a)' \subseteq x
    BY <1>1, <2>1, <2>2, LooseWritten
  <2> QED BY <2>1, <2>3
<1>3. TornInv(a)'
  BY <1>1, SideTorn
<1> QED BY <1>1, <1>2, <1>3 DEF OpenInv, LooseAt, Final

\* A step that goes on inserts and finishes steps, and tears no row.
LEMMA GoesOpen ==
    ASSUME Framed, NEW a \in Attempts, NEW new, NEW updated, Write(a, new, updated),
           torn' = torn, NEW x, EndedBut(new, x), Ended(updated),
           Loose(a) \ DOMAIN updated \subseteq x
    PROVE  Loose(a)' \subseteq x
<1>1. PICK rows : rows = {}
  OBVIOUS
<1>2. /\ torn'[a] = torn[a] \cup rows /\ x \cup rows = x
      /\ EndedBut(new, x \cup rows) /\ Loose(a) \ DOMAIN updated \subseteq x \cup rows
  BY <1>1
<1> QED BY <1>2, LooseWritten

LEMMA TornKept ==
    ASSUME NEW a \in Attempts, OpenInv(a), phase[a] \in Live \cup {"start"}, torn' = torn,
           job'.type = job.type
    PROVE  TornInv(a)'
    BY DEF OpenInv, TornInv, Live, Looping, Asking, Quit

-----------------------------------------------------------------------------
(* The numbers of questions and inspections are not those of the run itself. *)

LEMMA SidePlan ==
    ASSUME NEW pack \in 0..4
    PROVE  Side({PlanSeq(pack)})
<1>1. \A s : s \in Int /\ 1 < s /\ s < 20000000 => Side({s})
  BY SMT DEF Side, RunRow, GenerationSeq, PersistSeq
<1>2. PlanSeq(pack) \in Int /\ 1 < PlanSeq(pack) /\ PlanSeq(pack) < 20000000
  BY SMT DEF PlanSeq, PackStride, PlanStepBase
<1> QED BY <1>1, <1>2

LEMMA SideCall ==
    ASSUME NEW pack \in 0..4, NEW n \in Nat, n <= 99909
    PROVE  Side({InspectionSeq(pack, n)})
<1>1. \A s : s \in Int /\ 1 < s /\ s < 20000000 => Side({s})
  BY SMT DEF Side, RunRow, GenerationSeq, PersistSeq
<1>2. /\ InspectionSeq(pack, n) \in Int
      /\ 1 < InspectionSeq(pack, n) /\ InspectionSeq(pack, n) < 20000000
  BY SMT DEF InspectionSeq, PackStride, InspectionBase
<1> QED BY <1>1, <1>2

LEMMA SideQuestion ==
    ASSUME NEW pack \in 0..4, NEW q \in 0..4, NEW dup \in 0..2, NEW turn \in 1..8,
           NEW base, base = AttemptBase(pack, q, dup)
    PROVE  /\ Side({TurnSeq(base, turn, 0)}) /\ Side({TurnSeq(base, turn, 1)})
           /\ Side({TurnSeq(base, turn, 2)}) /\ Side({DedupeSeq(base)})
<1>1. \A s : s \in Int /\ 1 < s /\ s < 20000000 => Side({s})
  BY SMT DEF Side, RunRow, GenerationSeq, PersistSeq
<1>2. base \in Nat /\ base <= 4800000
  BY SMT DEF AttemptBase, PackStride, QuestionStride, DuplicateStride
<1>3. /\ \A k \in 0..2 : /\ TurnSeq(base, turn, k) \in Int /\ 1 < TurnSeq(base, turn, k)
                         /\ TurnSeq(base, turn, k) < 20000000
      /\ DedupeSeq(base) \in Int /\ 1 < DedupeSeq(base) /\ DedupeSeq(base) < 20000000
  BY <1>2, SMT DEF TurnSeq, DedupeSeq, GenerationBase, TurnStride, DedupeOffset
<1>4. 0 \in 0..2 /\ 1 \in 0..2 /\ 2 \in 0..2
  OBVIOUS
<1>5. \A k \in 0..2 : Side({TurnSeq(base, turn, k)})
  BY <1>1, <1>3
<1>6. Side({DedupeSeq(base)})
  BY <1>1, <1>3
<1> QED BY <1>4, <1>5, <1>6

LEMMA SideAsking ==
    ASSUME IInv, NEW a \in Attempts, phase[a] \in Asking
    PROVE  /\ Side({ModelSeq(a)}) /\ Side({ValidationSeq(a)}) /\ Side({EvidenceSeq(a)})
           /\ Side({DedupeSeq(Base(a))}) /\ Side({})
<1>1. /\ at[a].pack \in 0..4 /\ at[a].question \in 0..4
      /\ at[a].dup \in 0..2 /\ at[a].turn \in 1..8
      /\ Base(a) = AttemptBase(at[a].pack, at[a].question, at[a].dup)
  BY QuestionNumbers
<1>2. /\ Side({TurnSeq(Base(a), at[a].turn, 0)}) /\ Side({TurnSeq(Base(a), at[a].turn, 1)})
      /\ Side({TurnSeq(Base(a), at[a].turn, 2)}) /\ Side({DedupeSeq(Base(a))})
  BY <1>1, SideQuestion
<1> QED BY <1>2 DEF ModelSeq, ValidationSeq, EvidenceSeq, Side

LEMMA SideInspecting ==
    ASSUME IInv, NEW a \in Attempts, phase[a] \in {"inspect", "tools"}
    PROVE  Side({PlanSeq(at[a].pack)}) /\ Side({CallSeq(a)}) /\ Side({})
<1>1. PICK p \in 0..4 : p = at[a].pack
  BY InspectionNumbers
<1>2. PICK n \in Nat : n = at[a].used /\ n <= 99909
  <2>1. /\ at[a].used \in Nat /\ at[a].calls \in Nat
        /\ at[a].used + at[a].calls <= job.payload.calls
    BY InspectionNumbers
  <2>2. job.payload.calls \in Nat /\ job.payload.calls <= 99900
    BY PlanBounds DEF Looping
  <2>3. at[a].used <= 99909
    BY <2>1, <2>2
  <2> QED BY <2>1, <2>3
<1>3. Side({PlanSeq(p)}) /\ Side({InspectionSeq(p, n)})
  BY <1>2, SidePlan, SideCall
<1> QED BY <1>1, <1>2, <1>3 DEF CallSeq, Side

-----------------------------------------------------------------------------
(* What each step of a generation leaves open.                               *)

LEMMA InspectionEndsOpen ==
    ASSUME IInv, Framed, NEW a \in Attempts, OpenInv(a), phase[a] \in {"inspect", "tools"},
           NEW new, NEW rows, InspectionFails(a, new, rows), EndedBut(new, rows), Side(rows)
    PROVE  OpenInv(a)'
<1>1. phase[a] \in Looping /\ Loose(a) \subseteq {GenerationSeq, PlanSeq(at[a].pack)}
  BY DEF OpenInv, LooseAt, Looping
<1>2. CASE RunFails(a, new, Mark(a, PlanSeq(at[a].pack), "FAILED"), rows)
  <2>1. DOMAIN Mark(a, PlanSeq(at[a].pack), "FAILED") = {PlanSeq(at[a].pack)}
        /\ Ended(Mark(a, PlanSeq(at[a].pack), "FAILED"))
    BY EndedMark DEF Final
  <2> QED BY <1>1, <1>2, <2>1, RunFailsOpen
<1>3. CASE RunFails(a, new, NoSteps, rows \union {PlanSeq(at[a].pack)})
  <2>1. PICK all : all = rows \union {PlanSeq(at[a].pack)}
    OBVIOUS
  <2>2. Side(all) /\ EndedBut(new, all)
    BY <2>1, SideInspecting DEF Side, EndedBut
  <2>3. Loose(a) \subseteq DOMAIN NoSteps \cup {GenerationSeq} \cup all
    BY <1>1, <2>1
  <2> QED BY <1>1, <1>3, <2>1, <2>2, <2>3, RunFailsOpen, EndedSteps
<1> QED BY <1>2, <1>3 DEF InspectionFails

\* Inspections, questions and insertions.
LEMMA InspectionOpen ==
    ASSUME IInv, Framed, NEW a \in Attempts, OpenInv(a),
           InspectModel(a) \/ InspectBreaks(a) \/ InspectLate(a) \/ ToolBreaks(a)
    PROVE  OpenInv(a)'
<1>1. phase[a] \in {"inspect", "tools"}
  BY DEF InspectModel, InspectBreaks, InspectLate, ToolBreaks
<1>2. Side({CallSeq(a)}) /\ Side({})
  BY <1>1, SideInspecting
<1>3. ASSUME NEW new, Ended(new), InspectionFails(a, new, {}) PROVE OpenInv(a)'
  <2>1. EndedBut(new, {})
    BY <1>3 DEF Ended, EndedBut
  <2> QED BY <1>1, <1>2, <1>3, <2>1, InspectionEndsOpen
<1>4. ASSUME NEW kind, NEW new \in Torn(CallSeq(a), kind), InspectionFails(a, new, {CallSeq(a)})
      PROVE  OpenInv(a)'
  <2>1. EndedBut(new, {CallSeq(a)})
    BY TornSteps
  <2> QED BY <1>1, <1>2, <1>4, <2>1, InspectionEndsOpen
<1>5. CASE InspectModel(a)
  <2>1. PICK status \in Final : InspectionFails(a, One(CallSeq(a), Step("inspect", status)), {})
    BY <1>5 DEF InspectModel
  <2> QED BY <1>3, <2>1, EndedSteps
<1>6. CASE InspectBreaks(a)
  BY <1>4, <1>6 DEF InspectBreaks
<1>7. CASE InspectLate(a)
  BY <1>3, <1>7, EndedSteps DEF InspectLate
<1>8. CASE ToolBreaks(a)
  <2>1. PICK kind : \/ InspectionFails(a, One(CallSeq(a), Step(kind, "FAILED")), {})
                    \/ \E new \in Torn(CallSeq(a), kind) : InspectionFails(a, new, {CallSeq(a)})
    BY <1>8 DEF ToolBreaks, ToolStep
  <2>2. "FAILED" \in Final
    BY DEF Final
  <2> QED BY <1>3, <1>4, <2>1, <2>2, EndedSteps
<1> QED BY <1>5, <1>6, <1>7, <1>8

LEMMA PackOpen ==
    ASSUME IInv, Framed, NEW a \in Attempts, OpenInv(a), job.type = "generate_test",
           \/ StartRun(a) \/ StartBreaks(a) \/ PackUnreadable(a) \/ NothingGenerated(a)
           \/ PlanBreaks(a) \/ BeginPack(a)
    PROVE  OpenInv(a)'
<1>1. CASE StartRun(a)
  <2>1. phase[a] = "start" /\ Loose(a) = {}
    BY <1>1 DEF StartRun, IInv, Placed, Loose, Open
  <2>2. /\ phase'[a] = "pack" /\ run'[a] = "RUNNING" /\ torn' = torn /\ job' = job
        /\ Write(a, One(GenerationSeq, GenerationStep), NoSteps)
    BY <1>1 DEF StartRun, Go, Framed
  <2>3. Loose(a)' \subseteq {GenerationSeq}
    <3>1. PICK x : x = {GenerationSeq}
      OBVIOUS
    <3>2. EndedBut(One(GenerationSeq, GenerationStep), x)
      BY <3>1, EndedButSteps
    <3>3. Loose(a)' \subseteq x
      BY <2>1, <2>2, <3>2, GoesOpen, EndedSteps
    <3> QED BY <3>1, <3>3
  <2>4. TornInv(a)'
    BY <2>1, <2>2, TornKept
  <2> QED BY <2>2, <2>3, <2>4 DEF OpenInv, LooseAt, Final
<1>2. CASE StartBreaks(a)
  BY <1>2, LeaveOpen DEF StartBreaks
<1>3. CASE PackUnreadable(a) \/ NothingGenerated(a)
  <2>1. /\ RunFails(a, NoSteps, NoSteps, {}) /\ Loose(a) \subseteq {GenerationSeq}
        /\ phase[a] \in Looping
    BY <1>3 DEF PackUnreadable, NothingGenerated, OpenInv, LooseAt, Looping
  <2>2. Side({})
    BY DEF Side
  <2> QED BY <2>1, <2>2, RunFailsOpen, EndedSteps, EndedButSteps
<1>4. CASE PlanBreaks(a)
  <2>1. PICK new \in Torn(PlanSeq(at[a].pack), "plan") :
            RunFails(a, new, NoSteps, {PlanSeq(at[a].pack)})
    BY <1>4 DEF PlanBreaks
  <2>2. /\ phase[a] \in Looping /\ Loose(a) \subseteq {GenerationSeq}
        /\ at[a].pack \in 0..4
    BY <1>4, PackNumbers DEF PlanBreaks, OpenInv, LooseAt, Looping
  <2>3. Side({PlanSeq(at[a].pack)})
    BY <2>2, SidePlan
  <2>4. EndedBut(new, {PlanSeq(at[a].pack)})
    BY TornSteps
  <2> QED BY <2>1, <2>2, <2>3, <2>4, RunFailsOpen, EndedSteps
<1>5. CASE BeginPack(a)
  <2>1. /\ phase[a] = "pack" /\ phase[a] \in Live /\ run'[a] = "RUNNING" /\ torn' = torn
        /\ job' = job /\ Loose(a) \subseteq {GenerationSeq}
    BY <1>5 DEF BeginPack, OpenInv, LooseAt, Live, Looping
  <2>2. TornInv(a)'
    BY <2>1, TornKept
  <2>3. CASE job.payload.indexed /\ phase' = [phase EXCEPT ![a] = "inspect"]
    <3>1. /\ Write(a, One(PlanSeq(at[a].pack), PlanStep), NoSteps)
          /\ phase'[a] = "inspect" /\ at'[a].pack = at[a].pack
      BY <1>5, <2>3 DEF BeginPack, Framed, IInv, Shapes, LoopFields
    <3>2. PICK x : x = {GenerationSeq, PlanSeq(at[a].pack)}
      OBVIOUS
    <3>3. EndedBut(One(PlanSeq(at[a].pack), PlanStep), x)
      BY <3>2, EndedButSteps
    <3>4. Loose(a)' \subseteq x
      BY <2>1, <3>1, <3>2, <3>3, GoesOpen, EndedSteps
    <3> QED BY <2>1, <2>2, <3>1, <3>2, <3>4 DEF OpenInv, LooseAt, Final
  <2>4. CASE steps' = steps /\ phase' = [phase EXCEPT ![a] = "generate"]
    BY <2>1, <2>2, <2>4, LooseKept DEF Framed, OpenInv, LooseAt, Final
  <2> QED BY <1>5, <2>3, <2>4 DEF BeginPack, Go
<1> QED BY <1>1, <1>2, <1>3, <1>4, <1>5

LEMMA CallsOpen ==
    ASSUME IInv, Framed, NEW a \in Attempts, OpenInv(a), job.type = "generate_test",
           RequestTools(a) \/ CallTool(a) \/ FinishInspection(a)
    PROVE  OpenInv(a)'
<1>1. PICK x : x = {GenerationSeq, PlanSeq(at[a].pack)}
  OBVIOUS
<1>2. /\ phase[a] \in Live /\ run[a] = "RUNNING" /\ run' = run /\ torn' = torn /\ job' = job
      /\ Loose(a) \subseteq x
  BY <1>1 DEF RequestTools, CallTool, FinishInspection, OpenInv, LooseAt, Live, Looping
<1>3. TornInv(a)'
  BY <1>2, TornKept
<1>4. ASSUME NEW kind, NEW status \in Final, NEW seq, NEW updated,
             Write(a, One(seq, Step(kind, status)), updated),
             Ended(updated)
      PROVE  Loose(a)' \subseteq x \ DOMAIN updated
  <2>1. PICK y : y = x \ DOMAIN updated
    OBVIOUS
  <2>2. EndedBut(One(seq, Step(kind, status)), y)
    BY <1>4, EndedButSteps
  <2>3. Loose(a)' \subseteq y
    BY <1>2, <1>4, <2>1, <2>2, GoesOpen
  <2> QED BY <2>1, <2>3
<1>5. CASE RequestTools(a) \/ CallTool(a)
  <2>1. phase'[a] \in {"inspect", "tools"} /\ at'[a].pack = at[a].pack
    BY <1>5 DEF RequestTools, CallTool, Go, Framed, IInv, Shapes, LoopFields
  <2>2. \/ steps' = steps
        \/ \E kind, seq : \E status \in Final : Write(a, One(seq, Step(kind, status)), NoSteps)
    <3>1. CASE RequestTools(a)
      <4>1. Write(a, One(CallSeq(a), Step("inspect", "SUCCEEDED")), NoSteps)
        BY <3>1, Zenon DEF RequestTools
      <4> QED BY <4>1 DEF Final
    <3>2. CASE CallTool(a)
      BY <3>2, Zenon DEF CallTool, ToolStep
    <3> QED BY <1>5, <3>1, <3>2
  <2>3. Loose(a)' \subseteq x
    BY <1>2, <1>4, <2>2, LooseKept, EndedSteps, StepShapes
  <2> QED BY <1>1, <1>2, <1>3, <2>1, <2>3 DEF OpenInv, LooseAt, Final
<1>6. CASE FinishInspection(a)
  <2>1. /\ phase'[a] = "generate"
        /\ Write(a, One(CallSeq(a), Step("inspect", "SUCCEEDED")),
                 Mark(a, PlanSeq(at[a].pack), "SUCCEEDED"))
    BY <1>6 DEF FinishInspection, Go, Framed
  <2>2. /\ DOMAIN Mark(a, PlanSeq(at[a].pack), "SUCCEEDED") = {PlanSeq(at[a].pack)}
        /\ Ended(Mark(a, PlanSeq(at[a].pack), "SUCCEEDED"))
    BY EndedMark DEF Final
  <2>3. Loose(a)' \subseteq {GenerationSeq}
    BY <1>1, <1>4, <2>1, <2>2 DEF Final
  <2> QED BY <1>2, <1>3, <2>1, <2>3 DEF OpenInv, LooseAt, Final
<1> QED BY <1>5, <1>6

\* Where a question that failed, or is asked again, leads.
LEMMA QuestionGoes ==
    ASSUME Framed, NEW a \in Attempts, NEW new, NEW updated, NEW rows
    PROVE  /\ QuestionFails(a, new, updated, rows) =>
                  /\ phase'[a] \in {"generate", "pack"} /\ run' = run /\ job' = job
                  /\ Write(a, new, updated) /\ torn'[a] = torn[a] \cup rows
           /\ \A r, g : AskAgain(a, updated, r, g) =>
                  /\ phase'[a] = "generate" /\ run' = run /\ job' = job /\ torn' = torn
                  /\ Write(a, NoSteps, updated)
    BY DEF Framed, QuestionFails, Advance, AskAgain, Go, Tear

\* A question fails with its step finished, or torn.
LEMMA QuestionFailsOpen ==
    ASSUME IInv, Framed, NEW a \in Attempts, phase[a] \in Asking, OpenInv(a),
           NEW new, NEW updated, NEW rows, QuestionFails(a, new, updated, rows),
           EndedBut(new, rows), Ended(updated), Side(rows),
           phase[a] = "validate" => ValidationSeq(a) \in DOMAIN updated \cup rows,
           phase[a] = "verify" => EvidenceSeq(a) \in DOMAIN updated \cup rows
    PROVE  OpenInv(a)'
<1>1. /\ phase'[a] \in {"generate", "pack", "dedupe"} /\ run' = run /\ job' = job
      /\ Write(a, new, updated) /\ torn'[a] = torn[a] \cup rows
  BY QuestionGoes
<1> QED BY <1>1, QuestionOpen

\* A question goes on without tearing a row.
LEMMA QuestionAgainOpen ==
    ASSUME IInv, Framed, NEW a \in Attempts, phase[a] \in Asking, OpenInv(a),
           NEW new, NEW updated, Write(a, new, updated), run' = run, job' = job, torn' = torn,
           phase'[a] \in {"generate", "pack", "dedupe"}, Ended(new), Ended(updated),
           phase[a] = "validate" => ValidationSeq(a) \in DOMAIN updated,
           phase[a] = "verify" => EvidenceSeq(a) \in DOMAIN updated
    PROVE  OpenInv(a)'
<1>1. PICK rows : rows = {}
  OBVIOUS
<1>2. Side(rows) /\ EndedBut(new, rows) /\ torn'[a] = torn[a] \cup rows
  BY <1>1, EndedButSteps DEF Side
<1> QED BY <1>2, QuestionOpen

LEMMA AskOpen ==
    ASSUME IInv, Framed, NEW a \in Attempts, OpenInv(a),
           AskFails(a) \/ AskLate(a) \/ AskBreaks(a) \/ AskModel(a)
    PROVE  OpenInv(a)'
<1>1. /\ phase[a] = "generate" /\ phase[a] \in Asking /\ phase[a] \in Live
      /\ run[a] = "RUNNING" /\ Loose(a) \subseteq {GenerationSeq}
  BY DEF AskFails, AskLate, AskBreaks, AskModel, OpenInv, LooseAt, Live, Looping, Asking
<1>2. Side({ModelSeq(a)}) /\ Side({ValidationSeq(a)}) /\ Side({})
  BY <1>1, SideAsking
<1>3. ASSUME NEW new, NEW rows, QuestionFails(a, new, NoSteps, rows), EndedBut(new, rows),
             Side(rows)
      PROVE  OpenInv(a)'
  BY <1>1, <1>3, EndedSteps, QuestionFailsOpen
<1>4. CASE AskFails(a)
  <2>1. PICK status \in Final :
            QuestionFails(a, One(ModelSeq(a), Step("model", status)), NoSteps, {})
    BY <1>4 DEF AskFails
  <2> QED BY <1>2, <1>3, <2>1, EndedButSteps
<1>5. CASE AskLate(a)
  BY <1>2, <1>3, <1>5, EndedButSteps DEF AskLate
<1>6. CASE AskBreaks(a)
  <2>1. ASSUME NEW new \in Torn(ModelSeq(a), "model"),
               QuestionFails(a, new, NoSteps, {ModelSeq(a)})
        PROVE  OpenInv(a)'
    <3>1. EndedBut(new, {ModelSeq(a)})
      BY TornSteps
    <3> QED BY <1>2, <1>3, <2>1, <3>1
  <2>2. ASSUME NEW lost \in Torn(ValidationSeq(a), "validate"),
               QuestionFails(a, Over(One(ModelSeq(a), Step("model", "SUCCEEDED")), lost),
                             NoSteps, {ValidationSeq(a)})
        PROVE  OpenInv(a)'
    <3> DEFINE new == Over(One(ModelSeq(a), Step("model", "SUCCEEDED")), lost)
    <3>1. EndedBut(lost, {ValidationSeq(a)})
      BY TornSteps
    <3>2. EndedBut(new, {ValidationSeq(a)})
      <4> SUFFICES ASSUME NEW s \in DOMAIN new, new[s].status = "RUNNING"
                   PROVE  s \in {ValidationSeq(a)}
        BY DEF EndedBut
      <4>1. CASE s = ModelSeq(a)
        BY <4>1 DEF Over, One, Step
      <4>2. CASE s # ModelSeq(a)
        <5>1. s \in DOMAIN lost /\ new[s] = lost[s]
          BY <4>2 DEF Over, One
        <5> QED BY <3>1, <5>1 DEF EndedBut
      <4> QED BY <4>1, <4>2
    <3>3. QuestionFails(a, new, NoSteps, {ValidationSeq(a)})
      BY <2>2
    <3> HIDE DEF new
    <3> QED BY <1>2, <1>3, <3>2, <3>3
  <2> QED BY <1>6, <2>1, <2>2 DEF AskBreaks
<1>7. CASE AskModel(a)
  <2> DEFINE new == Over(One(ModelSeq(a), Step("model", "SUCCEEDED")),
                         One(ValidationSeq(a), Step("validate", "RUNNING")))
  <2>1. /\ Write(a, new, NoSteps) /\ phase'[a] = "validate" /\ run' = run /\ torn' = torn
        /\ job' = job /\ at' = at
    BY <1>7 DEF AskModel, Go, Framed
  <2>2. PICK x : x = {GenerationSeq, ValidationSeq(a)}
    OBVIOUS
  <2>3. EndedBut(new, x)
    BY <2>2 DEF EndedBut, Over, One, Step
  <2> HIDE DEF new
  <2>4. Loose(a)' \subseteq x
    BY <1>1, <2>1, <2>2, <2>3, GoesOpen, EndedSteps
  <2>5. ValidationSeq(a)' = ValidationSeq(a)
    BY <2>1 DEF ValidationSeq, Base
  <2>6. TornInv(a)'
    BY <1>1, <2>1, TornKept
  <2> QED BY <1>1, <2>1, <2>2, <2>4, <2>5, <2>6 DEF OpenInv, LooseAt, Final
<1> QED BY <1>4, <1>5, <1>6, <1>7

LEMMA OutputOpen ==
    ASSUME IInv, Framed, NEW a \in Attempts, OpenInv(a),
           ValidOutput(a) \/ InvalidOutput(a) \/ ValidationBreaks(a)
    PROVE  OpenInv(a)'
<1>1. /\ phase[a] = "validate" /\ phase[a] \in Asking /\ phase[a] \in Live
      /\ run[a] = "RUNNING" /\ Loose(a) \subseteq {GenerationSeq, ValidationSeq(a)}
  BY DEF ValidOutput, InvalidOutput, ValidationBreaks, OpenInv, LooseAt, Live, Looping, Asking
<1>2. /\ DOMAIN Mark(a, ValidationSeq(a), "FAILED") = {ValidationSeq(a)}
      /\ DOMAIN Mark(a, ValidationSeq(a), "SUCCEEDED") = {ValidationSeq(a)}
      /\ Ended(Mark(a, ValidationSeq(a), "FAILED"))
      /\ Ended(Mark(a, ValidationSeq(a), "SUCCEEDED"))
  BY EndedMark DEF Final
<1>3. Side({ValidationSeq(a)}) /\ Side({EvidenceSeq(a)}) /\ Side({})
  BY <1>1, SideAsking
<1>4. CASE ValidOutput(a)
  <2>1. /\ Write(a, One(EvidenceSeq(a), Step("evidence", "RUNNING")),
                 Mark(a, ValidationSeq(a), "SUCCEEDED"))
        /\ phase'[a] = "verify" /\ run' = run /\ at' = at /\ torn' = torn /\ job' = job
    BY <1>4 DEF ValidOutput, Go, Framed
  <2>2. PICK x : x = {GenerationSeq, EvidenceSeq(a)}
    OBVIOUS
  <2>3. EndedBut(One(EvidenceSeq(a), Step("evidence", "RUNNING")), x)
    BY <2>2, EndedButSteps
  <2>4. Loose(a)' \subseteq x
    BY <1>1, <1>2, <2>1, <2>2, <2>3, GoesOpen
  <2>5. EvidenceSeq(a)' = EvidenceSeq(a)
    BY <2>1 DEF EvidenceSeq, Base
  <2>6. TornInv(a)'
    BY <1>1, <2>1, TornKept
  <2> QED BY <1>1, <2>1, <2>2, <2>4, <2>5, <2>6 DEF OpenInv, LooseAt, Final
<1>5. CASE InvalidOutput(a)
  <2>1. PICK updated : updated = Mark(a, ValidationSeq(a), "FAILED")
    OBVIOUS
  <2>2. Ended(updated) /\ DOMAIN updated = {ValidationSeq(a)}
    BY <1>2, <2>1
  <2>3. QuestionFails(a, NoSteps, updated, {}) \/ \E r, g : AskAgain(a, updated, r, g)
    BY <1>5, <2>1 DEF InvalidOutput
  <2>4. CASE QuestionFails(a, NoSteps, updated, {})
    BY <1>1, <1>3, <2>2, <2>4, EndedButSteps, QuestionFailsOpen
  <2>5. CASE \E r, g : AskAgain(a, updated, r, g)
    <3>1. /\ phase'[a] = "generate" /\ run' = run /\ job' = job /\ torn' = torn
          /\ Write(a, NoSteps, updated)
      BY <2>5, QuestionGoes
    <3> QED BY <1>1, <2>2, <3>1, EndedSteps, QuestionAgainOpen
  <2> QED BY <2>3, <2>4, <2>5
<1>6. CASE ValidationBreaks(a)
  <2>1. CASE QuestionFails(a, NoSteps, NoSteps, {ValidationSeq(a)})
    BY <1>1, <1>3, <2>1, EndedSteps, EndedButSteps, QuestionFailsOpen
  <2>2. ASSUME NEW new \in Torn(EvidenceSeq(a), "evidence"),
               QuestionFails(a, new, Mark(a, ValidationSeq(a), "SUCCEEDED"), {EvidenceSeq(a)})
        PROVE  OpenInv(a)'
    <3>1. EndedBut(new, {EvidenceSeq(a)})
      BY TornSteps
    <3> QED BY <1>1, <1>2, <1>3, <2>2, <3>1, QuestionFailsOpen
  <2> QED BY <1>6, <2>1, <2>2 DEF ValidationBreaks
<1> QED BY <1>4, <1>5, <1>6

LEMMA EvidenceOpen ==
    ASSUME IInv, Framed, NEW a \in Attempts, OpenInv(a),
           ValidEvidence(a) \/ InvalidEvidence(a) \/ EvidenceBreaks(a)
    PROVE  OpenInv(a)'
<1>1. phase[a] = "verify" /\ phase[a] \in Asking
  BY DEF ValidEvidence, InvalidEvidence, EvidenceBreaks, Asking
<1>2. /\ DOMAIN Mark(a, EvidenceSeq(a), "FAILED") = {EvidenceSeq(a)}
      /\ DOMAIN Mark(a, EvidenceSeq(a), "SUCCEEDED") = {EvidenceSeq(a)}
      /\ Ended(Mark(a, EvidenceSeq(a), "FAILED"))
      /\ Ended(Mark(a, EvidenceSeq(a), "SUCCEEDED"))
  BY EndedMark DEF Final
<1>3. Side({EvidenceSeq(a)}) /\ Side({})
  BY <1>1, SideAsking
<1>4. CASE ValidEvidence(a)
  <2>1. /\ Write(a, NoSteps, Mark(a, EvidenceSeq(a), "SUCCEEDED"))
        /\ phase'[a] = "dedupe" /\ run' = run /\ job' = job /\ torn' = torn
    BY <1>4 DEF ValidEvidence, Go, Framed
  <2> QED BY <1>1, <1>2, <2>1, EndedSteps, QuestionAgainOpen
<1>5. CASE InvalidEvidence(a)
  <2>1. PICK updated : updated = Mark(a, EvidenceSeq(a), "FAILED")
    OBVIOUS
  <2>2. Ended(updated) /\ DOMAIN updated = {EvidenceSeq(a)}
    BY <1>2, <2>1
  <2>3. QuestionFails(a, NoSteps, updated, {}) \/ \E r, g : AskAgain(a, updated, r, g)
    BY <1>5, <2>1 DEF InvalidEvidence
  <2>4. CASE QuestionFails(a, NoSteps, updated, {})
    BY <1>1, <1>3, <2>2, <2>4, EndedButSteps, QuestionFailsOpen
  <2>5. CASE \E r, g : AskAgain(a, updated, r, g)
    <3>1. /\ phase'[a] = "generate" /\ run' = run /\ job' = job /\ torn' = torn
          /\ Write(a, NoSteps, updated)
      BY <2>5, QuestionGoes
    <3> QED BY <1>1, <2>2, <3>1, EndedSteps, QuestionAgainOpen
  <2> QED BY <2>3, <2>4, <2>5
<1>6. CASE EvidenceBreaks(a)
  BY <1>1, <1>3, <1>6, EndedSteps, EndedButSteps, QuestionFailsOpen DEF EvidenceBreaks
<1> QED BY <1>4, <1>5, <1>6

LEMMA DedupeOpen ==
    ASSUME IInv, Framed, NEW a \in Attempts, OpenInv(a),
           AcceptQuestion(a) \/ ArtifactFails(a) \/ RejectDuplicate(a) \/ RejectBreaks(a)
    PROVE  OpenInv(a)'
<1>1. /\ phase[a] = "dedupe" /\ phase[a] \in Asking /\ phase[a] \in Live
      /\ run[a] = "RUNNING" /\ "FAILED" \in Final
  BY DEF AcceptQuestion, ArtifactFails, RejectDuplicate, RejectBreaks, OpenInv, Live, Looping,
         Asking, Final
<1>2. Side({DedupeSeq(Base(a))}) /\ Side({})
  BY <1>1, SideAsking
<1>3. CASE AcceptQuestion(a)
  <2>1. /\ phase'[a] \in {"generate", "pack"} /\ run' = run /\ steps' = steps /\ torn' = torn
        /\ job' = job
    BY <1>3 DEF AcceptQuestion, Advance, Go, Framed
  <2>2. TornInv(a)'
    BY <1>1, <2>1, TornKept
  <2> QED BY <1>1, <2>1, <2>2, LooseKept DEF OpenInv, LooseAt, Final
<1>4. CASE ArtifactFails(a)
  BY <1>1, <1>2, <1>4, EndedSteps, EndedButSteps, QuestionFailsOpen DEF ArtifactFails
<1>5. CASE RejectDuplicate(a)
  <2>1. PICK rejected : rejected = One(DedupeSeq(Base(a)), Step("dedupe", "FAILED"))
    OBVIOUS
  <2>2. Ended(rejected) /\ EndedBut(rejected, {})
    BY <1>1, <2>1, EndedSteps, EndedButSteps
  <2>3. CASE QuestionFails(a, rejected, NoSteps, {})
    BY <1>1, <1>2, <2>2, <2>3, EndedSteps, QuestionFailsOpen
  <2>4. CASE ~QuestionFails(a, rejected, NoSteps, {})
    <3>1. /\ Write(a, rejected, NoSteps) /\ run' = run /\ job' = job /\ torn' = torn
          /\ phase'[a] = "generate"
      BY <1>5, <2>1, <2>4 DEF RejectDuplicate, DuplicateStep, Go, Framed
    <3> QED BY <1>1, <2>2, <3>1, EndedSteps, QuestionAgainOpen
  <2> QED BY <2>3, <2>4
<1>6. CASE RejectBreaks(a)
  <2>1. PICK new \in Torn(DedupeSeq(Base(a)), "dedupe") :
            QuestionFails(a, new, NoSteps, {DedupeSeq(Base(a))})
    BY <1>6 DEF RejectBreaks
  <2>2. EndedBut(new, {DedupeSeq(Base(a))})
    BY TornSteps
  <2> QED BY <1>1, <1>2, <2>1, <2>2, EndedSteps, QuestionFailsOpen
<1> QED BY <1>3, <1>4, <1>5, <1>6

LEMMA InsertionOpen ==
    ASSUME IInv, Framed, NEW a \in Attempts, OpenInv(a), job.type = "generate_test",
           \/ BeginPersist(a) \/ PersistBreaks(a) \/ InsertTests(a) \/ InsertFails(a)
           \/ FinishRun(a) \/ FinishBreaks(a)
    PROVE  OpenInv(a)'
<1>1. phase[a] \in Live /\ run[a] = "RUNNING" /\ {"FAILED", "SUCCEEDED"} \subseteq Final
  BY DEF BeginPersist, PersistBreaks, InsertTests, InsertFails, FinishRun, FinishBreaks,
         OpenInv, Live, Looping, Final
<1>2. CASE PersistBreaks(a) \/ FinishBreaks(a)
  BY <1>2, LeaveOpen DEF PersistBreaks, FinishBreaks
<1>3. CASE BeginPersist(a)
  <2>1. /\ Write(a, One(PersistSeq, PersistStep), Mark(a, GenerationSeq, "SUCCEEDED"))
        /\ phase'[a] = "persist" /\ run' = run /\ torn' = torn /\ job' = job
        /\ Loose(a) \subseteq {GenerationSeq}
    BY <1>3 DEF BeginPersist, Go, Framed, OpenInv, LooseAt
  <2>2. PICK x : x = {PersistSeq}
    OBVIOUS
  <2>3. /\ EndedBut(One(PersistSeq, PersistStep), x)
        /\ DOMAIN Mark(a, GenerationSeq, "SUCCEEDED") = {GenerationSeq}
        /\ Ended(Mark(a, GenerationSeq, "SUCCEEDED"))
    BY <1>1, <2>2, EndedMark, EndedButSteps
  <2>4. Loose(a)' \subseteq x
    BY <2>1, <2>2, <2>3, GoesOpen
  <2>5. TornInv(a)'
    BY <1>1, <2>1, TornKept
  <2> QED BY <1>1, <2>1, <2>2, <2>4, <2>5 DEF OpenInv, LooseAt, Final
<1>4. CASE InsertTests(a)
  <2>1. TornInv(a)' /\ Loose(a)' = Loose(a)
    BY <1>1, <1>4, TornKept, LooseKept DEF InsertTests
  <2> QED BY <1>1, <1>4, <2>1 DEF InsertTests, Go, Framed, OpenInv, LooseAt, Final
<1>5. CASE InsertFails(a)
  <2>1. /\ EndInFailure(a, NoSteps, NoSteps, Mark(a, PersistSeq, "FAILED"), {})
        /\ job' = job /\ Loose(a) \subseteq {PersistSeq}
    BY <1>5 DEF InsertFails, EndInFailure, Raise, OpenInv, LooseAt
  <2>2. DOMAIN Mark(a, PersistSeq, "FAILED") = {PersistSeq}
        /\ Ended(Mark(a, PersistSeq, "FAILED"))
    BY <1>1, EndedMark
  <2>3. TornInv(a) /\ RunRow \notin torn[a] /\ Side({})
    BY <1>1 DEF OpenInv, TornInv, Side, Live, Looping, Asking, Quit
  <2> QED BY <2>1, <2>2, <2>3, EndedSteps, EndedButSteps, FailsOpen
<1>6. CASE FinishRun(a)
  <2>1. /\ Write(a, NoSteps, Mark(a, PersistSeq, "SUCCEEDED")) /\ torn' = torn /\ job' = job
        /\ phase'[a] = "report" /\ Loose(a) \subseteq {PersistSeq}
    BY <1>6 DEF FinishRun, Go, Framed, OpenInv, LooseAt
  <2>2. PICK x : x = {}
    OBVIOUS
  <2>3. DOMAIN Mark(a, PersistSeq, "SUCCEEDED") = {PersistSeq}
        /\ Ended(Mark(a, PersistSeq, "SUCCEEDED"))
    BY <1>1, EndedMark
  <2>4. Loose(a)' \subseteq x
    BY <2>1, <2>2, <2>3, EndedButSteps, GoesOpen
  <2>5. TornInv(a)'
    BY <1>1, <2>1, TornKept
  <2> QED BY <2>1, <2>2, <2>4, <2>5 DEF OpenInv, LooseAt, Live, Looping, Asking
<1> QED BY <1>2, <1>3, <1>4, <1>5, <1>6

\* A judging fails with the step its handler holds finished, or torn.
LEMMA JudgingFailsOpen ==
    ASSUME Framed, NEW a \in Attempts, OpenInv(a), job.type = "judge_answer",
           phase[a] \in Live \cup {"start"}, job' = job,
           NEW new, NEW updated, NEW closing, NEW rows,
           EndInFailure(a, new, updated, closing, rows),
           EndedBut(new, rows), Ended(updated), Ended(closing), RunRow \notin rows,
           Loose(a) \subseteq DOMAIN updated \cup DOMAIN closing \cup rows
    PROVE  OpenInv(a)'
<1>1. TornInv(a) /\ RunRow \notin torn[a]
  BY DEF OpenInv, TornInv, Live, Looping, Asking, Quit
<1> QED BY <1>1, FailsOpen

LEMMA JudgingOpen ==
    ASSUME IInv, Framed, NEW a \in Attempts, OpenInv(a), job.type = "judge_answer", JudgeStep(a)
    PROVE  OpenInv(a)'
<1>1. "FAILED" \in Final /\ "SUCCEEDED" \in Final /\ "RUNNING" \notin Final
  BY DEF Final
<1>2. /\ RunRow \notin {} /\ RunRow \notin {JudgeSeq} /\ RunRow \notin {SaveSeq}
      /\ phase[a] = "start" => Loose(a) = {}
      /\ phase[a] = "judge" => Loose(a) \subseteq {JudgeSeq}
      /\ phase[a] = "judged" => Loose(a) \subseteq {SaveSeq}
      /\ phase[a] = "inserted" => Loose(a) \subseteq {SaveSeq}
      /\ phase[a] = "learned" => Loose(a) \subseteq {SaveSeq}
      /\ {"judge", "judged", "inserted", "learned", "saved"} \subseteq Live
      /\ phase[a] \in Live => run[a] = "RUNNING"
  BY DEF IInv, Placed, Loose, Open, OpenInv, LooseAt, Live, RunRow, JudgeSeq, SaveSeq
<1>3. ASSUME NEW seq, NEW rows, RunRow \notin rows, Loose(a) \subseteq {seq}, phase[a] \in Live,
             JudgingFails(a, Mark(a, seq, "FAILED"), rows)
      PROVE  OpenInv(a)'
  <2>1. DOMAIN Mark(a, seq, "FAILED") = {seq} /\ Ended(Mark(a, seq, "FAILED"))
    BY <1>1, EndedMark
  <2>2. EndInFailure(a, NoSteps, NoSteps, Mark(a, seq, "FAILED"), rows) /\ job' = job
    BY <1>3 DEF JudgingFails, EndInFailure, Raise
  <2> QED BY <1>3, <2>1, <2>2, EndedSteps, EndedButSteps, JudgingFailsOpen
<1>4. CASE StartJudging(a)
  <2>1. /\ phase[a] = "start" /\ phase'[a] = "judge" /\ run'[a] = "RUNNING" /\ torn' = torn
        /\ job' = job /\ Write(a, One(JudgeSeq, NewJudgeStep), NoSteps)
    BY <1>4 DEF StartJudging, Go, Framed
  <2>2. PICK x : x = {JudgeSeq}
    OBVIOUS
  <2>3. EndedBut(One(JudgeSeq, NewJudgeStep), x)
    BY <2>2, EndedButSteps
  <2>4. Loose(a)' \subseteq x
    BY <1>2, <2>1, <2>3, GoesOpen, EndedSteps
  <2>5. TornInv(a)'
    BY <2>1, TornKept
  <2> QED BY <1>1, <2>1, <2>2, <2>4, <2>5 DEF OpenInv, LooseAt
<1>5. CASE StartJudgingBreaks(a)
  <2>1. CASE LeaveRunning(a, NoSteps, NoSteps, {})
    BY <2>1, LeaveOpen
  <2>2. ASSUME NEW new \in Torn(JudgeSeq, "judge"),
               EndInFailure(a, new, NoSteps, NoSteps, {JudgeSeq})
        PROVE  OpenInv(a)'
    <3>1. EndedBut(new, {JudgeSeq}) /\ phase[a] = "start" /\ job' = job
      BY <1>5, <2>2, TornSteps DEF StartJudgingBreaks, EndInFailure, Raise
    <3> QED BY <1>2, <2>2, <3>1, EndedSteps, JudgingFailsOpen
  <2> QED BY <1>5, <2>1, <2>2 DEF StartJudgingBreaks
<1>6. CASE JudgingBreaks(a)
  BY <1>2, <1>3, <1>6 DEF JudgingBreaks
<1>7. CASE InvalidJudgement(a)
  <2>1. CASE JudgingFails(a, Mark(a, JudgeSeq, "FAILED"), {})
    BY <1>2, <1>3, <1>7, <2>1 DEF InvalidJudgement
  <2>2. CASE UNCHANGED jobVars
    BY <1>7, <2>2, LooseKept, TornKept DEF jobVars, InvalidJudgement, OpenInv, LooseAt, TornInv,
                                           Side
  <2> QED BY <1>7, <2>1, <2>2 DEF InvalidJudgement
<1>8. CASE ValidJudgement(a)
  <2>1. /\ Write(a, One(SaveSeq, NewSaveStep), Mark(a, JudgeSeq, "SUCCEEDED"))
        /\ phase[a] = "judge" /\ phase'[a] = "judged" /\ run' = run /\ torn' = torn
        /\ job' = job
    BY <1>8 DEF ValidJudgement, Go, Framed
  <2>2. PICK x : x = {SaveSeq}
    OBVIOUS
  <2>3. /\ EndedBut(One(SaveSeq, NewSaveStep), x)
        /\ DOMAIN Mark(a, JudgeSeq, "SUCCEEDED") = {JudgeSeq}
        /\ Ended(Mark(a, JudgeSeq, "SUCCEEDED"))
    BY <1>1, <2>2, EndedMark, EndedButSteps
  <2>4. Loose(a)' \subseteq x
    BY <1>2, <2>1, <2>2, <2>3, GoesOpen
  <2>5. TornInv(a)'
    BY <1>2, <2>1, TornKept
  <2> QED BY <1>1, <1>2, <2>1, <2>2, <2>4, <2>5 DEF OpenInv, LooseAt
<1>9. CASE SaveStepBreaks(a)
  <2>1. PICK new \in Torn(SaveSeq, "persist") :
            EndInFailure(a, new, Mark(a, JudgeSeq, "SUCCEEDED"), NoSteps, {SaveSeq})
    BY <1>9 DEF SaveStepBreaks
  <2>2. /\ EndedBut(new, {SaveSeq}) /\ phase[a] = "judge" /\ job' = job
        /\ DOMAIN Mark(a, JudgeSeq, "SUCCEEDED") = {JudgeSeq}
        /\ Ended(Mark(a, JudgeSeq, "SUCCEEDED"))
    BY <1>1, <1>9, <2>1, TornSteps, EndedMark DEF SaveStepBreaks, EndInFailure, Raise
  <2> QED BY <1>2, <2>1, <2>2, EndedSteps, JudgingFailsOpen
<1>10. CASE InsertResult(a) \/ SaveLearning(a)
  <2>1. /\ phase[a] \in {"judged", "inserted"} /\ phase'[a] \in {"inserted", "learned"}
        /\ UNCHANGED <<job, run, steps, torn>>
    BY <1>10 DEF InsertResult, SaveLearning, Go, Framed
  <2>2. TornInv(a)' /\ Loose(a)' = Loose(a)
    BY <1>2, <2>1, TornKept, LooseKept
  <2> QED BY <1>1, <1>2, <2>1, <2>2 DEF OpenInv, LooseAt
<1>11. CASE ResultFails(a) \/ LearningFails(a) \/ SavingBreaks(a)
  BY <1>2, <1>3, <1>11 DEF ResultFails, LearningFails, SavingBreaks
<1>12. CASE FinishSaving(a)
  <2>1. /\ Write(a, NoSteps, Mark(a, SaveSeq, "SUCCEEDED")) /\ phase[a] = "learned"
        /\ phase'[a] = "saved" /\ run' = run /\ torn' = torn /\ job' = job
    BY <1>12 DEF FinishSaving, Go, Framed
  <2>2. PICK x : x = {}
    OBVIOUS
  <2>3. /\ DOMAIN Mark(a, SaveSeq, "SUCCEEDED") = {SaveSeq}
        /\ Ended(Mark(a, SaveSeq, "SUCCEEDED"))
    BY <1>1, EndedMark
  <2>4. Loose(a)' \subseteq x
    BY <1>2, <2>1, <2>2, <2>3, EndedButSteps, GoesOpen
  <2>5. TornInv(a)'
    BY <1>2, <2>1, TornKept
  <2> QED BY <1>1, <1>2, <2>1, <2>2, <2>4, <2>5 DEF OpenInv, LooseAt
<1>13. CASE FinishJudging(a)
  <2>1. /\ phase[a] = "saved" /\ phase'[a] = "report" /\ run'[a] = "SUCCEEDED"
        /\ UNCHANGED <<job, steps, torn>>
    BY <1>13 DEF FinishJudging, Go, Framed
  <2>2. Loose(a)' = {} /\ torn[a] = {}
    BY <2>1, LooseKept DEF OpenInv, LooseAt, TornInv, Quit
  <2> QED BY <2>1, <2>2 DEF OpenInv, LooseAt, TornInv, Live, Looping, Asking
<1>14. CASE FinishJudgingBreaks(a)
  BY <1>14, LeaveOpen DEF FinishJudgingBreaks
<1> QED BY <1>4, <1>5, <1>6, <1>7, <1>8, <1>9, <1>10, <1>11, <1>12, <1>13, <1>14 DEF JudgeStep

LEMMA GenOpen ==
    ASSUME IInv, Framed, NEW a \in Attempts, OpenInv(a), job.type = "generate_test", GenStep(a)
    PROVE  OpenInv(a)'
    BY InspectionOpen, PackOpen, CallsOpen, AskOpen, OutputOpen, EvidenceOpen, DedupeOpen,
       InsertionOpen DEF GenStep

-----------------------------------------------------------------------------
(* The steps of the specification, for the invariants of the attempts.       *)

\* A step that moves no attempt.
Quiet ==
    /\ UNCHANGED <<phase, run, steps, torn, at, inputs, failures, tests>>
    /\ job'.status = "SUCCEEDED" => job' = job

\* An attempt is claimed, refused or killed, or reports.
Turn(a) ==
    /\ UNCHANGED <<run, steps, torn, at, inputs, failures, tests>> /\ JobMoves(a)
    /\ \/ phase[a] = "idle" /\ phase'[a] = "start"
       \/ phase'[a] \in {"raised", "done", "dead"} /\ phase[a] \notin {"idle", "done", "dead"}
    /\ job.type = "generate_test" /\ job'.status = "SUCCEEDED" /\ job'.status # job.status =>
           job'.result = GenResult(a)

\* A step is one attempt's, or moves no attempt, and keeps the plan.
LEMMA StepOf ==
    ASSUME IInv, Framed, [Next]_vars
    PROVE  /\ job'.type = job.type
           /\ job.type = "generate_test" => job'.payload = job.payload
           /\ \/ Quiet
              \/ \E a \in Attempts :
                    /\ Only(a)
                    /\ \/ job.type = "generate_test" /\ GenStep(a) /\ job' = job
                       \/ /\ job.type = "judge_answer" /\ JudgeStep(a) /\ job' = job
                          /\ UNCHANGED genVars
                       \/ Turn(a)
<1>0. DOMAIN job = JobFields
  BY DEF IInv, Shapes
<1>1. CASE UNCHANGED vars
  BY <1>1 DEF vars, jobVars, genVars, Quiet
<1>2. CASE Submit
  <2>1. /\ UNCHANGED <<phase, run, steps, torn, at, inputs, failures, tests>>
        /\ job.type = "judge_answer" /\ job'.type = job.type
    BY <1>0, <1>2 DEF Submit, SubmitAnswer, EnqueueJudging, SubmissionBreaks, jobVars, genVars,
           IInv, PlanKnown, JobFields
  <2>2. job'.status = "SUCCEEDED" => job' = job
    BY <1>0, <1>2 DEF Submit, SubmitAnswer, EnqueueJudging, SubmissionBreaks, jobVars, JobFields
  <2> QED BY <2>1, <2>2 DEF Quiet
<1>3. CASE Lapse
  <2>1. /\ UNCHANGED <<phase, run, steps, torn, at, inputs, failures, tests>>
        /\ job' = [job EXCEPT !.status = Requeued]
    BY <1>3 DEF Lapse, LeaseExpires, genVars
  <2> QED BY <1>0, <2>1 DEF JobFields, Requeued, Quiet
<1>4. ASSUME NEW a \in Attempts, ClaimJob(a) \/ Work(a) \/ Die(a)
      PROVE  /\ Only(a) /\ job'.type = job.type /\ job'.payload = job.payload
             /\ \/ job.type = "generate_test" /\ GenStep(a) /\ job' = job
                \/ /\ job.type = "judge_answer" /\ JudgeStep(a) /\ job' = job
                   /\ UNCHANGED genVars
                \/ Turn(a)
  <2>1. CASE /\ Claim(a) \/ Crash(a) \/ RefuseJob(a) \/ ReportFailure(a)
             /\ UNCHANGED genVars
    <3>1. ~(job'.status = "SUCCEEDED" /\ job'.status # job.status)
      BY <1>0, <2>1 DEF Claim, Crash, RefuseJob, ReportFailure, Requeued, JobFields
    <3>2. /\ Only(a) /\ JobMoves(a) /\ UNCHANGED <<run, steps, torn>>
          /\ \/ phase[a] = "idle" /\ phase'[a] = "start"
             \/ /\ phase'[a] \in {"raised", "done", "dead"}
                /\ phase[a] \notin {"idle", "done", "dead"}
      BY <2>1, QueueOnly
    <3> QED BY <2>1, <3>1, <3>2 DEF JobMoves, genVars, Turn
  <2>2. CASE job.type = "generate_test" /\ GenStep(a)
    BY <2>2, GenOnly
  <2>3. CASE job.type = "judge_answer" /\ JudgeStep(a) /\ UNCHANGED genVars
    BY <2>3, JudgeOnly
  <2>4. CASE /\ UNCHANGED genVars
             /\ \/ ReportSuccess(a, GenResult(a))
                \/ job.type = "judge_answer" /\ ReportSuccess(a, JudgeResult(a))
    <3>1. PICK result : /\ ReportSuccess(a, result)
                        /\ job.type = "generate_test" => result = GenResult(a)
      BY <2>4
    <3>2. /\ Only(a) /\ JobMoves(a) /\ UNCHANGED <<run, steps, torn>>
          /\ phase'[a] = "done" /\ phase[a] = "report"
      BY <2>4, <3>1, QueueOnly DEF ReportSuccess, Go, Framed
    <3>3. job'.status = "SUCCEEDED" /\ job'.status # job.status => job'.result = result
      BY <1>0, <3>1 DEF ReportSuccess, JobFields
    <3> QED BY <2>4, <3>1, <3>2, <3>3 DEF JobMoves, genVars, Turn
  <2> QED BY <1>4, <2>1, <2>2, <2>3, <2>4 DEF ClaimJob, Work, Die
<1> QED BY <1>1, <1>2, <1>3, <1>4 DEF Next

\* The steps that are open are those of where the attempts are.
OInv == Framed /\ \A a \in Attempts : OpenInv(a)

LEMMA NextOInv == IInv /\ OInv /\ [Next]_vars => OInv'
<1> SUFFICES ASSUME IInv, OInv, [Next]_vars PROVE OInv'
  OBVIOUS
<1>1. Framed /\ \A a \in Attempts : OpenInv(a)
  BY DEF OInv
<1>2. job'.type = job.type
  BY <1>1, StepOf
<1>3. CASE Quiet
  <2>1. UNCHANGED <<phase, run, steps, torn, at, inputs, failures>>
    BY <1>3 DEF Quiet
  <2>2. Framed'
    BY <1>1, <1>2, <2>1 DEF Framed
  <2>3. ASSUME NEW a \in Attempts PROVE OpenInv(a)'
    <3>1. /\ OpenInv(a) /\ Loose(a)' = Loose(a)
          /\ ValidationSeq(a)' = ValidationSeq(a) /\ EvidenceSeq(a)' = EvidenceSeq(a)
      BY <1>1, <2>1, LooseKept DEF ValidationSeq, EvidenceSeq, Base
    <3> QED BY <1>2, <2>1, <3>1 DEF OpenInv, LooseAt, TornInv, Side
  <2> QED BY <2>2, <2>3 DEF OInv
<1>4. ASSUME NEW a \in Attempts, Only(a),
             \/ job.type = "generate_test" /\ GenStep(a)
             \/ job.type = "judge_answer" /\ JudgeStep(a)
             \/ Turn(a)
      PROVE  OInv'
  <2>1. CASE job.type = "generate_test" /\ GenStep(a)
    BY <1>1, <1>2, <1>4, <2>1, GenOpen, OthersOpen DEF OInv, Only
  <2>2. CASE job.type = "judge_answer" /\ JudgeStep(a)
    BY <1>1, <1>2, <1>4, <2>2, JudgingOpen, OthersOpen DEF OInv, Only
  <2>3. CASE Turn(a)
    <3>1. /\ UNCHANGED <<run, steps, torn>> /\ phase'[a] \in {"start"} \cup Quit
          /\ phase[a] \in Quit => phase'[a] \in Quit
      BY <2>3 DEF Turn, Quit
    <3>2. Loose(a)' = Loose(a)
      BY <3>1, LooseKept
    <3>3. TornInv(a)'
      BY <1>1, <1>2, <3>1 DEF OpenInv, TornInv, Side
    <3>4. OpenInv(a)'
      BY <1>1, <3>1, <3>2, <3>3 DEF OpenInv, LooseAt, Live, Looping, Asking, Quit
    <3> QED BY <1>1, <1>2, <1>4, <3>4, OthersOpen DEF OInv, Only
  <2> QED BY <1>4, <2>1, <2>2, <2>3
<1> QED BY <1>1, <1>3, <1>4, StepOf

LEMMA InitOInv == Init => OInv
<1> SUFFICES ASSUME Init PROVE OInv
  OBVIOUS
<1>1. /\ phase = [a \in Attempts |-> "idle"] /\ run = [a \in Attempts |-> "none"]
      /\ steps = [a \in Attempts |-> NoSteps] /\ at = [a \in Attempts |-> Fresh]
      /\ inputs = [a \in Attempts |-> << >>] /\ failures = [a \in Attempts |-> 0]
      /\ torn = [a \in Attempts |-> {}]
      /\ job.type \in {"generate_test", "judge_answer"}
  BY DEF Init, GenInit, JudgeInit, JobInit, NoGeneration
<1>2. \A a \in Attempts : OpenInv(a)
  BY <1>1 DEF OpenInv, LooseAt, TornInv, Side, Final, Live, Looping, Asking
<1> QED BY <1>1, <1>2 DEF OInv, Framed

LEMMA ClosedFromOInv == OInv => StepsCloseWithRun
<1> SUFFICES ASSUME OInv, NEW a \in Attempts, run[a] \in Final, NEW s \in DOMAIN steps[a],
                    steps[a][s].status = "RUNNING"
             PROVE  /\ s \in torn[a]
                    /\ s \in Spine => job.type = "judge_answer" /\ run[a] = "FAILED"
  BY DEF StepsCloseWithRun
<1>1. s \in torn[a]
  BY DEF OInv, OpenInv, Loose, Open, Held
<1>2. TornInv(a) /\ job.type \in {"generate_test", "judge_answer"}
  BY DEF OInv, OpenInv, Framed
<1>3. CASE job.type = "generate_test"
  <2>1. RunRow \notin torn[a]
    BY <1>2 DEF TornInv, Final
  <2>2. Side(torn[a])
    BY <1>2, <1>3, <2>1 DEF TornInv
  <2> QED BY <1>1, <1>3, <2>2 DEF Side, Spine
<1>4. CASE job.type = "judge_answer"
  BY <1>1, <1>2, <1>4 DEF TornInv, Final
<1> QED BY <1>2, <1>3, <1>4

\* The trace of a run that is over shows a step going on only where a write of
\* that step failed (or its parser broke), and, but for a judging whose handler
\* holds no step, never the step that stands for the run or its insertion:
\* whatever else fails, test_generation_runner, repository_inspection and
\* answer_judging_runner finish the steps they have started.
THEOREM TracesClose == Spec => []StepsCloseWithRun
<1>1. Init => IInv /\ OInv
  BY InitIInv, InitOInv
<1>2. IInv /\ OInv /\ [Next]_vars => (IInv /\ OInv)'
  BY NextIInv, NextOInv
<1>3. OInv => StepsCloseWithRun
  BY ClosedFromOInv
<1> QED BY <1>1, <1>2, <1>3, PTL DEF Spec

-----------------------------------------------------------------------------
(* The steps in which something fails.                                       *)

\* The run ends, or is left as it is.
Breaking(a) ==
    \/ StartBreaks(a) \/ PackUnreadable(a) \/ PlanBreaks(a)
    \/ InspectModel(a) \/ InspectBreaks(a) \/ InspectLate(a) \/ ToolBreaks(a)
    \/ NothingGenerated(a) \/ PersistBreaks(a) \/ InsertFails(a) \/ FinishBreaks(a)

\* The question fails.
Failing(a) ==
    \/ AskFails(a) \/ AskLate(a) \/ AskBreaks(a) \/ ValidationBreaks(a)
    \/ EvidenceBreaks(a) \/ ArtifactFails(a) \/ RejectBreaks(a)

\* What becomes of a run that ends so.
Raised(a) ==
    /\ UNCHANGED <<job, genVars>> /\ DOMAIN run' = Attempts
    /\ phase'[a] = "raised" /\ run'[a] \in {"FAILED", "RUNNING"}

LEMMA FailureRaises ==
    ASSUME Framed, NEW a \in Attempts, NEW new, NEW updated, NEW closing, NEW rows,
           EndInFailure(a, new, updated, closing, rows), UNCHANGED genVars
    PROVE  Raised(a)
    BY DEF EndInFailure, Raise, Go, Framed, Raised

LEMMA BreakingEnds ==
    ASSUME Framed, NEW a \in Attempts, Breaking(a)
    PROVE  /\ Raised(a) /\ phase[a] \in {"start", "persist", "inserted"} \cup Looping
           /\ phase[a] = "inserted" => run'[a] = "RUNNING"
<1>1. CASE StartBreaks(a) \/ PersistBreaks(a) \/ FinishBreaks(a)
  BY <1>1 DEF StartBreaks, PersistBreaks, FinishBreaks, LeaveRunning, Raise, Go, Framed, Raised,
              Looping, Asking
<1>2. CASE PackUnreadable(a) \/ PlanBreaks(a) \/ NothingGenerated(a) \/ InsertFails(a)
  <2>1. Raised(a)
    BY <1>2, FailureRaises
       DEF PackUnreadable, PlanBreaks, NothingGenerated, InsertFails, RunFails
  <2> QED BY <1>2, <2>1
          DEF PackUnreadable, PlanBreaks, NothingGenerated, InsertFails, Looping, Asking
<1>3. CASE InspectModel(a) \/ InspectBreaks(a) \/ InspectLate(a) \/ ToolBreaks(a)
  <2>1. Raised(a)
    BY <1>3, FailureRaises
       DEF InspectModel, InspectBreaks, InspectLate, ToolBreaks, InspectionFails, RunFails
  <2> QED BY <1>3, <2>1
          DEF InspectModel, InspectBreaks, InspectLate, ToolBreaks, Looping, Asking
<1> QED BY <1>1, <1>2, <1>3 DEF Breaking

LEMMA FailingGoes ==
    ASSUME Framed, NEW a \in Attempts, Failing(a)
    PROVE  /\ phase[a] \in Asking /\ phase'[a] \in {"generate", "pack"}
           /\ \E new, updated, rows : QuestionFails(a, new, updated, rows)
<1>1. \E new, updated, rows : QuestionFails(a, new, updated, rows)
  BY DEF Failing, AskFails, AskLate, AskBreaks, ValidationBreaks, EvidenceBreaks,
         ArtifactFails, RejectBreaks
<1>2. phase[a] \in Asking
  BY DEF Failing, AskFails, AskLate, AskBreaks, ValidationBreaks, EvidenceBreaks,
         ArtifactFails, RejectBreaks, Asking
<1> QED BY <1>1, <1>2, QuestionGoes

-----------------------------------------------------------------------------
(* The tool calls of an inspection.                                          *)

\* The steps of the tool calls of the inspection an attempt is at.
Calls(a) == {s \in Held(a) : /\ s >= InspectionSeq(at[a].pack, 0)
                             /\ steps[a][s].kind # "inspect"}
Kinds(a) == {steps[a][s].kind : s \in Calls(a)}

CallsInv(a) ==
    phase[a] \in {"inspect", "tools"} =>
        /\ Kinds(a) = at[a].seen
        /\ IsFiniteSet(Calls(a)) /\ IsFiniteSet(at[a].seen)
        /\ Cardinality(Calls(a)) = Cardinality(at[a].seen)

\* One step more: a call of a new signature is another call, the model's is not.
LEMMA CallWritten ==
    ASSUME IInv, Framed, NEW a \in Attempts, phase[a] \in {"inspect", "tools"},
           at'[a].pack = at[a].pack, NEW kind, NEW status,
           Write(a, One(CallSeq(a), Step(kind, status)), NoSteps)
    PROVE  /\ CallSeq(a) \notin Held(a)
           /\ kind = "inspect" => Calls(a)' = Calls(a) /\ Kinds(a)' = Kinds(a)
           /\ kind # "inspect" => /\ Calls(a)' = Calls(a) \cup {CallSeq(a)}
                                  /\ Kinds(a)' = Kinds(a) \cup {kind}
<1>1. /\ at[a].pack \in Nat /\ at[a].used \in Nat /\ Below(a, CallSeq(a))
      /\ Held(a) \subseteq Nat
  BY DEF IInv, Placed, AtInspection, Counted
<1>2. /\ CallSeq(a) \in Nat /\ CallSeq(a) >= InspectionSeq(at[a].pack, 0)
  BY <1>1 DEF CallSeq, InspectionSeq, PackStride, InspectionBase
<1>3. CallSeq(a) \notin Held(a)
  BY <1>1, <1>2 DEF Below
<1>4. PICK n : n = CallSeq(a)
  OBVIOUS
<1>5. steps'[a] = Over(One(n, Step(kind, status)), Over(NoSteps, steps[a]))
  BY <1>4 DEF Write, Framed
<1>6. /\ DOMAIN steps'[a] = DOMAIN steps[a] \cup {n}
      /\ steps'[a][n] = Step(kind, status)
      /\ \A s \in DOMAIN steps[a] : s # n => steps'[a][s] = steps[a][s]
  BY <1>5 DEF Over, One, NoSteps
<1>7. steps'[a][n].kind = kind
  BY <1>6 DEF Step
<1>8. kind = "inspect" => Calls(a)' = Calls(a)
  BY <1>3, <1>4, <1>6, <1>7 DEF Calls, Held
<1>9. kind # "inspect" => Calls(a)' = Calls(a) \cup {n}
  BY <1>2, <1>3, <1>4, <1>6, <1>7 DEF Calls, Held
<1>10. \A s \in Calls(a) : steps'[a][s].kind = steps[a][s].kind
  BY <1>3, <1>4, <1>6 DEF Calls, Held
<1> QED BY <1>3, <1>4, <1>7, <1>8, <1>9, <1>10 DEF Kinds

LEMMA OthersCalls ==
    ASSUME NEW b, Kept(b), CallsInv(b)
    PROVE  CallsInv(b)'
<1>1. Calls(b)' = Calls(b)
  BY DEF Kept, Calls, Held
<1>2. Kinds(b)' = Kinds(b)
  BY <1>1 DEF Kept, Kinds
<1> QED BY <1>1, <1>2 DEF Kept, CallsInv

\* An inspection begins with the steps of the run below its numbers.
LEMMA BeginCalls ==
    ASSUME IInv, Framed, NEW a \in Attempts, BeginPack(a)
    PROVE  CallsInv(a)'
<1>1. CASE phase'[a] = "generate"
  BY <1>1 DEF CallsInv
<1>2. CASE phase'[a] = "inspect" /\ job.payload.indexed
  <2>1. /\ at[a].pack \in Nat /\ Below(a, PlanSeq(at[a].pack)) /\ Held(a) \subseteq Nat
    BY DEF BeginPack, IInv, Placed, AtPack, Counted
  <2>2. /\ Write(a, One(PlanSeq(at[a].pack), PlanStep), NoSteps)
        /\ at'[a].pack = at[a].pack /\ at'[a].seen = {}
    BY <1>2 DEF BeginPack, ToQuestion, Go, Framed, IInv, Shapes, LoopFields
  <2>3. DOMAIN steps'[a] = DOMAIN steps[a] \cup {PlanSeq(at[a].pack)}
    BY <2>2 DEF Write, Framed, Over, One, NoSteps
  <2>4. /\ PlanSeq(at[a].pack) \in Nat /\ InspectionSeq(at[a].pack, 0) \in Nat
        /\ PlanSeq(at[a].pack) < InspectionSeq(at[a].pack, 0)
    BY <2>1, InspectionOrder
  <2>5. \A s \in DOMAIN steps'[a] : ~(s >= InspectionSeq(at[a].pack, 0))
    BY <2>1, <2>3, <2>4 DEF Below, Held
  <2>6. Calls(a)' = {}
    BY <2>2, <2>5 DEF Calls, Held
  <2>7. Kinds(a)' = {}
    BY <2>6 DEF Kinds
  <2>8. IsFiniteSet({})
    BY FS_EmptySet
  <2> QED BY <2>2, <2>6, <2>7, <2>8 DEF CallsInv
<1> QED BY <1>1, <1>2 DEF BeginPack, Go, Framed

LEMMA ToolCalls ==
    ASSUME IInv, Framed, NEW a \in Attempts, CallsInv(a), RequestTools(a) \/ CallTool(a)
    PROVE  CallsInv(a)'
<1>1. /\ phase[a] \in {"inspect", "tools"} /\ at'[a].pack = at[a].pack
  BY DEF RequestTools, CallTool, Framed, IInv, Shapes, LoopFields
<1>2. CASE RequestTools(a)
  <2>1. /\ Write(a, One(CallSeq(a), Step("inspect", "SUCCEEDED")), NoSteps)
        /\ at'[a].seen = at[a].seen
    BY <1>2 DEF RequestTools, Framed, IInv, Shapes, LoopFields
  <2>2. Calls(a)' = Calls(a) /\ Kinds(a)' = Kinds(a)
    BY <1>1, <2>1, CallWritten
  <2> QED BY <1>1, <2>1, <2>2 DEF CallsInv
<1>3. CASE CallTool(a)
  <2>1. PICK signature \in Signatures :
            /\ at' = [at EXCEPT ![a].used = @ + 1, ![a].calls = @ - 1,
                                ![a].seen = @ \union {signature}]
            /\ \/ signature \in at[a].seen /\ steps' = steps
               \/ /\ signature \notin at[a].seen
                  /\ \E status \in Final :
                         Write(a, One(CallSeq(a), Step(signature, status)), NoSteps)
    BY <1>3 DEF CallTool, ToolStep
  <2>2. at'[a].seen = at[a].seen \cup {signature}
    BY <2>1 DEF Framed, IInv, Shapes, LoopFields
  <2>3. CASE signature \in at[a].seen /\ steps' = steps
    <3>1. at'[a].seen = at[a].seen
      BY <2>2, <2>3
    <3>2. Calls(a)' = Calls(a)
      BY <1>1, <2>3 DEF Calls, Held
    <3>3. Kinds(a)' = Kinds(a)
      BY <2>3, <3>2 DEF Kinds
    <3> QED BY <1>1, <3>1, <3>2, <3>3 DEF CallsInv
  <2>4. CASE signature \notin at[a].seen
    <3>1. PICK status \in Final : Write(a, One(CallSeq(a), Step(signature, status)), NoSteps)
      BY <2>1, <2>4
    <3>2. signature # "inspect"
      BY SignatureAssumption
    <3>3. /\ Calls(a)' = Calls(a) \cup {CallSeq(a)} /\ CallSeq(a) \notin Calls(a)
          /\ Kinds(a)' = Kinds(a) \cup {signature}
      BY <1>1, <3>1, <3>2, CallWritten DEF Calls
    <3>4. /\ IsFiniteSet(Calls(a)) /\ IsFiniteSet(at[a].seen) /\ Kinds(a) = at[a].seen
          /\ Cardinality(Calls(a)) = Cardinality(at[a].seen)
      BY <1>1 DEF CallsInv
    <3>5. /\ IsFiniteSet(Calls(a) \cup {CallSeq(a)})
          /\ Cardinality(Calls(a) \cup {CallSeq(a)}) = Cardinality(Calls(a)) + 1
      BY <3>3, <3>4, FS_AddElement
    <3>6. /\ IsFiniteSet(at[a].seen \cup {signature})
          /\ Cardinality(at[a].seen \cup {signature}) = Cardinality(at[a].seen) + 1
      BY <2>4, <3>4, FS_AddElement
    <3> QED BY <2>2, <3>3, <3>4, <3>5, <3>6 DEF CallsInv
  <2> QED BY <2>1, <2>3, <2>4
<1> QED BY <1>2, <1>3

\* Every other step of the attempt leads out of the inspection.
LEMMA GenCalls ==
    ASSUME IInv, Framed, NEW a \in Attempts, CallsInv(a), GenStep(a)
    PROVE  CallsInv(a)'
<1>1. CASE BeginPack(a) \/ RequestTools(a) \/ CallTool(a)
  BY <1>1, BeginCalls, ToolCalls
<1>2. CASE phase'[a] \notin {"inspect", "tools"}
  BY <1>2 DEF CallsInv
<1>3. CASE StartRun(a)
  BY <1>2, <1>3 DEF StartRun, Go, Framed
<1>4. CASE Breaking(a)
  BY <1>2, <1>4, BreakingEnds DEF Raised
<1>5. CASE Failing(a)
  BY <1>2, <1>5, FailingGoes
<1>6. CASE AskModel(a) \/ ValidOutput(a) \/ ValidEvidence(a) \/ FinishInspection(a)
  BY <1>2, <1>6 DEF AskModel, ValidOutput, ValidEvidence, FinishInspection, Go, Framed
<1>7. CASE InvalidOutput(a) \/ InvalidEvidence(a)
  BY <1>2, <1>7, QuestionGoes DEF InvalidOutput, InvalidEvidence
<1>8. CASE AcceptQuestion(a) \/ RejectDuplicate(a)
  BY <1>2, <1>8, QuestionGoes DEF AcceptQuestion, RejectDuplicate, Advance, Go, Framed
<1>9. CASE BeginPersist(a) \/ InsertTests(a) \/ FinishRun(a)
  BY <1>2, <1>9 DEF BeginPersist, InsertTests, FinishRun, Go, Framed
<1> QED BY <1>1, <1>3, <1>4, <1>5, <1>6, <1>7, <1>8, <1>9 DEF GenStep, Breaking, Failing

CInv == \A a \in Attempts : CallsInv(a)

LEMMA NextCInv == IInv /\ Framed /\ CInv /\ [Next]_vars => CInv'
<1> SUFFICES ASSUME IInv, Framed, CInv, [Next]_vars, NEW b \in Attempts PROVE CallsInv(b)'
  BY DEF CInv
<1>1. CallsInv(b)
  BY DEF CInv
<1>2. CASE Quiet
  <2>1. Kept(b)
    BY <1>2 DEF Quiet, Kept
  <2> QED BY <1>1, <2>1, OthersCalls
<1>3. ASSUME NEW a \in Attempts, Only(a), a # b PROVE CallsInv(b)'
  BY <1>1, <1>3, OthersCalls DEF Only
<1>4. CASE GenStep(b)
  BY <1>1, <1>4, GenCalls
<1>5. CASE Turn(b)
  BY <1>5 DEF Turn, CallsInv
<1>6. CASE JudgeStep(b) /\ UNCHANGED genVars /\ job.type = "judge_answer"
  <2>1. phase[b] \notin {"inspect", "tools"}
    BY <1>6 DEF IInv, Placed, Looping
  <2>2. phase'[b] \notin {"inspect", "tools"}
    BY <1>6, <2>1 DEF JudgeStep, StartJudging, JudgingBreaks, InvalidJudgement, ValidJudgement,
           InsertResult, ResultFails, SaveLearning, LearningFails, FinishJudging, JudgingFails,
           StartJudgingBreaks, SaveStepBreaks, FinishSaving, SavingBreaks, FinishJudgingBreaks,
           EndInFailure, LeaveRunning, Raise, Go, Framed, jobVars
  <2> QED BY <2>2 DEF CallsInv
<1> QED BY <1>2, <1>3, <1>4, <1>5, <1>6, StepOf

LEMMA InitCInv == Init => CInv
    BY DEF Init, GenInit, JudgeInit, JobInit, CInv, CallsInv

LEMMA CallsFromCInv == CInv => EachCallOnce
    BY DEF CInv, CallsInv, Calls, Kinds, Held, EachCallOnce

\* An inspection has one step per signature it has called: repository_inspection
\* and its recorder never run a call twice and never leave one unrecorded.
THEOREM CallsAreRecordedOnce == Spec => []EachCallOnce
<1>1. Init => IInv /\ OInv /\ CInv
  BY InitIInv, InitOInv, InitCInv
<1>2. IInv /\ OInv /\ CInv /\ [Next]_vars => (IInv /\ OInv /\ CInv)'
  BY NextIInv, NextOInv, NextCInv DEF OInv
<1>3. CInv => EachCallOnce
  BY CallsFromCInv
<1> QED BY <1>1, <1>2, <1>3, PTL DEF Spec

-----------------------------------------------------------------------------
(* The questions of a plan.                                                  *)

\* The questions of the first p packs, and the first q of the next.
PlannedTo(counts, p, q) ==
    {x \in UNION {{i} \X (1..counts[i]) : i \in DOMAIN counts} :
        x[1] <= p \/ (x[1] = p + 1 /\ x[2] <= q)}

PlanFits(counts) ==
    /\ Len(counts) \in 1..5 /\ DOMAIN counts = 1..Len(counts)
    /\ \A i \in 1..Len(counts) : counts[i] \in 1..5

LEMMA PlannedIs ==
    ASSUME NEW counts, PlanFits(counts), NEW p, NEW q
    PROVE  \A x : x \in PlannedTo(counts, p, q) <=>
               \E i \in 1..Len(counts), n \in 1..5 :
                   /\ x = <<i, n>> /\ n <= counts[i]
                   /\ i <= p \/ (i = p + 1 /\ n <= q)
<1> USE DEF PlanFits
<1>1. ASSUME NEW x \in PlannedTo(counts, p, q)
      PROVE  \E i \in 1..Len(counts), n \in 1..5 :
                 x = <<i, n>> /\ n <= counts[i] /\ (i <= p \/ (i = p + 1 /\ n <= q))
  <2>1. PICK i \in 1..Len(counts) : x \in {i} \X (1..counts[i])
    BY DEF PlannedTo
  <2>2. PICK n \in 1..counts[i] : x = <<i, n>>
    BY <2>1
  <2>3. n \in 1..5 /\ n <= counts[i]
    BY <2>2
  <2>4. x[1] = i /\ x[2] = n
    BY <2>2
  <2>5. i <= p \/ (i = p + 1 /\ n <= q)
    BY <2>4 DEF PlannedTo
  <2> QED BY <2>2, <2>3, <2>5
<1>2. ASSUME NEW i \in 1..Len(counts), NEW n \in 1..5, n <= counts[i],
             i <= p \/ (i = p + 1 /\ n <= q)
      PROVE  <<i, n>> \in PlannedTo(counts, p, q)
  <2>1. <<i, n>> \in {i} \X (1..counts[i])
    BY <1>2
  <2>2. <<i, n>>[1] = i /\ <<i, n>>[2] = n
    OBVIOUS
  <2> QED BY <1>2, <2>1, <2>2 DEF PlannedTo
<1> QED BY <1>1, <1>2

LEMMA PlannedFinite ==
    ASSUME NEW counts, PlanFits(counts), NEW p, NEW q
    PROVE  IsFiniteSet(PlannedTo(counts, p, q)) /\ Cardinality(PlannedTo(counts, p, q)) \in Nat
<1>1. IsFiniteSet(1..5)
  <2>1. PICK n \in Int : n = 5
    OBVIOUS
  <2>2. IsFiniteSet(1..n)
    BY FS_Interval
  <2> QED BY <2>1, <2>2
<1>2. IsFiniteSet((1..5) \X (1..5))
  BY <1>1, FS_Product
<1>3. ASSUME NEW x \in PlannedTo(counts, p, q) PROVE x \in (1..5) \X (1..5)
  <2>1. PICK i \in 1..Len(counts), n \in 1..5 : x = <<i, n>>
    BY PlannedIs
  <2>2. i \in 1..5
    BY DEF PlanFits
  <2> QED BY <2>1, <2>2
<1>4. IsFiniteSet(PlannedTo(counts, p, q))
  BY <1>2, <1>3, FS_Subset
<1> QED BY <1>4, FS_CardinalityType

\* One question more, the next pack, none and all of them.
LEMMA PlannedNext ==
    ASSUME NEW counts, PlanFits(counts), NEW p \in Nat, p < Len(counts), NEW q \in Nat,
           q < counts[p + 1]
    PROVE  Cardinality(PlannedTo(counts, p, q + 1)) = Cardinality(PlannedTo(counts, p, q)) + 1
<1>1. p + 1 \in 1..Len(counts) /\ q + 1 \in 1..5 /\ q + 1 <= counts[p + 1]
  BY DEF PlanFits
<1>2. PICK x : x = <<p + 1, q + 1>>
  OBVIOUS
<1>3. \A i, n : x = <<i, n>> <=> i = p + 1 /\ n = q + 1
  BY <1>2
<1>4. ASSUME x \in PlannedTo(counts, p, q) PROVE FALSE
  <2>1. PICK i \in 1..Len(counts), n \in 1..5 :
            x = <<i, n>> /\ (i <= p \/ (i = p + 1 /\ n <= q))
    BY <1>4, PlannedIs
  <2>2. <<i, n>>[1] = i /\ <<i, n>>[2] = n /\ x[1] = p + 1 /\ x[2] = q + 1
    BY <1>2
  <2>3. i = p + 1 /\ n = q + 1
    BY <2>1, <2>2
  <2> QED BY <2>1, <2>3
<1>5. x \in PlannedTo(counts, p, q + 1)
  BY <1>1, <1>2, PlannedIs
<1>6. ASSUME NEW y \in PlannedTo(counts, p, q) PROVE y \in PlannedTo(counts, p, q + 1)
  <2>1. PICK i \in 1..Len(counts), n \in 1..5 :
            y = <<i, n>> /\ n <= counts[i] /\ (i <= p \/ (i = p + 1 /\ n <= q))
    BY PlannedIs
  <2>2. i <= p \/ (i = p + 1 /\ n <= q + 1)
    BY <2>1
  <2> QED BY <2>1, <2>2, PlannedIs
<1>7. ASSUME NEW y \in PlannedTo(counts, p, q + 1), y # x PROVE y \in PlannedTo(counts, p, q)
  <2>1. PICK i \in 1..Len(counts), n \in 1..5 :
            y = <<i, n>> /\ n <= counts[i] /\ (i <= p \/ (i = p + 1 /\ n <= q + 1))
    BY PlannedIs
  <2>2. i <= p \/ (i = p + 1 /\ n <= q)
    BY <1>2, <1>7, <2>1
  <2> QED BY <2>1, <2>2, PlannedIs
<1>8. PlannedTo(counts, p, q + 1) = PlannedTo(counts, p, q) \cup {x}
  BY <1>5, <1>6, <1>7
<1> QED BY <1>4, <1>8, PlannedFinite, FS_AddElement

LEMMA PlannedEnds ==
    ASSUME NEW counts, PlanFits(counts)
    PROVE  /\ Cardinality(PlannedTo(counts, 0, 0)) = 0
           /\ \A p \in Nat : p < Len(counts) =>
                  PlannedTo(counts, p, counts[p + 1]) = PlannedTo(counts, p + 1, 0)
           /\ PlannedTo(counts, Len(counts), 0) =
                  UNION {{i} \X (1..counts[i]) : i \in DOMAIN counts}
<1>1. Cardinality(PlannedTo(counts, 0, 0)) = 0
  <2>1. ASSUME NEW x \in PlannedTo(counts, 0, 0) PROVE FALSE
    <3>1. PICK i \in 1..Len(counts), n \in 1..5 : i <= 0 \/ (i = 0 + 1 /\ n <= 0)
      BY PlannedIs
    <3> QED BY <3>1 DEF PlanFits
  <2> QED BY <2>1, FS_EmptySet
<1>2. ASSUME NEW p \in Nat, p < Len(counts)
      PROVE  PlannedTo(counts, p, counts[p + 1]) = PlannedTo(counts, p + 1, 0)
  <2>1. ASSUME NEW i \in 1..Len(counts), NEW n \in 1..5, n <= counts[i]
        PROVE  (i <= p \/ (i = p + 1 /\ n <= counts[p + 1])) <=>
                   (i <= p + 1 \/ (i = p + 1 + 1 /\ n <= 0))
    BY <1>2, <2>1 DEF PlanFits
  <2>2. \A x : x \in PlannedTo(counts, p, counts[p + 1]) <=> x \in PlannedTo(counts, p + 1, 0)
    BY <2>1, PlannedIs
  <2> QED BY <2>2
<1>3. ASSUME NEW x \in UNION {{i} \X (1..counts[i]) : i \in DOMAIN counts}
      PROVE  x[1] <= Len(counts)
  <2>1. PICK i \in 1..Len(counts) : x \in {i} \X (1..counts[i])
    BY DEF PlanFits
  <2> QED BY <2>1 DEF PlanFits
<1> QED BY <1>1, <1>2, <1>3 DEF PlannedTo

-----------------------------------------------------------------------------
(* The tests of a job.                                                       *)

TestRow == [question : Questions, by : Attempts]

GTypes ==
    /\ inputs \in [Attempts -> Seq(Questions)] /\ failures \in [Attempts -> Nat]
    /\ tests \in Seq(TestRow)

\* The questions an attempt is through with, and where its loop says it is.
Settled(a) == Len(inputs[a]) + failures[a]
Question(a) == IF phase[a] \in Asking THEN at[a].question ELSE 0
Reached(a) == Cardinality(PlannedTo(Counts, at[a].pack, Question(a)))

\* Every question is settled once and in order; the tests of an attempt appear
\* with its insertion, after which its run can only succeed.
AccountInv(a) ==
    /\ phase[a] \in {"idle", "start"} => inputs[a] = << >> /\ failures[a] = 0
    /\ phase[a] \in Looping => Settled(a) = Reached(a)
    /\ phase[a] = "dedupe" => at[a].draft \in Questions
    /\ phase[a] \in {"persist", "inserted", "report"} => Settled(a) = Requested
    /\ phase[a] = "persist" => inputs[a] # << >>
    /\ phase[a] \in {"idle", "start", "persist"} \cup Looping => Mine(a) = {}
    /\ phase[a] = "inserted" => Mine(a) # {}
    /\ phase[a] = "report" => run[a] = "SUCCEEDED"
    /\ Mine(a) # {} => run[a] # "FAILED" /\ Cardinality(Mine(a)) = Len(inputs[a])
    /\ run[a] = "SUCCEEDED" => Mine(a) # {} /\ Settled(a) = Requested
    /\ Settled(a) <= 15

\* A job succeeds with what its attempt has to report.
ReportInv ==
    job.status = "SUCCEEDED" =>
        /\ job.attempt \in Attempts /\ phase[job.attempt] = "done"
        /\ run[job.attempt] = "SUCCEEDED" /\ job.result = GenResult(job.attempt)

Generating == job.type = "generate_test"
AInv ==
    /\ GTypes
    /\ Generating => ReportInv /\ \A a \in Attempts : AccountInv(a)
    /\ ~Generating => tests = << >>

\* The plan in the loop, and the end of it.
LEMMA PlanOf ==
    ASSUME IInv, NEW a \in Attempts, phase[a] \in Looping \cup {"persist"}
    PROVE  /\ PlanFits(Counts) /\ Generating /\ Requested \in Nat /\ Requested <= 15
           /\ Requested = Cardinality(PlannedTo(Counts, Len(Counts), 0))
           /\ \A p, q : Cardinality(PlannedTo(Counts, p, q)) <= Requested
           /\ phase[a] \in Looping =>
                  at[a].pack \in Nat /\ at[a].pack <= Len(Counts) /\ Question(a) \in Nat
<1>1. Generating /\ ValidPlan /\ job.payload \in Plans
  BY DEF IInv, Placed, PlanKnown, Generating
<1>2. Counts \in Seq(Nat)
  BY <1>1, PlanAssumption DEF Counts, Plan
<1>3. PlanFits(Counts)
  BY <1>1, <1>2 DEF ValidPlan, PlanFits
<1>4. Planned = PlannedTo(Counts, Len(Counts), 0)
  BY <1>3, PlannedEnds DEF Planned
<1>5. IsFiniteSet(Planned) /\ Requested \in Nat
  BY <1>3, <1>4, PlannedFinite DEF Requested
<1>6. ASSUME NEW p, NEW q PROVE Cardinality(PlannedTo(Counts, p, q)) <= Requested
  <2>1. PlannedTo(Counts, p, q) \subseteq Planned
    BY DEF PlannedTo, Planned
  <2> QED BY <1>5, <2>1, FS_Subset DEF Requested
<1>7. phase[a] \in Looping =>
          at[a].pack \in Nat /\ at[a].pack <= Len(Counts) /\ Question(a) \in Nat
  BY <1>2 DEF IInv, Placed, AtPack, AtInspection, AtQuestion, Looping, Asking, Question
<1> QED BY <1>1, <1>3, <1>4, <1>5, <1>6, <1>7 DEF ValidPlan, Requested

LEMMA PlanStays ==
    ASSUME job'.payload = job.payload
    PROVE  Counts' = Counts /\ Requested' = Requested
<1>1. Counts' = Counts
  BY DEF Counts
<1> QED BY <1>1 DEF Requested, Planned

\* The tests of an attempt nobody has inserted any of.
LEMMA MineStays ==
    ASSUME NEW b, tests' = tests
    PROVE  Mine(b)' = Mine(b)
    BY DEF Mine

\* An attempt that goes on with the same question.
LEMMA SameQuestion ==
    ASSUME IInv, AInv, NEW a \in Attempts, phase[a] \in Looping, phase'[a] \in Looping,
           job' = job, inputs'[a] = inputs[a], failures'[a] = failures[a], tests' = tests,
           at'[a].pack = at[a].pack, Question(a)' = Question(a),
           run'[a] = run[a], phase'[a] = "dedupe" => at'[a].draft \in Questions
    PROVE  AccountInv(a)'
<1>1. AccountInv(a) /\ Mine(a)' = Mine(a)
  BY PlanOf, MineStays DEF AInv
<1>2. Counts' = Counts /\ Requested' = Requested
  BY PlanStays
<1>3. Reached(a)' = Reached(a) /\ Settled(a)' = Settled(a)
  BY <1>2 DEF Reached, Settled
<1> QED BY <1>1, <1>2, <1>3 DEF AccountInv, Looping, Asking

\* A question that is settled, and the next one.
LEMMA NextQuestion ==
    ASSUME IInv, AInv, NEW a \in Attempts, phase[a] \in Asking, Framed, Advance(a), job' = job,
           tests' = tests, run'[a] = run[a], Settled(a)' = Settled(a) + 1
    PROVE  AccountInv(a)'
<1>1. AccountInv(a) /\ Mine(a) = {} /\ Mine(a)' = Mine(a) /\ Settled(a) = Reached(a)
  BY PlanOf, MineStays DEF AInv, AccountInv, Looping
<1>2. Counts' = Counts /\ Requested' = Requested
  BY PlanStays
<1>3. /\ PlanFits(Counts) /\ Requested <= 15 /\ Requested \in Nat
      /\ at[a].pack \in Nat /\ at[a].pack < Len(Counts) /\ at[a].question \in Nat
      /\ at[a].question < Counts[at[a].pack + 1]
      /\ \A p, q : Cardinality(PlannedTo(Counts, p, q)) <= Requested
  BY PlanOf DEF IInv, Placed, AtQuestion, Looping
<1>4. PICK c, p, q : c = Counts /\ p = at[a].pack /\ q = at[a].question
  OBVIOUS
<1>5. Settled(a)' = Cardinality(PlannedTo(c, p, q + 1))
  <2>1. Settled(a) = Cardinality(PlannedTo(c, p, q))
    BY <1>1, <1>4 DEF Reached, Question
  <2> QED BY <1>3, <1>4, <2>1, PlannedNext
<1>6. Settled(a)' <= 15
  <2>1. /\ Cardinality(PlannedTo(c, p, q + 1)) <= Requested
        /\ Cardinality(PlannedTo(c, p, q + 1)) \in Nat
    BY <1>3, <1>4, PlannedFinite
  <2> QED BY <1>3, <1>5, <2>1
<1>7. phase'[a] \in {"generate", "pack"} /\ Reached(a)' = Cardinality(PlannedTo(c, p, q + 1))
  <2>1. CASE MoreQuestions(a)
    <3>1. /\ phase'[a] = "generate" /\ at'[a].pack = p /\ at'[a].question = q + 1
      BY <1>4, <2>1 DEF Advance, ToQuestion, Go, Framed, IInv, Shapes, LoopFields
    <3> QED BY <1>2, <1>4, <3>1 DEF Reached, Question, Asking
  <2>2. CASE ~MoreQuestions(a)
    <3>1. /\ phase'[a] = "pack" /\ at'[a].pack = p + 1
      BY <1>4, <2>2 DEF Advance, Go, Framed, IInv, Shapes, LoopFields
    <3>2. q + 1 = c[p + 1]
      <4>1. ~(q + 1 < c[p + 1])
        BY <1>4, <2>2 DEF MoreQuestions
      <4>2. p + 1 \in 1..Len(c)
        BY <1>3, <1>4 DEF PlanFits
      <4>3. c[p + 1] \in 1..5 /\ q \in Nat /\ q < c[p + 1]
        BY <1>3, <1>4, <4>2 DEF PlanFits
      <4> QED BY <4>1, <4>3
    <3>3. PlannedTo(c, p, q + 1) = PlannedTo(c, p + 1, 0)
      BY <1>3, <1>4, <3>2, PlannedEnds
    <3> QED BY <1>2, <1>4, <3>1, <3>3 DEF Reached, Question, Asking
  <2> QED BY <2>1, <2>2
<1>8. run'[a] # "SUCCEEDED"
  BY <1>1 DEF AccountInv
<1> QED BY <1>1, <1>5, <1>6, <1>7, <1>8 DEF AccountInv, Looping, Asking

\* A run that ends so has inserted nothing, or is not FAILED.
LEMMA BreaksAccount ==
    ASSUME IInv, AInv, Generating, Framed, NEW a \in Attempts, Breaking(a)
    PROVE  AccountInv(a)'
<1>1. /\ AccountInv(a) /\ Raised(a) /\ phase[a] \in {"start", "persist", "inserted"} \cup Looping
      /\ phase[a] = "inserted" => run'[a] = "RUNNING"
  BY BreakingEnds DEF AInv
<1>2. Settled(a)' = Settled(a) /\ Mine(a)' = Mine(a) /\ inputs' = inputs
  BY <1>1, MineStays DEF Raised, genVars, Settled
<1>3. Mine(a) # {} => run'[a] = "RUNNING"
  BY <1>1 DEF AccountInv
<1> QED BY <1>1, <1>2, <1>3 DEF AccountInv, Raised, Looping, Asking

-----------------------------------------------------------------------------
(* Each step of an attempt settles one question at most.                     *)

\* The attempt begins with nothing settled.
LEMMA StartAccount ==
    ASSUME IInv, AInv, Framed, NEW a \in Attempts, Generating, StartRun(a)
    PROVE  AccountInv(a)'
<1>1. /\ AccountInv(a) /\ ValidPlan /\ job.payload \in Plans /\ phase[a] = "start"
      /\ at[a].pack = 0
  BY DEF StartRun, AInv, IInv, PlanKnown, Generating, Placed
<1>2. Counts \in Seq(Nat)
  BY <1>1, PlanAssumption DEF Counts, Plan
<1>3. PlanFits(Counts)
  BY <1>1, <1>2 DEF ValidPlan, PlanFits
<1>4. /\ phase'[a] = "pack" /\ at'[a].pack = 0 /\ run'[a] = "RUNNING" /\ job' = job
      /\ UNCHANGED <<inputs, failures, tests>>
  BY <1>1 DEF StartRun, Go, Framed, IInv, Shapes, LoopFields
<1>5. Counts' = Counts /\ Mine(a)' = Mine(a)
  BY <1>4, PlanStays, MineStays
<1>6. Reached(a)' = 0
  BY <1>3, <1>4, <1>5, PlannedEnds DEF Reached, Question, Asking
<1>7. Settled(a)' = 0
  BY <1>1, <1>4 DEF AccountInv, Settled
<1> QED BY <1>1, <1>4, <1>5, <1>6, <1>7 DEF AccountInv, Looping, Asking

LEMMA InspectAccount ==
    ASSUME IInv, AInv, Framed, NEW a \in Attempts,
           BeginPack(a) \/ RequestTools(a) \/ CallTool(a) \/ FinishInspection(a)
    PROVE  AccountInv(a)'
<1>1. /\ phase[a] \in {"pack", "inspect", "tools"} /\ job' = job
      /\ UNCHANGED <<run, inputs, failures, tests>>
  BY DEF BeginPack, RequestTools, CallTool, FinishInspection
<1>2. CASE BeginPack(a) \/ FinishInspection(a)
  <2>1. /\ phase'[a] \in {"inspect", "generate"} /\ at'[a].pack = at[a].pack
        /\ phase'[a] = "generate" => at'[a].question = 0
    BY <1>2 DEF BeginPack, FinishInspection, ToQuestion, Go, Framed, IInv, Shapes, LoopFields
  <2>2. Question(a)' = Question(a)
    BY <1>1, <2>1 DEF Question, Asking
  <2> QED BY <1>1, <2>1, <2>2, SameQuestion DEF Looping, Asking
<1>3. CASE RequestTools(a) \/ CallTool(a)
  <2>1. phase'[a] \in {"inspect", "tools"} /\ at'[a].pack = at[a].pack
    BY <1>3 DEF RequestTools, CallTool, Go, Framed, IInv, Shapes, LoopFields
  <2>2. Question(a)' = Question(a)
    BY <1>1, <2>1 DEF Question, Asking
  <2> QED BY <1>1, <2>1, <2>2, SameQuestion DEF Looping, Asking
<1> QED BY <1>2, <1>3

\* A failure settles a question.
LEMMA FailureAccount ==
    ASSUME IInv, AInv, Framed, NEW a \in Attempts, phase[a] \in Asking, NEW new, NEW updated,
           NEW rows, QuestionFails(a, new, updated, rows)
    PROVE  AccountInv(a)'
<1>1. /\ Advance(a) /\ job' = job /\ tests' = tests /\ run' = run /\ inputs' = inputs
      /\ failures'[a] = failures[a] + 1
  BY DEF QuestionFails, Framed
<1>2. Settled(a)' = Settled(a) + 1
  BY <1>1 DEF Settled, AInv, GTypes
<1> QED BY <1>1, <1>2, NextQuestion

\* The loop goes on with the question.
LEMMA AgainAccount ==
    ASSUME IInv, AInv, Framed, NEW a \in Attempts, phase[a] \in Asking, NEW updated, NEW r, NEW g,
           AskAgain(a, updated, r, g)
    PROVE  AccountInv(a)'
<1>1. /\ phase'[a] = "generate" /\ job' = job
      /\ at'[a].pack = at[a].pack /\ at'[a].question = at[a].question
      /\ UNCHANGED <<run, inputs, failures, tests>>
  BY DEF AskAgain, Go, Framed, IInv, Shapes, LoopFields
<1>2. Question(a)' = Question(a)
  BY <1>1 DEF Question, Asking
<1> QED BY <1>1, <1>2, SameQuestion DEF Looping, Asking

LEMMA AskAccount ==
    ASSUME IInv, AInv, Framed, NEW a \in Attempts,
           \/ Failing(a) \/ AskModel(a) \/ ValidOutput(a) \/ InvalidOutput(a)
           \/ ValidEvidence(a) \/ InvalidEvidence(a)
    PROVE  AccountInv(a)'
<1>1. phase[a] \in Asking
  BY FailingGoes DEF AskModel, ValidOutput, InvalidOutput, ValidEvidence, InvalidEvidence, Asking
<1>2. CASE Failing(a)
  BY <1>1, <1>2, FailingGoes, FailureAccount
<1>3. CASE InvalidOutput(a) \/ InvalidEvidence(a)
  BY <1>1, <1>3, FailureAccount, AgainAccount DEF InvalidOutput, InvalidEvidence
<1>4. CASE AskModel(a) \/ ValidOutput(a) \/ ValidEvidence(a)
  <2>1. /\ phase'[a] \in {"validate", "verify", "dedupe"} /\ job' = job
        /\ at'[a].pack = at[a].pack /\ at'[a].question = at[a].question
        /\ UNCHANGED <<run, inputs, failures, tests>>
        /\ phase'[a] = "dedupe" => at'[a].draft \in Questions
    BY <1>4 DEF AskModel, ValidOutput, ValidEvidence, Go, Framed, IInv, Shapes, LoopFields
  <2>2. Question(a)' = Question(a)
    BY <1>1, <2>1 DEF Question, Asking
  <2> QED BY <1>1, <2>1, <2>2, SameQuestion DEF Looping, Asking
<1> QED BY <1>2, <1>3, <1>4

LEMMA DedupeAccount ==
    ASSUME IInv, AInv, Framed, NEW a \in Attempts,
           AcceptQuestion(a) \/ RejectDuplicate(a)
    PROVE  AccountInv(a)'
<1>1. phase[a] \in Asking /\ phase[a] = "dedupe"
  BY DEF AcceptQuestion, RejectDuplicate, Asking
<1>2. CASE AcceptQuestion(a)
  <2>1. /\ Advance(a) /\ job' = job /\ tests' = tests /\ run' = run /\ failures' = failures
        /\ inputs'[a] = Append(inputs[a], at[a].draft)
    BY <1>2 DEF AcceptQuestion, Framed
  <2>2. inputs[a] \in Seq(Questions) /\ failures[a] \in Nat
    BY DEF AInv, GTypes
  <2>3. Len(inputs'[a]) = Len(inputs[a]) + 1
    BY <2>1, <2>2
  <2>4. Settled(a)' = Settled(a) + 1
    BY <2>1, <2>2, <2>3 DEF Settled
  <2> QED BY <1>1, <2>1, <2>4, NextQuestion
<1>3. CASE \E new : QuestionFails(a, new, NoSteps, {})
  BY <1>1, <1>3, FailureAccount
<1>4. CASE RejectDuplicate(a) /\ ~\E new : QuestionFails(a, new, NoSteps, {})
  <2>1. /\ phase'[a] = "generate" /\ job' = job
        /\ at'[a].pack = at[a].pack /\ at'[a].question = at[a].question
        /\ UNCHANGED <<run, inputs, failures, tests>>
    BY <1>4 DEF RejectDuplicate, Go, Framed, IInv, Shapes, LoopFields
  <2>2. Question(a)' = Question(a)
    BY <1>1, <2>1 DEF Question, Asking
  <2> QED BY <1>1, <2>1, <2>2, SameQuestion DEF Looping, Asking
<1> QED BY <1>2, <1>3, <1>4

\* The table after an insertion: the new tests follow the others.
LEMMA InsertedRows ==
    ASSUME GTypes, Framed, NEW a \in Attempts, InsertTests(a)
    PROVE  /\ tests' \in Seq(TestRow) /\ Len(tests') = Len(tests) + Len(inputs[a])
           /\ \A i \in 1..Len(tests) : tests'[i] = tests[i]
           /\ \A i \in 1..Len(inputs[a]) :
                  tests'[Len(tests) + i] = [question |-> inputs[a][i], by |-> a]
<1> DEFINE rows == [i \in DOMAIN inputs[a] |-> [question |-> inputs[a][i], by |-> a]]
<1>1. inputs[a] \in Seq(Questions) /\ tests \in Seq(TestRow)
  BY DEF GTypes
<1>2. \A i \in 1..Len(inputs[a]) : [question |-> inputs[a][i], by |-> a] \in TestRow
  BY <1>1 DEF TestRow
<1>3. PICK n \in Nat : n = Len(inputs[a]) /\ DOMAIN inputs[a] = 1..n
  BY <1>1
<1>4. rows \in [1..n -> TestRow] /\ \A i \in 1..n : rows[i] = [question |-> inputs[a][i], by |-> a]
  BY <1>2, <1>3
<1>5. tests' = tests \o rows
  BY DEF InsertTests
<1> HIDE DEF rows
<1>6. rows \in Seq(TestRow) /\ Len(rows) = n
  BY <1>4
<1>7. tests \o rows \in Seq(TestRow) /\ Len(tests \o rows) = Len(tests) + n
  BY <1>1, <1>6
<1>8. \A i \in 1..Len(tests) : (tests \o rows)[i] = tests[i]
  BY <1>1, <1>6
<1>9. \A i \in 1..n : (tests \o rows)[Len(tests) + i] = rows[i]
  BY <1>1, <1>6
<1> QED BY <1>3, <1>4, <1>5, <1>7, <1>8, <1>9

LEMMA InsertAccount ==
    ASSUME IInv, AInv, Framed, NEW a \in Attempts, Generating, OpenInv(a), InsertTests(a)
    PROVE  AccountInv(a)'
<1>1. /\ AccountInv(a) /\ GTypes /\ phase[a] = "persist" /\ run[a] = "RUNNING"
      /\ phase'[a] = "inserted" /\ UNCHANGED <<job, run, inputs, failures>>
  BY DEF InsertTests, AInv, OpenInv, Live, Go, Framed
<1>2. Requested' = Requested /\ Settled(a)' = Settled(a)
  BY <1>1, PlanStays DEF Settled
<1>3. /\ inputs[a] \in Seq(Questions) /\ inputs[a] # << >> /\ tests \in Seq(TestRow)
      /\ Mine(a) = {} /\ Len(inputs[a]) \in Nat /\ Len(inputs[a]) # 0 /\ Len(tests) \in Nat
  BY <1>1 DEF AccountInv, GTypes
<1>4. PICK m \in Nat, n \in Nat : m = Len(tests) /\ n = Len(inputs[a])
  BY <1>3
<1>5. Mine(a)' = (m + 1)..(m + n)
  <2>1. /\ DOMAIN tests' = 1..(m + n) /\ DOMAIN tests = 1..m
        /\ \A i \in 1..m : tests'[i] = tests[i]
        /\ \A i \in 1..n : tests'[m + i] = [question |-> inputs[a][i], by |-> a]
    <3>1. /\ tests' \in Seq(TestRow) /\ Len(tests') = Len(tests) + Len(inputs[a])
          /\ \A i \in 1..Len(tests) : tests'[i] = tests[i]
          /\ \A i \in 1..Len(inputs[a]) :
                 tests'[Len(tests) + i] = [question |-> inputs[a][i], by |-> a]
      BY <1>1, InsertedRows
    <3>2. DOMAIN tests' = 1..Len(tests') /\ DOMAIN tests = 1..Len(tests)
      BY <1>3, <3>1
    <3> QED BY <1>4, <3>1, <3>2
  <2>2. \A i \in 1..m : tests'[i].by # a
    BY <1>3, <2>1 DEF Mine
  <2>3. ASSUME NEW i \in (m + 1)..(m + n) PROVE tests'[i].by = a
    <3>1. PICK k \in 1..n : i = m + k
      BY <1>4
    <3>2. tests'[m + k] = [question |-> inputs[a][k], by |-> a]
      BY <2>1, <3>1
    <3>3. tests'[m + k].by = a
      BY <3>2
    <3> QED BY <3>1, <3>3
  <2>4. \A i \in 1..(m + n) : i \in 1..m \/ i \in (m + 1)..(m + n)
    BY <1>4
  <2>5. \A i \in (m + 1)..(m + n) : i \in 1..(m + n)
    BY <1>4
  <2> QED BY <2>1, <2>2, <2>3, <2>4, <2>5 DEF Mine
<1>6. Cardinality(Mine(a)') = n /\ n # 0
  <2>1. Cardinality((m + 1)..(m + n)) = IF m + 1 > m + n THEN 0 ELSE (m + n) - (m + 1) + 1
    BY FS_Interval
  <2> QED BY <1>3, <1>4, <1>5, <2>1
<1>7. Mine(a)' # {}
  BY <1>6, FS_EmptySet
<1> QED BY <1>1, <1>2, <1>4, <1>6, <1>7 DEF AccountInv, Looping, Asking

LEMMA PersistAccount ==
    ASSUME IInv, AInv, Framed, NEW a \in Attempts, Generating, OpenInv(a),
           BeginPersist(a) \/ FinishRun(a)
    PROVE  AccountInv(a)'
<1>1. /\ AccountInv(a) /\ job' = job /\ UNCHANGED <<inputs, failures, tests>>
  BY DEF BeginPersist, FinishRun, AInv
<1>2. Requested' = Requested /\ Settled(a)' = Settled(a) /\ Mine(a)' = Mine(a)
  BY <1>1, PlanStays, MineStays DEF Settled
<1>3. CASE BeginPersist(a)
  <2>1. /\ phase[a] = "pack" /\ phase'[a] = "persist" /\ inputs[a] # << >>
        /\ at[a].pack = Len(Counts) /\ run' = run
    BY <1>3 DEF BeginPersist, LastPack, Go, Framed
  <2>2. Settled(a) = Requested
    BY <1>1, <2>1, PlanOf DEF AccountInv, Reached, Question, Looping, Asking
  <2> QED BY <1>1, <1>2, <2>1, <2>2 DEF AccountInv, Looping, Asking
<1>4. CASE FinishRun(a)
  <2>1. phase[a] = "inserted" /\ phase'[a] = "report" /\ run'[a] = "SUCCEEDED"
    BY <1>4 DEF FinishRun, Go, Framed
  <2> QED BY <1>1, <1>2, <2>1 DEF AccountInv, Looping, Asking
<1> QED BY <1>3, <1>4

LEMMA GenAccount ==
    ASSUME IInv, AInv, Framed, NEW a \in Attempts, Generating, OpenInv(a), GenStep(a)
    PROVE  AccountInv(a)'
    BY StartAccount, InspectAccount, AskAccount, DedupeAccount, BreaksAccount, InsertAccount,
       PersistAccount DEF GenStep, Breaking, Failing

\* What the steps of an attempt keep: types, and the account of the others.
LEMMA GenTypes ==
    ASSUME IInv, AInv, Framed, NEW a \in Attempts, Generating, GenStep(a)
    PROVE  GTypes'
<1>1. GTypes /\ (phase[a] = "dedupe" => at[a].draft \in Questions)
  BY DEF AInv, AccountInv
<1>2. CASE UNCHANGED <<inputs, failures, tests>>
  BY <1>1, <1>2 DEF GTypes
<1>3. CASE \E new, updated, rows : QuestionFails(a, new, updated, rows)
  <2>1. inputs' = inputs /\ tests' = tests /\ failures' = [failures EXCEPT ![a] = @ + 1]
    BY <1>3 DEF QuestionFails
  <2> QED BY <1>1, <2>1 DEF GTypes
<1>4. CASE AcceptQuestion(a)
  <2>1. /\ inputs' = [inputs EXCEPT ![a] = Append(inputs[a], at[a].draft)]
        /\ failures' = failures /\ tests' = tests /\ at[a].draft \in Questions
    BY <1>1, <1>4 DEF AcceptQuestion
  <2>2. Append(inputs[a], at[a].draft) \in Seq(Questions)
    BY <1>1, <2>1 DEF GTypes
  <2> QED BY <1>1, <2>1, <2>2 DEF GTypes
<1>5. CASE InsertTests(a)
  <2>1. inputs' = inputs /\ failures' = failures /\ tests' \in Seq(TestRow)
    BY <1>1, <1>5, InsertedRows DEF InsertTests
  <2> QED BY <1>1, <2>1 DEF GTypes
<1>6. CASE StartRun(a) \/ BeginPack(a) \/ RequestTools(a) \/ CallTool(a) \/ FinishInspection(a)
  BY <1>2, <1>6 DEF StartRun, BeginPack, RequestTools, CallTool, FinishInspection
<1>7. CASE Breaking(a)
  BY <1>2, <1>7, BreakingEnds DEF Raised, genVars
<1>8. CASE Failing(a)
  BY <1>3, <1>8, FailingGoes
<1>9. CASE InvalidOutput(a) \/ InvalidEvidence(a) \/ RejectDuplicate(a)
  BY <1>2, <1>3, <1>9 DEF InvalidOutput, InvalidEvidence, RejectDuplicate, AskAgain
<1>10. CASE AskModel(a) \/ ValidOutput(a) \/ ValidEvidence(a) \/ BeginPersist(a) \/ FinishRun(a)
  BY <1>2, <1>10 DEF AskModel, ValidOutput, ValidEvidence, BeginPersist, FinishRun
<1> QED BY <1>4, <1>5, <1>6, <1>7, <1>8, <1>9, <1>10 DEF GenStep, Breaking, Failing

\* Nobody inserts for another attempt.
LEMMA MineOnly ==
    ASSUME GTypes, Framed, NEW a \in Attempts, NEW b \in Attempts, a # b,
           GenStep(a) \/ tests' = tests
    PROVE  Mine(b)' = Mine(b)
<1>1. CASE tests' = tests
  BY <1>1, MineStays
<1>2. CASE InsertTests(a)
  <2>1. PICK m \in Nat, n \in Nat : m = Len(tests) /\ n = Len(inputs[a])
    BY DEF GTypes
  <2>2. /\ DOMAIN tests' = 1..(m + n) /\ DOMAIN tests = 1..m
        /\ \A i \in 1..m : tests'[i] = tests[i]
        /\ \A i \in 1..n : tests'[m + i] = [question |-> inputs[a][i], by |-> a]
    BY <1>2, <2>1, InsertedRows DEF GTypes
  <2>3. ASSUME NEW i \in 1..(m + n), i \notin 1..m PROVE tests'[i].by = a
    <3>1. PICK k \in 1..n : i = m + k
      <4>1. i - m \in 1..n /\ i = m + (i - m)
        BY <2>1, <2>3
      <4> QED BY <4>1
    <3>2. tests'[m + k] = [question |-> inputs[a][k], by |-> a]
      BY <2>2, <3>1
    <3>3. tests'[m + k].by = a
      BY <3>2
    <3> QED BY <3>1, <3>3
  <2>4. \A i \in 1..m : i \in 1..(m + n)
    BY <2>1
  <2> QED BY <2>2, <2>3, <2>4 DEF Mine
<1>3. CASE GenStep(a) /\ ~InsertTests(a)
  <2>1. CASE Breaking(a) \/ Failing(a)
    BY <1>1, <2>1, BreakingEnds, FailingGoes DEF Raised, genVars, QuestionFails
  <2>2. CASE ~Breaking(a) /\ ~Failing(a)
    <3>1. tests' = tests
      BY <1>3, <2>2 DEF GenStep, Breaking, Failing, StartRun, BeginPack, RequestTools, CallTool,
         FinishInspection, AskModel, ValidOutput, InvalidOutput, ValidEvidence, InvalidEvidence,
         AcceptQuestion, RejectDuplicate, BeginPersist, FinishRun, QuestionFails, AskAgain
    <3> QED BY <1>1, <3>1
  <2> QED BY <2>1, <2>2
<1> QED BY <1>1, <1>2, <1>3

\* An attempt nobody moved.
LEMMA OthersAccount ==
    ASSUME NEW b, Kept(b), Mine(b)' = Mine(b), job'.payload = job.payload, AccountInv(b)
    PROVE  AccountInv(b)'
<1>1. /\ Counts' = Counts /\ Requested' = Requested /\ Settled(b)' = Settled(b)
  BY PlanStays DEF Kept, Settled
<1>2. Reached(b)' = Reached(b)
  BY <1>1 DEF Reached, Question, Kept
<1> QED BY <1>1, <1>2 DEF AccountInv, Kept

LEMMA TurnAccount ==
    ASSUME NEW a \in Attempts, Turn(a), Framed', AccountInv(a)
    PROVE  AccountInv(a)'
<1>1. /\ Counts' = Counts /\ Requested' = Requested /\ Mine(a)' = Mine(a)
      /\ Settled(a)' = Settled(a)
  BY PlanStays, MineStays DEF Turn, JobMoves, Settled
<1>2. UNCHANGED <<run, inputs, failures>>
  BY DEF Turn
<1>3. CASE phase[a] = "idle" /\ phase'[a] = "start"
  BY <1>1, <1>2, <1>3 DEF AccountInv, Looping, Asking
<1>4. CASE phase'[a] \in {"raised", "done", "dead"}
  BY <1>1, <1>2, <1>4 DEF AccountInv, Looping, Asking
<1> QED BY <1>3, <1>4 DEF Turn

\* An attempt that is done stays as it is.
LEMMA DoneStays ==
    ASSUME NEW a \in Attempts, Only(a), ReportInv, job' = job, phase[a] # "done"
    PROVE  ReportInv'
<1> SUFFICES ASSUME job.status = "SUCCEEDED" PROVE ReportInv'
  BY DEF ReportInv
<1>1. PICK b \in Attempts : b = job.attempt
  BY DEF ReportInv
<1>2. Kept(b) /\ phase[b] = "done" /\ run[b] = "SUCCEEDED" /\ job.result = GenResult(b)
  BY <1>1 DEF ReportInv, Only
<1>3. GenResult(b)' = GenResult(b)
  BY <1>2 DEF GenResult, Kept
<1> QED BY <1>1, <1>2, <1>3 DEF ReportInv, Kept

LEMMA GenBusy ==
    ASSUME Framed, NEW a \in Attempts, GenStep(a)
    PROVE  phase[a] # "done"
<1>1. CASE Breaking(a) \/ Failing(a)
  BY <1>1, BreakingEnds, FailingGoes DEF Looping, Asking
<1>2. CASE ~Breaking(a) /\ ~Failing(a)
  BY <1>2 DEF GenStep, Breaking, Failing, StartRun, BeginPack, RequestTools, CallTool,
     FinishInspection, AskModel, ValidOutput, InvalidOutput, ValidEvidence, InvalidEvidence,
     AcceptQuestion, RejectDuplicate, BeginPersist, InsertTests, FinishRun
<1> QED BY <1>1, <1>2

LEMMA TurnReport ==
    ASSUME NEW a \in Attempts, Turn(a), Only(a), Generating, ReportInv, AccountInv(a)
    PROVE  ReportInv'
<1>1. phase[a] # "done"
  BY DEF Turn
<1>2. CASE job'.status = "SUCCEEDED" /\ job'.status = job.status
  BY <1>1, <1>2, DoneStays DEF Turn, JobMoves
<1>3. CASE job'.status = "SUCCEEDED" /\ job'.status # job.status
  <2>1. /\ phase[a] = "report" /\ job'.attempt = a /\ phase'[a] = "done" /\ run'[a] = run[a]
        /\ job'.result = GenResult(a)
    BY <1>3 DEF Turn, JobMoves, Generating
  <2>2. run[a] = "SUCCEEDED"
    BY <2>1 DEF AccountInv
  <2>3. GenResult(a)' = GenResult(a)
    BY DEF Turn, GenResult
  <2>4. PICK r : r = GenResult(a)
    OBVIOUS
  <2> QED BY <2>1, <2>2, <2>3, <2>4 DEF ReportInv
<1> QED BY <1>2, <1>3 DEF ReportInv

LEMMA NextAInv == IInv /\ OInv /\ AInv /\ [Next]_vars => AInv'
<1> SUFFICES ASSUME IInv, OInv, AInv, [Next]_vars PROVE AInv'
  OBVIOUS
<1>1. /\ Framed /\ GTypes /\ job'.type = job.type
      /\ Generating => job'.payload = job.payload
      /\ \A a \in Attempts : OpenInv(a)
  BY StepOf DEF OInv, AInv, Generating
<1>2. Generating' <=> Generating
  BY <1>1 DEF Generating
<1>3. CASE UNCHANGED <<inputs, failures, tests>> /\ ~Generating
  BY <1>1, <1>2, <1>3 DEF AInv, GTypes
<1>4. CASE Quiet /\ Generating
  <2>1. \A b \in Attempts : Kept(b) /\ Mine(b)' = Mine(b) /\ AccountInv(b)
    BY <1>4, MineStays DEF Quiet, Kept, AInv
  <2>2. \A b \in Attempts : AccountInv(b)'
    BY <1>1, <1>4, <2>1, OthersAccount
  <2>3. ReportInv'
    <3>1. ASSUME job' = job PROVE ReportInv'
      <4>1. \A b \in Attempts : GenResult(b)' = GenResult(b)
        BY <1>4 DEF Quiet, GenResult
      <4>2. ReportInv
        BY <1>4 DEF AInv
      <4>3. ASSUME NEW b \in Attempts, b = job.attempt, job.status = "SUCCEEDED"
            PROVE  ReportInv'
        BY <1>4, <3>1, <4>1, <4>2, <4>3 DEF ReportInv, Quiet
      <4> QED BY <3>1, <4>2, <4>3 DEF ReportInv
    <3> QED BY <1>4, <3>1 DEF Quiet, ReportInv
  <2>4. GTypes'
    BY <1>1, <1>4 DEF Quiet, GTypes
  <2> QED BY <1>2, <1>4, <2>2, <2>3, <2>4 DEF AInv
<1>5. ASSUME NEW a \in Attempts, Only(a), Generating,
             (GenStep(a) /\ job' = job) \/ Turn(a)
      PROVE  AInv'
  <2>1. AccountInv(a) /\ ReportInv /\ \A b \in Attempts : AccountInv(b)
    BY <1>5 DEF AInv
  <2>2. AccountInv(a)'
    BY <1>1, <1>5, <2>1, GenAccount, TurnAccount DEF Only
  <2>3. ASSUME NEW b \in Attempts, b # a PROVE AccountInv(b)'
    <3>1. Kept(b) /\ Mine(b)' = Mine(b)
      BY <1>1, <1>5, <2>3, MineOnly DEF Only, Turn
    <3> QED BY <1>1, <1>5, <2>1, <3>1, OthersAccount
  <2>4. ReportInv'
    BY <1>1, <1>5, <2>1, DoneStays, GenBusy, TurnReport
  <2>5. GTypes'
    BY <1>1, <1>5, GenTypes DEF Turn, GTypes
  <2> QED BY <1>2, <1>5, <2>2, <2>3, <2>4, <2>5 DEF AInv
<1>6. CASE Quiet
  BY <1>3, <1>4, <1>6 DEF Quiet
<1>7. ASSUME NEW a \in Attempts, Only(a),
             \/ job.type = "generate_test" /\ GenStep(a) /\ job' = job
             \/ /\ job.type = "judge_answer" /\ JudgeStep(a) /\ job' = job
                /\ UNCHANGED genVars
             \/ Turn(a)
      PROVE  AInv'
  BY <1>3, <1>5, <1>7 DEF Generating, Turn, genVars
<1> QED BY <1>1, <1>6, <1>7, StepOf

LEMMA InitAInv == Init => AInv
<1> SUFFICES ASSUME Init PROVE AInv
  OBVIOUS
<1>1. /\ phase = [a \in Attempts |-> "idle"] /\ run = [a \in Attempts |-> "none"]
      /\ inputs = [a \in Attempts |-> << >>] /\ failures = [a \in Attempts |-> 0]
      /\ tests = << >> /\ job.status \in {"QUEUED", "none"}
  BY DEF Init, GenInit, JudgeInit, JobInit, NoGeneration
<1>2. GTypes /\ ReportInv
  BY <1>1 DEF GTypes, ReportInv
<1>3. ASSUME NEW a \in Attempts PROVE AccountInv(a)
  <2>1. Mine(a) = {} /\ Settled(a) = 0
    BY <1>1 DEF Mine, Settled
  <2> QED BY <1>1, <2>1 DEF AccountInv, Looping, Asking
<1> QED BY <1>1, <1>2, <1>3 DEF AInv

LEMMA TestsFromAInv == IInv /\ AInv => TestsMatchRun
<1> SUFFICES ASSUME AInv, Generating PROVE TestsMatchRun
  BY DEF TestsMatchRun, Generating
<1>1. \A a \in Attempts : AccountInv(a)
  BY DEF AInv
<1>2. ASSUME job.status = "SUCCEEDED"
      PROVE  /\ job.result.generated = Cardinality(Mine(job.attempt))
             /\ job.result.generated + job.result.failed = Requested
  <2>1. PICK b \in Attempts : b = job.attempt
    BY <1>2 DEF AInv, ReportInv
  <2>2. run[b] = "SUCCEEDED" /\ job.result = GenResult(b) /\ AccountInv(b)
    BY <1>1, <1>2, <2>1 DEF AInv, ReportInv
  <2>3. job.result.generated = Len(inputs[b]) /\ job.result.failed = failures[b]
    BY <2>2 DEF GenResult
  <2> QED BY <2>1, <2>2, <2>3 DEF AccountInv, Settled
<1> QED BY <1>1, <1>2 DEF TestsMatchRun, AccountInv

\* The tests of an attempt appear all at once, never for a run that is FAILED, and
\* a job that succeeds reports every question of its plan as generated or failed:
\* generate_for_context_packs and create_many account for each question once.
THEOREM TestsAccountForPlan == Spec => []TestsMatchRun
<1>1. Init => IInv /\ OInv /\ AInv
  BY InitIInv, InitOInv, InitAInv
<1>2. IInv /\ OInv /\ AInv /\ [Next]_vars => (IInv /\ OInv /\ AInv)'
  BY NextIInv, NextOInv, NextAInv
<1>3. IInv /\ AInv => TestsMatchRun
  BY TestsFromAInv
<1> QED BY <1>1, <1>2, <1>3, PTL DEF Spec

-----------------------------------------------------------------------------
(* The questions that are repeated.                                          *)

\* A run looks back over as many questions as a job may have.
EnoughPrior == PriorLimit >= 15

\* What an attempt has accepted differs from one another and from what was there
\* when it began, all of which it has read.
RepeatInv(a) ==
    /\ \A i, j \in DOMAIN inputs[a] : i < j => ~Duplicates(inputs[a][i], inputs[a][j])
    /\ \A i \in DOMAIN inputs[a] : \A x \in at[a].prior : ~Duplicates(inputs[a][i], x)
    /\ at[a].read \in Nat /\ at[a].read <= Len(tests)
    /\ \A i \in 1..at[a].read : tests[i].question \in at[a].prior

RInv == RepeatsOnlyByOverlap /\ \A a \in Attempts : RepeatInv(a)

LEMMA SymmetricDuplicates ==
    ASSUME NEW x, NEW y, Duplicates(x, y)
    PROVE  Duplicates(y, x)
<1>1. {x, y} = {y, x}
  OBVIOUS
<1> QED BY <1>1 DEF Duplicates

\* Only the start of a run reads the earlier questions.
LEMMA PriorStays ==
    ASSUME IInv, Framed, NEW a \in Attempts, GenStep(a), ~StartRun(a)
    PROVE  at'[a].prior = at[a].prior /\ at'[a].read = at[a].read
<1> USE DEF Framed, IInv, Shapes, LoopFields
<1>1. CASE at' = at
  BY <1>1
<1>2. CASE Advance(a)
  BY <1>2 DEF Advance, ToQuestion
<1>3. CASE \E updated, r, g : AskAgain(a, updated, r, g)
  BY <1>3 DEF AskAgain
<1>4. CASE BeginPack(a) \/ FinishInspection(a)
  BY <1>1, <1>4 DEF BeginPack, FinishInspection, ToQuestion
<1>5. CASE RequestTools(a) \/ CallTool(a)
  BY <1>5 DEF RequestTools, CallTool
<1>6. CASE Breaking(a)
  <2>1. at' = at
    BY <1>6, BreakingEnds DEF Raised, genVars
  <2> QED BY <1>1, <2>1
<1>7. CASE Failing(a) \/ AcceptQuestion(a)
  <2>1. Advance(a)
    BY <1>7, FailingGoes DEF AcceptQuestion, QuestionFails
  <2> QED BY <1>2, <2>1
<1>8. CASE InvalidOutput(a) \/ InvalidEvidence(a)
  BY <1>2, <1>3, <1>8 DEF InvalidOutput, InvalidEvidence, QuestionFails
<1>9. CASE RejectDuplicate(a)
  BY <1>2, <1>9 DEF RejectDuplicate, QuestionFails
<1>10. CASE AskModel(a) \/ ValidOutput(a) \/ BeginPersist(a) \/ InsertTests(a) \/ FinishRun(a)
  BY <1>1, <1>10 DEF AskModel, ValidOutput, BeginPersist, InsertTests, FinishRun
<1>11. CASE ValidEvidence(a)
  BY <1>11 DEF ValidEvidence
<1> QED BY <1>4, <1>5, <1>6, <1>7, <1>8, <1>9, <1>10, <1>11 DEF GenStep, Breaking, Failing

\* Steps that accept, insert and read nothing.
LEMMA RepeatStays ==
    ASSUME GTypes, RInv, inputs' = inputs, tests' = tests,
           \A b \in Attempts : at'[b].prior = at[b].prior /\ at'[b].read = at[b].read
    PROVE  RInv'
<1>1. ASSUME NEW b \in Attempts PROVE RepeatInv(b)'
  <2>1. RepeatInv(b) /\ at'[b].prior = at[b].prior /\ at'[b].read = at[b].read
    BY DEF RInv
  <2> QED BY <2>1 DEF RepeatInv, Duplicates
<1>2. ASSUME NEW j \in DOMAIN tests PROVE at'[tests[j].by].read = at[tests[j].by].read
  <2>1. tests[j] \in TestRow
    BY DEF GTypes
  <2>2. tests[j].by \in Attempts
    BY <2>1 DEF TestRow
  <2> QED BY <2>2
<1>3. RepeatsOnlyByOverlap'
  BY <1>2 DEF RInv, RepeatsOnlyByOverlap, Duplicates
<1> QED BY <1>1, <1>3 DEF RInv

\* All the tests there are when a run starts are within what it looks at: they
\* are the other attempt's.
LEMMA FewTests ==
    ASSUME AInv, Generating, NEW a \in Attempts, Mine(a) = {}
    PROVE  Len(tests) <= 15
<1>1. GTypes /\ tests \in Seq(TestRow)
  BY DEF AInv, GTypes
<1>2. PICK n \in Nat : n = Len(tests) /\ DOMAIN tests = 1..n
  BY <1>1
<1>3. PICK b \in Attempts : b # a
  BY DEF Attempts
<1>4. ASSUME NEW i \in 1..n PROVE tests[i].by = b
  <2>1. tests[i] \in TestRow
    BY <1>1, <1>2
  <2>2. tests[i].by \in Attempts /\ tests[i].by # a
    BY <1>2, <2>1 DEF TestRow, Mine
  <2> QED BY <1>3, <2>2 DEF Attempts
<1>5. Mine(b) = 1..n
  BY <1>2, <1>4 DEF Mine
<1>6. Cardinality(Mine(b)) = n
  <2>1. Cardinality(1..n) = IF 1 > n THEN 0 ELSE n - 1 + 1
    BY FS_Interval
  <2> QED BY <1>5, <2>1
<1>7. CASE n = 0
  BY <1>2, <1>7
<1>8. CASE n # 0
  <2>1. AccountInv(b) /\ inputs[b] \in Seq(Questions) /\ failures[b] \in Nat
    BY <1>1 DEF AInv, GTypes
  <2>2. Mine(b) # {}
    BY <1>5, <1>8
  <2>3. n = Len(inputs[b]) /\ Len(inputs[b]) + failures[b] <= 15
    BY <1>6, <2>1, <2>2 DEF AccountInv, Settled
  <2>4. Len(inputs[b]) \in Nat
    BY <2>1
  <2> QED BY <1>2, <2>1, <2>3, <2>4
<1> QED BY <1>7, <1>8

LEMMA StartRepeat ==
    ASSUME IInv, AInv, RInv, Framed, Generating, EnoughPrior, NEW a \in Attempts, StartRun(a)
    PROVE  RInv'
<1>1. /\ phase[a] = "start" /\ tests' = tests /\ inputs' = inputs /\ inputs[a] = << >>
      /\ Mine(a) = {} /\ GTypes
  BY DEF StartRun, AInv, AccountInv
<1>2. tests \in Seq(TestRow) /\ Len(tests) \in Nat
  BY <1>1 DEF GTypes
<1>3. /\ at'[a].prior = QuestionsOf(Newest(PriorLimit)) /\ at'[a].read = Len(tests)
      /\ \A b \in Attempts \ {a} : at'[b] = at[b]
  BY DEF StartRun, Framed, IInv, Shapes, LoopFields
<1>4. Newest(PriorLimit) = tests
  <2>1. ~(Len(tests) > PriorLimit)
    BY <1>1, <1>2, FewTests, BoundAssumption DEF EnoughPrior
  <2>2. Newest(PriorLimit) = SubSeq(tests, 1, Len(tests))
    BY <2>1 DEF Newest
  <2>3. SubSeq(tests, 1, Len(tests)) = tests
    BY <1>2
  <2> QED BY <2>2, <2>3
<1>5. \A i \in 1..Len(tests) : tests[i].question \in at'[a].prior
  <2>1. DOMAIN tests = 1..Len(tests)
    BY <1>2
  <2> QED BY <1>3, <1>4, <2>1 DEF QuestionsOf
<1>6. RepeatInv(a)'
  <2>1. DOMAIN inputs'[a] = {}
    BY <1>1
  <2> QED BY <1>1, <1>2, <1>3, <1>5, <2>1 DEF RepeatInv
<1>7. ASSUME NEW b \in Attempts \ {a} PROVE RepeatInv(b)'
  <2>1. RepeatInv(b) /\ at'[b] = at[b]
    BY <1>3 DEF RInv
  <2> QED BY <1>1, <2>1 DEF RepeatInv, Duplicates
<1>8. ASSUME NEW j \in DOMAIN tests PROVE at'[tests[j].by].read = at[tests[j].by].read
  <2>1. tests[j] \in TestRow
    BY <1>1 DEF GTypes
  <2>2. tests[j].by \in Attempts \ {a}
    BY <1>1, <2>1 DEF TestRow, Mine
  <2> QED BY <1>3, <2>2
<1>9. RepeatsOnlyByOverlap'
  BY <1>1, <1>8 DEF RInv, RepeatsOnlyByOverlap, Duplicates
<1> QED BY <1>6, <1>7, <1>9 DEF RInv

LEMMA AcceptRepeat ==
    ASSUME IInv, AInv, RInv, Framed, NEW a \in Attempts, AcceptQuestion(a)
    PROVE  RInv'
<1>1. /\ ~IsDuplicate(a) /\ inputs' = [inputs EXCEPT ![a] = Append(inputs[a], at[a].draft)]
      /\ tests' = tests /\ GTypes
  BY DEF AcceptQuestion, AInv
<1>2. \A b \in Attempts : at'[b].prior = at[b].prior /\ at'[b].read = at[b].read
  <2>1. at'[a].prior = at[a].prior /\ at'[a].read = at[a].read
    BY DEF AcceptQuestion, Advance, ToQuestion, Framed, IInv, Shapes, LoopFields
  <2>2. \A b \in Attempts \ {a} : at'[b] = at[b]
    BY DEF AcceptQuestion, Advance, ToQuestion, Framed
  <2> QED BY <2>1, <2>2
<1>3. ASSUME NEW b \in Attempts \ {a} PROVE RepeatInv(b)'
  <2>1. RepeatInv(b) /\ inputs'[b] = inputs[b]
    BY <1>1 DEF RInv, Framed
  <2> QED BY <1>1, <1>2, <2>1 DEF RepeatInv, Duplicates
<1>4. RepeatInv(a)'
  <2>1. PICK n \in Nat : n = Len(inputs[a]) /\ DOMAIN inputs[a] = 1..n
    BY <1>1 DEF GTypes
  <2>2. inputs[a] \in Seq(Questions) /\ inputs'[a] = Append(inputs[a], at[a].draft)
    BY <1>1 DEF GTypes
  <2>3. /\ DOMAIN inputs'[a] = 1..(n + 1) /\ inputs'[a][n + 1] = at[a].draft
        /\ \A i \in 1..n : inputs'[a][i] = inputs[a][i]
    BY <2>1, <2>2
  <2>4. /\ \A i \in 1..n : ~Duplicates(at[a].draft, inputs[a][i])
        /\ \A x \in at[a].prior : ~Duplicates(at[a].draft, x)
    BY <1>1, <2>1 DEF IsDuplicate, Excluded, Chosen
  <2>5. RepeatInv(a)
    BY DEF RInv
  <2>6. PICK new : new = inputs'[a]
    OBVIOUS
  <2>7. ASSUME NEW i \in 1..(n + 1), NEW j \in 1..(n + 1), i < j
        PROVE  ~Duplicates(new[i], new[j])
    <3>1. i \in 1..n /\ new[i] = inputs[a][i]
      BY <2>1, <2>3, <2>6, <2>7
    <3>2. CASE j = n + 1
      BY <2>3, <2>4, <2>6, <3>1, <3>2, SymmetricDuplicates
    <3>3. CASE j \in 1..n
      BY <2>1, <2>3, <2>5, <2>6, <2>7, <3>1, <3>3 DEF RepeatInv
    <3> QED BY <2>1, <3>2, <3>3
  <2>8. ASSUME NEW i \in 1..(n + 1), NEW x \in at[a].prior PROVE ~Duplicates(new[i], x)
    <3>1. CASE i = n + 1
      BY <2>3, <2>4, <2>6, <3>1
    <3>2. CASE i \in 1..n
      BY <2>1, <2>3, <2>5, <2>6, <3>2 DEF RepeatInv
    <3> QED BY <2>1, <3>1, <3>2
  <2>9. /\ at'[a].read \in Nat /\ at'[a].read <= Len(tests')
        /\ \A i \in 1..at'[a].read : tests'[i].question \in at'[a].prior
    BY <1>1, <1>2, <2>5 DEF RepeatInv
  <2>10. /\ \A i, j \in DOMAIN inputs'[a] : i < j => ~Duplicates(inputs'[a][i], inputs'[a][j])
         /\ \A i \in DOMAIN inputs'[a] : \A x \in at'[a].prior : ~Duplicates(inputs'[a][i], x)
    BY <1>2, <2>3, <2>6, <2>7, <2>8
  <2> QED BY <2>9, <2>10 DEF RepeatInv, Duplicates
<1>5. ASSUME NEW j \in DOMAIN tests PROVE at'[tests[j].by].read = at[tests[j].by].read
  <2>1. tests[j] \in TestRow
    BY <1>1 DEF GTypes
  <2>2. tests[j].by \in Attempts
    BY <2>1 DEF TestRow
  <2> QED BY <1>2, <2>2
<1>6. RepeatsOnlyByOverlap'
  BY <1>1, <1>5 DEF RInv, RepeatsOnlyByOverlap, Duplicates
<1> QED BY <1>3, <1>4, <1>6 DEF RInv

LEMMA InsertRepeat ==
    ASSUME IInv, AInv, RInv, Framed, Generating, NEW a \in Attempts, InsertTests(a)
    PROVE  RInv'
<1>1. /\ GTypes /\ Mine(a) = {} /\ UNCHANGED <<at, inputs>> /\ RepeatInv(a)
      /\ tests \in Seq(TestRow) /\ inputs[a] \in Seq(Questions)
  BY DEF InsertTests, AInv, AccountInv, RInv, GTypes
<1>2. PICK m \in Nat, n \in Nat : /\ m = Len(tests) /\ n = Len(inputs[a])
                                  /\ DOMAIN inputs[a] = 1..n
  BY <1>1
<1>3. PICK new : new = tests'
  OBVIOUS
<1>4. /\ DOMAIN new = 1..(m + n) /\ Len(new) = m + n
      /\ \A i \in 1..m : new[i] = tests[i]
      /\ \A i \in 1..n : new[m + i] = [question |-> inputs[a][i], by |-> a]
  <2>1. /\ tests' \in Seq(TestRow) /\ Len(tests') = Len(tests) + Len(inputs[a])
        /\ \A i \in 1..Len(tests) : tests'[i] = tests[i]
        /\ \A i \in 1..Len(inputs[a]) :
               tests'[Len(tests) + i] = [question |-> inputs[a][i], by |-> a]
    BY <1>1, InsertedRows
  <2>2. new \in Seq(TestRow) /\ Len(new) = m + n
    BY <1>2, <1>3, <2>1
  <2>3. DOMAIN new = 1..(m + n)
    BY <2>2
  <2> QED BY <1>2, <1>3, <2>1, <2>2, <2>3
<1>5. \A i \in 1..m : new[i].by # a
  BY <1>1, <1>2, <1>4 DEF Mine
<1>6. ASSUME NEW k \in 1..n PROVE new[m + k].question = inputs[a][k] /\ new[m + k].by = a
  <2>1. new[m + k] = [question |-> inputs[a][k], by |-> a]
    BY <1>4
  <2> QED BY <2>1
<1>7. ASSUME NEW i \in 1..(m + n), NEW j \in 1..(m + n), i < j,
             Duplicates(new[i].question, new[j].question)
      PROVE  new[i].by # new[j].by /\ i > at[new[j].by].read
  <2>1. CASE j \in 1..m
    <3>1. i \in 1..m
      BY <1>7, <2>1
    <3> QED BY <1>1, <1>2, <1>4, <1>7, <2>1, <3>1 DEF RInv, RepeatsOnlyByOverlap
  <2>2. CASE j \notin 1..m
    <3>1. PICK k \in 1..n : j = m + k
      <4>1. j - m \in 1..n /\ j = m + (j - m)
        BY <2>2
      <4> QED BY <4>1
    <3>2. new[j].question = inputs[a][k] /\ new[j].by = a
      BY <1>6, <3>1
    <3>3. CASE i \in 1..m
      <4>1. new[i].by # a
        BY <1>5, <3>3
      <4>2. at[a].read \in Nat
        BY <1>1 DEF RepeatInv
      <4>3. ASSUME i <= at[a].read PROVE FALSE
        <5>1. tests[i].question \in at[a].prior
          BY <1>1, <3>3, <4>2, <4>3 DEF RepeatInv
        <5>2. Duplicates(inputs[a][k], tests[i].question)
          BY <1>4, <1>7, <3>2, <3>3, SymmetricDuplicates
        <5> QED BY <1>1, <1>2, <5>1, <5>2 DEF RepeatInv
      <4> QED BY <3>2, <4>1, <4>2, <4>3
    <3>4. CASE i \notin 1..m
      <4>1. PICK l \in 1..n : i = m + l
        <5>1. i - m \in 1..n /\ i = m + (i - m)
          BY <3>4
        <5> QED BY <5>1
      <4>2. new[i].question = inputs[a][l] /\ l < k
        BY <1>6, <1>7, <3>1, <4>1
      <4> QED BY <1>1, <1>2, <1>7, <3>2, <4>2 DEF RepeatInv
    <3> QED BY <3>3, <3>4
  <2> QED BY <2>1, <2>2
<1>8. RepeatsOnlyByOverlap'
  <2>1. DOMAIN tests' = 1..(m + n) /\ at' = at
    BY <1>1, <1>3, <1>4
  <2>2. ASSUME NEW i \in 1..(m + n), NEW j \in 1..(m + n), i < j,
               Duplicates(tests'[i].question, tests'[j].question)
        PROVE  tests'[i].by # tests'[j].by /\ i > at'[tests'[j].by].read
    BY <1>3, <1>7, <2>1, <2>2
  <2> QED BY <2>1, <2>2 DEF RepeatsOnlyByOverlap, Duplicates
<1>9. ASSUME NEW b \in Attempts PROVE RepeatInv(b)'
  <2>1. RepeatInv(b) /\ at' = at /\ inputs' = inputs
    BY <1>1 DEF RInv
  <2>2. /\ at[b].read \in Nat /\ at[b].read <= m
        /\ \A i \in 1..at[b].read : tests[i].question \in at[b].prior
    BY <1>2, <2>1 DEF RepeatInv
  <2>3. at[b].read <= Len(new) /\ \A i \in 1..at[b].read : new[i].question \in at[b].prior
    BY <1>4, <2>2
  <2> QED BY <1>3, <2>1, <2>2, <2>3 DEF RepeatInv, Duplicates
<1> QED BY <1>8, <1>9 DEF RInv

LEMMA NextRInv == EnoughPrior /\ IInv /\ OInv /\ AInv /\ RInv /\ [Next]_vars => RInv'
<1> SUFFICES ASSUME EnoughPrior, IInv, OInv, AInv, RInv, [Next]_vars PROVE RInv'
  OBVIOUS
<1>1. Framed /\ GTypes
  BY DEF OInv, AInv
<1>2. CASE UNCHANGED <<at, inputs, tests>>
  BY <1>1, <1>2, RepeatStays
<1>3. ASSUME NEW a \in Attempts, Only(a), Generating, GenStep(a) PROVE RInv'
  <2>1. CASE StartRun(a) \/ AcceptQuestion(a) \/ InsertTests(a)
    BY <1>1, <1>3, <2>1, StartRepeat, AcceptRepeat, InsertRepeat
  <2>2. CASE ~StartRun(a) /\ ~AcceptQuestion(a) /\ ~InsertTests(a)
    <3>1. inputs' = inputs /\ tests' = tests
      <4>1. CASE Breaking(a) \/ Failing(a)
        BY <1>1, <4>1, BreakingEnds, FailingGoes DEF Raised, genVars, QuestionFails
      <4>2. CASE ~Breaking(a) /\ ~Failing(a)
        BY <1>3, <2>2, <4>2 DEF GenStep, Breaking, Failing, BeginPack, RequestTools, CallTool,
           FinishInspection, AskModel, ValidOutput, InvalidOutput, ValidEvidence,
           InvalidEvidence, RejectDuplicate, BeginPersist, FinishRun, QuestionFails, AskAgain
      <4> QED BY <4>1, <4>2
    <3>2. \A b \in Attempts : at'[b].prior = at[b].prior /\ at'[b].read = at[b].read
      BY <1>1, <1>3, <2>2, PriorStays DEF Only, Kept
    <3> QED BY <1>1, <3>1, <3>2, RepeatStays
  <2> QED BY <2>1, <2>2
<1>4. CASE Quiet
  BY <1>2, <1>4 DEF Quiet
<1>5. ASSUME NEW a \in Attempts, Only(a),
             \/ job.type = "generate_test" /\ GenStep(a)
             \/ UNCHANGED genVars
             \/ Turn(a)
      PROVE  RInv'
  BY <1>2, <1>3, <1>5 DEF Generating, Turn, genVars
<1> QED BY <1>1, <1>4, <1>5, StepOf

LEMMA InitRInv == Init => RInv
<1> SUFFICES ASSUME Init PROVE RInv
  OBVIOUS
<1>1. /\ at = [a \in Attempts |-> Fresh] /\ inputs = [a \in Attempts |-> << >>]
      /\ tests = << >>
  BY DEF Init, GenInit, JudgeInit, NoGeneration
<1>2. ASSUME NEW a \in Attempts PROVE RepeatInv(a)
  BY <1>1 DEF RepeatInv, Fresh
<1>3. RepeatsOnlyByOverlap
  BY <1>1 DEF RepeatsOnlyByOverlap
<1> QED BY <1>2, <1>3 DEF RInv

\* Within a run no question is repeated, and a retry repeats one only if the other
\* attempt inserted it after the retry had begun, for a run that looks back over
\* as many questions as the job can have (_prior_questions asks for 50).
THEOREM RetriesRepeatByOverlap ==
    ASSUME EnoughPrior
    PROVE  Spec => []RepeatsOnlyByOverlap
<1>1. Init => IInv /\ OInv /\ AInv /\ RInv
  BY InitIInv, InitOInv, InitAInv, InitRInv
<1>2. IInv /\ OInv /\ AInv /\ RInv /\ [Next]_vars => (IInv /\ OInv /\ AInv /\ RInv)'
  BY EnoughPrior, NextIInv, NextOInv, NextAInv, NextRInv
<1>3. RInv => RepeatsOnlyByOverlap
  BY DEF RInv
<1> QED BY <1>1, <1>2, <1>3, PTL DEF Spec

-----------------------------------------------------------------------------
(* The inductive invariant, on top of the shapes of IInv.                    *)

Judging == job.type = "judge_answer"

ResultRow == [answer : Nat, by : Attempts, score : Nat, status : Grades, alert : BOOLEAN]

JudgeTypes ==
    /\ job.type \in {"generate_test", "judge_answer"}
    /\ answers \in Seq(Submission)
    /\ verdict \in [Attempts -> Judgement]
    /\ results \in Seq(ResultRow)
    /\ learnings \in Seq(Nat)
    /\ DOMAIN run = Attempts /\ DOMAIN torn = Attempts
    /\ ~Judging => results = << >>

\* The job is enqueued after its answer is saved, and then no other is.
AnswerInv ==
    /\ api = "saved" => job.status = "none" /\ answers # << >>
    /\ Judging /\ job.status # "none" => job.payload = Len(answers) /\ answers # << >>
    /\ Judging /\ job.status = "none" => \A a \in Attempts : phase[a] = "idle"

Graded(answer, v) ==
    /\ v.status = Grade(v.score)
    /\ Safeguarded(answer) => v.score = 20000
Answer == answers[job.payload]

By(a) == {i \in DOMAIN results : results[i].by = a}
Learned(i) == \E n \in DOMAIN learnings : learnings[n] = i

\* Where an attempt is, whether it has a result and what its run says.
AttemptInv(a) ==
    /\ phase[a] \in {"judge", "judged"} => run[a] = "RUNNING"
    /\ phase[a] = "judged" => Graded(Answer, verdict[a])
    /\ phase[a] \in {"idle", "start", "judge", "judged"} => By(a) = {}
    /\ phase[a] \in {"inserted", "learned", "saved", "report"} => By(a) # {}

\* A result is what the verdict of its attempt makes of the answer.  It has its
\* learning from where the two are saved, and the run of the attempt can only be
\* FAILED after that by the mark of the insertion's step.
ResultInv(i) ==
    LET r == results[i]
        v == verdict[r.by]
    IN  /\ r.answer = job.payload
        /\ Graded(Answer, v)
        /\ r.score = Stored(v.score) /\ r.status = v.status
        /\ r.alert = (v.status # "passing")
        /\ phase[r.by] = "inserted" => run[r.by] = "RUNNING" /\ ~Learned(i)
        /\ phase[r.by] \in {"learned", "saved"} =>
               run[r.by] = "RUNNING" /\ (v.learning <=> Learned(i))
        /\ Learned(i) => v.learning
        /\ run[r.by] = "FAILED" => \/ v.learning /\ ~Learned(i)
                                   \/ SaveSeq \in torn[r.by] /\ (v.learning => Learned(i))
        /\ run[r.by] = "SUCCEEDED" => (v.learning <=> Learned(i))

Reported(i) ==
    /\ results[i].by = job.attempt
    /\ job.result = [score |-> results[i].score, status |-> results[i].status]

JInv ==
    /\ JudgeTypes /\ AnswerInv
    /\ Judging => \A a \in Attempts : AttemptInv(a)
    /\ \A i \in DOMAIN results : ResultInv(i)
    /\ \A i, j \in DOMAIN results : results[i].by = results[j].by => i = j
    /\ \A n \in DOMAIN learnings : learnings[n] \in DOMAIN results
    /\ \A n, m \in DOMAIN learnings : learnings[n] = learnings[m] => n = m
    /\ Judging /\ job.status = "SUCCEEDED" => \E i \in DOMAIN results : Reported(i)

-----------------------------------------------------------------------------
(* The policy.                                                               *)

\* Rounding to four decimals moves a score across a threshold only when it is
\* half a digit below it, and then onto it.
LEMMA Rounding ==
    ASSUME NEW s \in Nat, s <= 20000
    PROVE  /\ Stored(s) \in Nat /\ Stored(s) <= 10000
           /\ Grade(s) = Grade(2 * Stored(s)) \/ Stored(s) \in {4000, 8000}
           /\ Stored(s) < 8000 => Grade(s) # "passing"
           /\ Grade(s) # "passing" => Stored(s) <= 8000
           /\ s = 20000 => Stored(s) = 10000
<1>1. PICK n \in Nat : s \div 2 = n /\ s % 2 = s - 2 * n /\ s % 2 \in {0, 1}
  OBVIOUS
<1>2. PICK k \in Nat : n % 2 = n - 2 * k /\ n % 2 \in {0, 1}
  <2>1. n \div 2 \in Nat /\ n % 2 = n - 2 * (n \div 2) /\ n % 2 \in {0, 1}
    OBVIOUS
  <2> QED BY <2>1
<1>3. Stored(s) = IF s = 2 * n THEN n ELSE n + (n - 2 * k)
  BY <1>1, <1>2 DEF Stored
<1>5. CASE s = 2 * n
  <2>1. Stored(s) = n
    BY <1>3, <1>5
  <2> QED BY <1>5, <2>1 DEF Grade
<1>6. CASE s = 2 * n + 1 /\ n = 2 * k
  <2>1. Stored(s) = n /\ 2 * Stored(s) = s - 1
    BY <1>3, <1>6
  <2>2. (s >= 16000 <=> s - 1 >= 16000) /\ (s >= 8000 <=> s - 1 >= 8000)
    BY <1>6
  <2>3. Grade(s) = Grade(s - 1)
    BY <2>2 DEF Grade
  <2> QED BY <1>6, <2>1, <2>2, <2>3 DEF Grade
<1>7. CASE s = 2 * n + 1 /\ n = 2 * k + 1
  <2>1. Stored(s) = n + 1 /\ 2 * Stored(s) = s + 1 /\ n < 10000
    BY <1>3, <1>7
  <2>2. CASE s = 15999 \/ s = 7999
    BY <2>1, <2>2 DEF Grade
  <2>3. CASE s # 15999 /\ s # 7999
    <3>1. (s >= 16000 <=> s + 1 >= 16000) /\ (s >= 8000 <=> s + 1 >= 8000)
      BY <2>3
    <3>2. Grade(s) = Grade(s + 1)
      BY <3>1 DEF Grade
    <3> QED BY <1>7, <2>1, <3>1, <3>2 DEF Grade
  <2> QED BY <2>2, <2>3
<1>8. (s = 2 * n) \/ (s = 2 * n + 1 /\ n = 2 * k) \/ (s = 2 * n + 1 /\ n = 2 * k + 1)
  BY <1>1, <1>2
<1> QED BY <1>5, <1>6, <1>7, <1>8

\* What the policy returns is graded, and in full where it is a safeguard.
LEMMA Policy ==
    ASSUME NEW answer \in Submission, NEW judgement \in Judgement
    PROVE  /\ Judged(answer, judgement) \in Judgement
           /\ Judged(answer, judgement).status = Grade(Judged(answer, judgement).score)
           /\ Safeguarded(answer) => Judged(answer, judgement).score = 20000
<1>1. Grade(judgement.score) \in Grades /\ Grade(20000) = "passing" /\ 20000 \in Scores
  BY DEF Grade, Grades, Scores
<1>2. CASE Safeguarded(answer) /\ judgement.score # 20000
  <2>1. Judged(answer, judgement) = FullScore
    BY <1>2 DEF Judged
  <2> QED BY <1>1, <2>1 DEF FullScore, Judgement, Grades
<1>3. CASE ~(Safeguarded(answer) /\ judgement.score # 20000)
  <2>1. Judged(answer, judgement) = Aligned(judgement)
    BY <1>3 DEF Judged
  <2> QED BY <1>1, <1>3, <2>1 DEF Aligned, Judgement
<1> QED BY <1>2, <1>3

-----------------------------------------------------------------------------
(* Steps that leave the results alone.                                       *)

\* Every result is an attempt's.
LEMMA ResultOwner ==
    ASSUME JudgeTypes, NEW i \in DOMAIN results
    PROVE  results[i] \in ResultRow /\ results[i].by \in Attempts
<1>1. results \in Seq(ResultRow)
  BY DEF JudgeTypes
<1>2. results[i] \in ResultRow
  BY <1>1
<1> QED BY <1>2 DEF ResultRow

\* The row of a result stays true while its attempt keeps its verdict and run,
\* and does not go back to where the learning is saved.
LEMMA ResultKept ==
    ASSUME NEW i, ResultInv(i), results'[i] = results[i], job'.payload = job.payload,
           answers' = answers, verdict'[results[i].by] = verdict[results[i].by],
           run'[results[i].by] = run[results[i].by], Learned(i)' = Learned(i),
           torn'[results[i].by] = torn[results[i].by],
           \/ phase'[results[i].by] = phase[results[i].by]
           \/ phase'[results[i].by] \notin {"inserted", "learned", "saved"}
    PROVE  ResultInv(i)'
    BY DEF ResultInv, Answer

\* A job that is not for judging has no results.
LEMMA OtherJobs ==
    ASSUME IInv, JInv, ~Judging, UNCHANGED judgeVars, job'.type = job.type,
           DOMAIN run' = Attempts, DOMAIN torn' = Attempts
    PROVE  JInv'
<1>0. api # "saved" /\ results = << >> /\ results' = results
  BY DEF IInv, PlanKnown, Judging, JInv, JudgeTypes, judgeVars
<1>1. api # "saved" /\ DOMAIN results = {} /\ results' = << >>
  BY <1>0
<1>2. JudgeTypes' /\ ~Judging'
  BY DEF JInv, JudgeTypes, judgeVars, Judging
<1>3. AnswerInv'
  BY <1>1, <1>2 DEF AnswerInv, judgeVars
<1> QED BY <1>1, <1>2, <1>3 DEF JInv, judgeVars

\* Steps of the queue: attempts start or stop, and the job succeeds, if it does
\* now, with a result.
LEMMA QueueJInv ==
    ASSUME IInv, JInv, Judging, UNCHANGED <<judgeVars, run, torn>>,
           job'.type = job.type, job'.payload = job.payload,
           job'.status = "none" <=> job.status = "none",
           job.status = "none" => phase' = phase,
           job'.status = "SUCCEEDED" =>
               \/ job.status = "SUCCEEDED" /\ job'.attempt = job.attempt /\ job'.result = job.result
               \/ \E i \in DOMAIN results : Reported(i)',
           \A a \in Attempts : \/ phase'[a] = phase[a]
                               \/ phase'[a] \in {"raised", "done", "dead"}
                               \/ phase[a] = "idle" /\ phase'[a] = "start"
    PROVE  JInv'
<1>1. JudgeTypes' /\ Judging' /\ UNCHANGED <<answers, api, verdict, results, learnings, run, torn>>
  BY DEF JInv, JudgeTypes, judgeVars, Judging
<1>2. AnswerInv'
  BY <1>1 DEF JInv, AnswerInv
<1>3. \A a \in Attempts : AttemptInv(a)'
  <2> SUFFICES ASSUME NEW a \in Attempts PROVE AttemptInv(a)'
    OBVIOUS
  <2>1. AttemptInv(a) /\ By(a)' = By(a)
    BY <1>1 DEF JInv, By
  <2> QED BY <1>1, <2>1 DEF AttemptInv, Answer
<1>4. \A i \in DOMAIN results : results[i].by \in Attempts
  BY ResultOwner DEF JInv
<1>5. \A i \in DOMAIN results' : ResultInv(i)'
  <2> SUFFICES ASSUME NEW i \in DOMAIN results PROVE ResultInv(i)'
    BY <1>1
  <2>1. ResultInv(i) /\ Learned(i)' = Learned(i)
    BY <1>1 DEF JInv, Learned
  <2> QED BY <1>1, <1>4, <2>1, ResultKept
<1>6. job'.status = "SUCCEEDED" => \E i \in DOMAIN results' : Reported(i)'
  BY <1>1 DEF JInv, Reported
<1> QED BY <1>1, <1>2, <1>3, <1>5, <1>6 DEF JInv

\* A step of one attempt that adds no result.
LEMMA AttemptJInv ==
    ASSUME IInv, JInv, Judging, NEW a \in Attempts, phase[a] # "idle",
           UNCHANGED <<job, answers, api, results>>,
           verdict' \in [Attempts -> Judgement], DOMAIN run' = Attempts, DOMAIN torn' = Attempts,
           learnings' \in Seq(Nat), \A n \in DOMAIN learnings' : learnings'[n] \in DOMAIN results,
           \A n, m \in DOMAIN learnings' : learnings'[n] = learnings'[m] => n = m,
           \A b \in Attempts \ {a} :
               /\ phase'[b] = phase[b] /\ run'[b] = run[b] /\ torn'[b] = torn[b]
               /\ verdict'[b] = verdict[b],
           \A i \in DOMAIN results \ By(a) : Learned(i)' = Learned(i),
           AttemptInv(a)', \A i \in By(a) : ResultInv(i)'
    PROVE  JInv'
<1>1. JudgeTypes' /\ Judging'
  BY DEF JInv, JudgeTypes, Judging
<1>2. AnswerInv'
  BY DEF JInv, AnswerInv, Judging
<1>3. ASSUME NEW b \in Attempts \ {a} PROVE AttemptInv(b)'
  <2>1. AttemptInv(b) /\ By(b)' = By(b)
    BY DEF JInv, By
  <2> QED BY <2>1 DEF AttemptInv, Answer
<1>4. ASSUME NEW i \in DOMAIN results PROVE ResultInv(i)'
  <2>1. CASE i \in By(a)
    BY <2>1
  <2>2. CASE i \notin By(a)
    <3>1. results[i].by \in Attempts \ {a} /\ ResultInv(i)
      BY <2>2, ResultOwner DEF JInv, By
    <3> QED BY <2>2, <3>1, ResultKept
  <2> QED BY <2>1, <2>2
<1>5. Judging' /\ job'.status = "SUCCEEDED" => \E i \in DOMAIN results' : Reported(i)'
  BY DEF JInv, Reported, Judging
<1> QED BY <1>1, <1>2, <1>3, <1>4, <1>5 DEF JInv

\* The same for an attempt that has no result yet.
LEMMA EarlyJInv ==
    ASSUME IInv, JInv, Judging, NEW a \in Attempts, phase[a] \in {"start", "judge", "judged"},
           UNCHANGED <<job, answers, api, results, learnings>>,
           verdict' \in [Attempts -> Judgement], DOMAIN run' = Attempts, DOMAIN torn' = Attempts,
           DOMAIN phase' = Attempts,
           \A b \in Attempts \ {a} :
               /\ phase'[b] = phase[b] /\ run'[b] = run[b] /\ torn'[b] = torn[b]
               /\ verdict'[b] = verdict[b],
           \/ phase'[a] = "raised"
           \/ phase'[a] = "judge" /\ run'[a] = "RUNNING"
           \/ phase'[a] = "judged" /\ run'[a] = "RUNNING" /\ Graded(Answer, verdict'[a])
    PROVE  JInv'
<1>1. By(a) = {} /\ By(a)' = {}
  BY DEF JInv, AttemptInv, By
<1>2. AttemptInv(a)'
    BY <1>1 DEF AttemptInv, Answer
<1>3. /\ learnings' \in Seq(Nat) /\ \A n \in DOMAIN learnings' : learnings'[n] \in DOMAIN results
      /\ \A n, m \in DOMAIN learnings' : learnings'[n] = learnings'[m] => n = m
  BY DEF JInv, JudgeTypes
<1>4. \A i \in DOMAIN results \ By(a) : Learned(i)' = Learned(i)
  BY DEF Learned
<1> QED BY <1>1, <1>2, <1>3, <1>4, AttemptJInv

-----------------------------------------------------------------------------
(* The steps of an attempt.                                                  *)

\* An attempt that judges works on a job that was enqueued, with the shapes of
\* its row, its run and its verdict.
LEMMA JudgeShapes ==
    ASSUME IInv, JInv, Judging
    PROVE  /\ DOMAIN phase = Attempts /\ DOMAIN run = Attempts /\ DOMAIN torn = Attempts
           /\ DOMAIN job = JobFields /\ verdict \in [Attempts -> Judgement]
           /\ \A a \in Attempts : phase[a] # "idle" =>
                  job.status # "none" /\ Answer \in Submission
<1>1. /\ DOMAIN phase = Attempts /\ DOMAIN run = Attempts /\ DOMAIN torn = Attempts
      /\ DOMAIN job = JobFields /\ verdict \in [Attempts -> Judgement]
      /\ answers \in Seq(Submission)
  BY DEF IInv, Shapes, JInv, JudgeTypes
<1>2. ASSUME NEW a \in Attempts, phase[a] # "idle"
      PROVE  job.status # "none" /\ Answer \in Submission
  <2>1. job.status # "none" /\ job.payload = Len(answers) /\ answers # << >>
    BY <1>2 DEF JInv, AnswerInv
  <2>2. Len(answers) \in DOMAIN answers
    BY <1>1, <2>1
  <2> QED BY <1>1, <2>1, <2>2 DEF Answer
<1> QED BY <1>1, <1>2

\* What becomes of a run whose handler ends it, or that is left as it is.
JudgingEnds(a) ==
    /\ UNCHANGED <<job, answers, api, verdict, results, learnings>>
    /\ DOMAIN phase' = Attempts /\ DOMAIN run' = Attempts /\ DOMAIN torn' = Attempts
    /\ \A b \in Attempts \ {a} : phase'[b] = phase[b] /\ run'[b] = run[b] /\ torn'[b] = torn[b]
    /\ phase'[a] = "raised" /\ run'[a] \in {"FAILED", "RUNNING"}

LEMMA HandlerEnds ==
    ASSUME IInv, JInv, Judging, NEW a \in Attempts, NEW new, NEW updated, NEW closing, NEW rows,
           EndInFailure(a, new, updated, closing, rows), UNCHANGED judgeVars
    PROVE  JudgingEnds(a) /\ rows \subseteq torn'[a]
<1>1. /\ \E status \in {"FAILED", "RUNNING"} : run' = [run EXCEPT ![a] = status]
      /\ \E lost : torn' = [torn EXCEPT ![a] = torn[a] \union (rows \union lost)]
      /\ phase' = [phase EXCEPT ![a] = "raised"] /\ job' = job
  BY DEF EndInFailure, Tear, Raise, Go
<1> QED BY <1>1, JudgeShapes DEF JudgingEnds, judgeVars

LEMMA LeftEnds ==
    ASSUME IInv, JInv, Judging, NEW a \in Attempts, NEW new, NEW updated, NEW rows,
           LeaveRunning(a, new, updated, rows), UNCHANGED judgeVars
    PROVE  JudgingEnds(a) /\ run'[a] = "RUNNING"
<1>1. /\ run' = [run EXCEPT ![a] = "RUNNING"]
      /\ torn' = [torn EXCEPT ![a] = torn[a] \union ({RunRow} \union rows)]
      /\ phase' = [phase EXCEPT ![a] = "raised"] /\ job' = job
  BY DEF LeaveRunning, Tear, Raise, Go
<1> QED BY <1>1, JudgeShapes DEF JudgingEnds, judgeVars

\* The run ends before there is a result.
LEMMA EarlyEnds ==
    ASSUME IInv, JInv, Judging, NEW a \in Attempts, phase[a] \in {"start", "judge", "judged"},
           JudgingEnds(a)
    PROVE  JInv'
    BY JudgeShapes, EarlyJInv DEF JudgingEnds

LEMMA StartJudgingJInv ==
    ASSUME IInv, JInv, Judging, NEW a \in Attempts, StartJudging(a) \/ StartJudgingBreaks(a)
    PROVE  JInv'
<1>1. CASE StartJudging(a)
  <2>1. /\ phase[a] = "start" /\ UNCHANGED <<job, torn, answers, api, verdict, results, learnings>>
        /\ phase' = [phase EXCEPT ![a] = "judge"] /\ run' = [run EXCEPT ![a] = "RUNNING"]
    BY <1>1 DEF StartJudging, judgeVars, Go
  <2> QED BY <2>1, JudgeShapes, EarlyJInv
<1>2. CASE StartJudgingBreaks(a)
  <2>1. phase[a] = "start" /\ JudgingEnds(a)
    BY <1>2, HandlerEnds, LeftEnds DEF StartJudgingBreaks
  <2> QED BY <2>1, EarlyEnds
<1> QED BY <1>1, <1>2

LEMMA JudgementJInv ==
    ASSUME IInv, JInv, Judging, NEW a \in Attempts,
           \/ JudgingBreaks(a) \/ InvalidJudgement(a) \/ ValidJudgement(a)
           \/ SaveStepBreaks(a) \/ ResultFails(a)
    PROVE  JInv'
<1>1. CASE JudgingBreaks(a) \/ SaveStepBreaks(a) \/ ResultFails(a)
  <2>1. phase[a] \in {"judge", "judged"} /\ JudgingEnds(a)
    BY <1>1, HandlerEnds DEF JudgingBreaks, SaveStepBreaks, ResultFails, JudgingFails
  <2> QED BY <2>1, EarlyEnds
<1>2. CASE InvalidJudgement(a)
  <2>1. phase[a] = "judge"
    BY <1>2 DEF InvalidJudgement
  <2>2. CASE JudgingFails(a, Mark(a, JudgeSeq, "FAILED"), {})
    <3>1. JudgingEnds(a)
      BY <2>2, HandlerEnds DEF JudgingFails
    <3> QED BY <2>1, <3>1, EarlyEnds
  <2>3. CASE UNCHANGED <<jobVars, answers, api, verdict, results, learnings>>
    <3>1. /\ UNCHANGED <<job, phase, run, torn, answers, api, verdict, results, learnings>>
      BY <2>3 DEF jobVars
    <3>2. By(a) = {} /\ run[a] = "RUNNING"
      BY <2>1 DEF JInv, AttemptInv
    <3> QED BY <2>1, <3>1, <3>2, JudgeShapes, EarlyJInv
  <2> QED BY <1>2, <2>2, <2>3 DEF InvalidJudgement
<1>3. CASE ValidJudgement(a)
  <2>1. PICK judgement \in Judgements : verdict' = [verdict EXCEPT ![a] = Judged(Answer, judgement)]
    BY <1>3 DEF ValidJudgement, Answer
  <2>2. /\ phase[a] = "judge" /\ UNCHANGED <<job, run, torn, answers, api, results, learnings>>
        /\ phase' = [phase EXCEPT ![a] = "judged"]
    BY <1>3 DEF ValidJudgement, Go
  <2>3. run[a] = "RUNNING"
    BY <2>2 DEF JInv, AttemptInv
  <2>4. Answer \in Submission /\ judgement \in Judgement
    BY <2>2, JudgeShapes, JudgementAssumption
  <2>5. /\ Judged(Answer, judgement) \in Judgement
        /\ Graded(Answer, Judged(Answer, judgement))
    BY <2>4, Policy DEF Graded
  <2>6. /\ verdict' \in [Attempts -> Judgement] /\ Graded(Answer, verdict'[a])
        /\ \A b \in Attempts \ {a} : verdict'[b] = verdict[b]
    BY <2>1, <2>5, JudgeShapes
  <2> QED BY <2>2, <2>3, <2>6, JudgeShapes, EarlyJInv
<1> QED BY <1>1, <1>2, <1>3

\* A score is a number of twenty-thousandths.
LEMMA ScoreBounds ==
    ASSUME NEW score \in Scores
    PROVE  score \in Nat /\ score <= 20000
    BY DEF Scores

\* The row of a result, of the attempt a and its verdict v, put together.
LEMMA ResultMade ==
    ASSUME NEW i, NEW a, NEW v, NEW r, results'[i] = r, r.by = a, verdict'[a] = v,
           r.answer = job'.payload, Graded(answers'[job'.payload], v),
           r.score = Stored(v.score), r.status = v.status, r.alert = (v.status # "passing"),
           NEW p, NEW s, phase'[a] = p, run'[a] = s, Learned(i)' => v.learning,
           \/ p = "inserted" /\ s = "RUNNING" /\ ~Learned(i)'
           \/ p \in {"learned", "saved"} /\ s = "RUNNING" /\ (v.learning <=> Learned(i)')
           \/ /\ p \notin {"inserted", "learned", "saved"}
              /\ \/ s = "RUNNING"
                 \/ s = "FAILED" /\ v.learning /\ ~Learned(i)'
                 \/ s = "FAILED" /\ SaveSeq \in torn'[a] /\ (v.learning <=> Learned(i)')
                 \/ s = "SUCCEEDED" /\ (v.learning <=> Learned(i)')
    PROVE  ResultInv(i)'
    BY DEF ResultInv, Answer

\* What the row says of the verdict of its attempt.
LEMMA ResultSays ==
    ASSUME NEW i, NEW a, ResultInv(i), results[i].by = a
    PROVE  /\ results[i].answer = job.payload /\ Graded(Answer, verdict[a])
           /\ results[i].score = Stored(verdict[a].score) /\ results[i].status = verdict[a].status
           /\ results[i].alert = (verdict[a].status # "passing")
           /\ phase[a] = "inserted" => run[a] = "RUNNING" /\ ~Learned(i)
           /\ phase[a] \in {"learned", "saved"} =>
                  run[a] = "RUNNING" /\ (verdict[a].learning <=> Learned(i))
           /\ Learned(i) => verdict[a].learning
    BY DEF ResultInv

\* The result is what the verdict makes of it, new and the attempt's first.
LEMMA InsertResultJInv ==
    ASSUME IInv, JInv, Judging, NEW a \in Attempts, InsertResult(a)
    PROVE  JInv'
<1> DEFINE v == verdict[a]
           new == [answer |-> job.payload, by |-> a, score |-> Stored(v.score),
                   status |-> v.status, alert |-> v.status # "passing"]
<1>1. /\ phase[a] = "judged" /\ results' = Append(results, new)
      /\ phase' = [phase EXCEPT ![a] = "inserted"]
      /\ UNCHANGED <<job, run, torn, answers, api, verdict, learnings>>
  BY DEF InsertResult, Go
<1>2. /\ run[a] = "RUNNING" /\ By(a) = {} /\ Graded(Answer, v) /\ v \in Judgement
      /\ job.payload \in Nat
  <2>1. run[a] = "RUNNING" /\ By(a) = {} /\ Graded(Answer, v)
    BY <1>1 DEF JInv, AttemptInv
  <2>2. job.payload = Len(answers) /\ answers \in Seq(Submission)
    BY <1>1, JudgeShapes DEF JInv, AnswerInv, JudgeTypes
  <2> QED BY <2>1, <2>2, JudgeShapes
<1>3. new \in ResultRow
  <2>0. v.score \in Scores /\ v.status \in Grades
    BY <1>2 DEF Judgement
  <2>1. v.score \in Nat /\ v.score <= 20000 /\ v.status \in Grades
    BY <2>0, ScoreBounds
  <2>2. Stored(v.score) \in Nat
    BY <2>1, Rounding
  <2> QED BY <1>2, <2>1, <2>2 DEF ResultRow
<1> HIDE DEF new
<1>0. PICK k : k = Len(results) + 1
  OBVIOUS
<1>4. /\ results' \in Seq(ResultRow) /\ k \in DOMAIN results' /\ results'[k] = new
      /\ \A i \in DOMAIN results : i \in DOMAIN results' /\ results'[i] = results[i] /\ i # k
      /\ \A i \in DOMAIN results' : i \in DOMAIN results \/ i = k
  <2>1. results \in Seq(ResultRow)
    BY DEF JInv, JudgeTypes
  <2> QED BY <1>0, <1>1, <1>3, <2>1
<1>5. JudgeTypes' /\ Judging'
  BY <1>1, <1>4 DEF JInv, JudgeTypes, Judging
<1>6. AnswerInv'
  <2>1. job.status # "none"
    BY <1>1, JudgeShapes
  <2> QED BY <1>1, <2>1 DEF JInv, AnswerInv, Judging
<1>7. ASSUME NEW b \in Attempts PROVE AttemptInv(b)'
  <2>1. CASE b = a
    <3>1. phase'[a] = "inserted" /\ By(a)' # {}
      BY <1>1, <1>4, JudgeShapes DEF By, new
    <3> QED BY <2>1, <3>1 DEF AttemptInv
  <2>2. CASE b # a
    <3>1. AttemptInv(b) /\ By(b)' = By(b)
      BY <1>1, <1>4, <2>2 DEF JInv, By, new
    <3> QED BY <1>1, <2>2, <3>1 DEF AttemptInv, Answer
  <2> QED BY <2>1, <2>2
<1>8. ASSUME NEW i \in DOMAIN results PROVE ResultInv(i)'
  <2>1. results[i].by # a /\ ResultInv(i) /\ Learned(i)' = Learned(i)
    BY <1>1, <1>2 DEF JInv, By, Learned
  <2>2. results'[i] = results[i]
    BY <1>4
  <2>3. phase'[results[i].by] = phase[results[i].by]
    BY <1>1, <2>1, JudgeShapes
  <2> QED BY <1>1, <2>1, <2>2, <2>3, ResultKept
<1>9. ResultInv(k)'
  <2>0. k \notin DOMAIN results
    BY <1>4
  <2>1. ~Learned(k)'
    BY <1>1, <2>0 DEF JInv, Learned
  <2>2. /\ new.by = a /\ new.answer = job.payload
        /\ new.score = Stored(v.score) /\ new.status = v.status
        /\ new.alert = (v.status # "passing")
    BY DEF new
  <2>3. /\ verdict'[a] = v /\ job'.payload = job.payload /\ Graded(answers'[job'.payload], v)
        /\ phase'[a] = "inserted" /\ run'[a] = "RUNNING" /\ results'[k] = new
    BY <1>1, <1>2, <1>4, JudgeShapes DEF Answer
  <2> HIDE DEF v
  <2> QED BY <2>1, <2>2, <2>3, ResultMade
<1>10. ASSUME NEW i \in DOMAIN results', NEW j \in DOMAIN results',
              results'[i].by = results'[j].by
       PROVE  i = j
  <2>1. \A l \in DOMAIN results : results[l].by # a
    BY <1>2 DEF By
  <2> QED BY <1>4, <1>10, <2>1 DEF JInv, new
<1>11. /\ \A n \in DOMAIN learnings' : learnings'[n] \in DOMAIN results'
       /\ \A n, m \in DOMAIN learnings' : learnings'[n] = learnings'[m] => n = m
  BY <1>1, <1>4 DEF JInv
<1>12. job'.status = "SUCCEEDED" => \E i \in DOMAIN results' : Reported(i)'
  BY <1>1, <1>4 DEF JInv, Reported
<1> QED BY <1>4, <1>5, <1>6, <1>7, <1>8, <1>9, <1>10, <1>11, <1>12 DEF JInv

\* The one result of an attempt.
LEMMA TheResult ==
    ASSUME JInv, NEW a \in Attempts, By(a) # {}
    PROVE  By(a) = {ResultOf(a)} /\ ResultOf(a) \in DOMAIN results /\ results[ResultOf(a)].by = a
<1>1. PICK i \in DOMAIN results : results[i].by = a
  BY DEF By
<1>2. ResultOf(a) \in DOMAIN results /\ results[ResultOf(a)].by = a
  BY <1>1 DEF ResultOf
<1> QED BY <1>2 DEF JInv, By

\* The learning is saved, if there is one.
LEMMA LearningJInv ==
    ASSUME IInv, JInv, Judging, NEW a \in Attempts, SaveLearning(a)
    PROVE  JInv'
<1>0. PICK i : i = ResultOf(a)
  OBVIOUS
<1>1. /\ phase[a] = "inserted" /\ phase' = [phase EXCEPT ![a] = "learned"]
      /\ learnings' = IF verdict[a].learning THEN Append(learnings, i) ELSE learnings
      /\ UNCHANGED <<job, run, torn, answers, api, verdict, results>>
  BY <1>0 DEF SaveLearning, Go
<1>2. By(a) # {}
  BY <1>1 DEF JInv, AttemptInv
<1>3. By(a) = {i} /\ i \in DOMAIN results /\ results[i].by = a /\ ResultInv(i)
  BY <1>0, <1>2, TheResult DEF JInv
<1>4. /\ learnings \in Seq(Nat) /\ \A n \in DOMAIN learnings : learnings[n] \in DOMAIN results
      /\ i \in Nat
  <2>1. results \in Seq(ResultRow)
    BY DEF JInv, JudgeTypes
  <2> QED BY <1>3, <2>1 DEF JInv, JudgeTypes
<1>5. run[a] = "RUNNING" /\ ~Learned(i) /\ verdict[a].learning \in BOOLEAN
  BY <1>1, <1>3, JudgeShapes DEF ResultInv, Judgement
<1>6. /\ learnings' \in Seq(Nat) /\ \A n \in DOMAIN learnings' : learnings'[n] \in DOMAIN results
      /\ \A n, m \in DOMAIN learnings' : learnings'[n] = learnings'[m] => n = m
      /\ \A j \in DOMAIN results \ {i} : Learned(j)' = Learned(j)
      /\ verdict[a].learning <=> Learned(i)'
  <2>1. CASE verdict[a].learning
    <3>1. PICK last : last = Len(learnings) + 1
      OBVIOUS
    <3>2. /\ learnings' = Append(learnings, i) /\ learnings' \in Seq(Nat)
          /\ \A n \in DOMAIN learnings : n \in DOMAIN learnings' /\ learnings'[n] = learnings[n]
          /\ last \in DOMAIN learnings' /\ learnings'[last] = i
          /\ \A n \in DOMAIN learnings' : n \in DOMAIN learnings \/ n = last
      BY <1>1, <1>4, <2>1, <3>1
    <3>3. \A n, m \in DOMAIN learnings' : learnings'[n] = learnings'[m] => n = m
      BY <1>5, <3>2 DEF JInv, Learned
    <3> QED BY <1>3, <1>4, <2>1, <3>2, <3>3 DEF Learned
  <2>2. CASE ~verdict[a].learning
    BY <1>1, <1>4, <1>5, <2>2 DEF Learned, JInv
  <2> QED BY <2>1, <2>2
<1>7. /\ phase'[a] = "learned" /\ run'[a] = "RUNNING" /\ verdict'[a] = verdict[a]
      /\ \A b \in Attempts \ {a} : phase'[b] = phase[b]
  BY <1>1, <1>5, JudgeShapes
<1>8. ResultInv(i)'
  BY <1>1, <1>3, <1>6, <1>7, ResultMade, ResultSays DEF Answer
<1>9. AttemptInv(a)'
  BY <1>1, <1>2, <1>7 DEF AttemptInv, By
<1> QED BY <1>1, <1>3, <1>6, <1>7, <1>8, <1>9, JudgeShapes, AttemptJInv

\* An attempt with a result goes on, or its run ends with the learning lost, with
\* the step of the insertion torn, or with everything in its place.
LEMMA LateJInv ==
    ASSUME IInv, JInv, Judging, NEW a \in Attempts, phase[a] \in {"inserted", "learned", "saved"},
           UNCHANGED <<job, answers, api, verdict, results, learnings>>,
           DOMAIN run' = Attempts, DOMAIN torn' = Attempts,
           \A b \in Attempts \ {a} :
               phase'[b] = phase[b] /\ run'[b] = run[b] /\ torn'[b] = torn[b],
           NEW p, NEW s, phase'[a] = p, run'[a] = s,
           \/ phase[a] = "learned" /\ p = "saved" /\ s = "RUNNING"
           \/ p = "raised" /\ s = "RUNNING"
           \/ phase[a] = "inserted" /\ p = "raised" /\ s = "FAILED" /\ verdict[a].learning
           \/ phase[a] = "learned" /\ p = "raised" /\ s = "FAILED" /\ SaveSeq \in torn'[a]
           \/ phase[a] = "saved" /\ p = "report" /\ s = "SUCCEEDED"
    PROVE  JInv'
<1>1. By(a) # {} /\ By(a)' = By(a)
  BY DEF JInv, AttemptInv, By
<1>2. PICK i \in DOMAIN results : By(a) = {i} /\ results[i].by = a /\ ResultInv(i)
  BY <1>1, TheResult DEF JInv
<1>3. \A j \in DOMAIN results : Learned(j)' = Learned(j)
  BY DEF Learned
<1>4. PICK v \in Judgement : v = verdict[a] /\ verdict'[a] = v
  BY JudgeShapes
<1>5. /\ results[i].answer = job.payload /\ Graded(Answer, v)
      /\ results[i].score = Stored(v.score) /\ results[i].status = v.status
      /\ results[i].alert = (v.status # "passing")
      /\ phase[a] = "inserted" => ~Learned(i)
      /\ phase[a] \in {"learned", "saved"} => (v.learning <=> Learned(i))
      /\ Learned(i) => v.learning
  BY <1>2, <1>4, ResultSays
<1>6. ResultInv(i)'
  <2>1. PICK r : r = results[i] /\ results'[i] = r /\ r.by = a
    BY <1>2
  <2>2. /\ r.answer = job'.payload /\ Graded(answers'[job'.payload], v)
        /\ r.score = Stored(v.score) /\ r.status = v.status /\ r.alert = (v.status # "passing")
        /\ Learned(i)' => v.learning
    BY <1>3, <1>5, <2>1 DEF Answer
  <2>3. \/ p = "saved" /\ s = "RUNNING" /\ (v.learning <=> Learned(i)')
        \/ /\ p \notin {"inserted", "learned", "saved"}
           /\ \/ s = "RUNNING"
              \/ s = "FAILED" /\ v.learning /\ ~Learned(i)'
              \/ s = "FAILED" /\ SaveSeq \in torn'[a] /\ (v.learning <=> Learned(i)')
              \/ s = "SUCCEEDED" /\ (v.learning <=> Learned(i)')
    BY <1>3, <1>4, <1>5
  <2> QED BY <1>4, <2>1, <2>2, <2>3, ResultMade
<1>7. AttemptInv(a)'
  BY <1>1 DEF AttemptInv
<1>8. /\ learnings' \in Seq(Nat) /\ \A n \in DOMAIN learnings' : learnings'[n] \in DOMAIN results
      /\ \A n, m \in DOMAIN learnings' : learnings'[n] = learnings'[m] => n = m
      /\ verdict' \in [Attempts -> Judgement] /\ \A b \in Attempts : verdict'[b] = verdict[b]
  BY DEF JInv, JudgeTypes
<1> QED BY <1>2, <1>3, <1>6, <1>7, <1>8, AttemptJInv

LEMMA SavingJInv ==
    ASSUME IInv, JInv, Judging, NEW a \in Attempts,
           \/ LearningFails(a) \/ FinishSaving(a) \/ SavingBreaks(a)
           \/ FinishJudging(a) \/ FinishJudgingBreaks(a)
    PROVE  JInv'
<1>1. CASE LearningFails(a) \/ SavingBreaks(a)
  <2>1. JudgingEnds(a) /\ (SavingBreaks(a) => SaveSeq \in torn'[a])
    BY <1>1, HandlerEnds DEF LearningFails, SavingBreaks, JudgingFails
  <2>2. \/ phase[a] = "inserted" /\ verdict[a].learning
        \/ phase[a] = "learned" /\ SavingBreaks(a)
    BY <1>1 DEF LearningFails, SavingBreaks
  <2> QED BY <2>1, <2>2, LateJInv DEF JudgingEnds
<1>2. CASE FinishJudgingBreaks(a)
  <2>1. JudgingEnds(a) /\ run'[a] = "RUNNING" /\ phase[a] = "saved"
    BY <1>2, LeftEnds DEF FinishJudgingBreaks
  <2> QED BY <2>1, LateJInv DEF JudgingEnds
<1>3. CASE FinishSaving(a)
  <2>1. /\ phase[a] = "learned" /\ phase' = [phase EXCEPT ![a] = "saved"]
        /\ UNCHANGED <<job, run, torn, answers, api, verdict, results, learnings>>
    BY <1>3 DEF FinishSaving, Go, judgeVars
  <2>2. run[a] = "RUNNING"
    <3>1. PICK i \in DOMAIN results : results[i].by = a /\ ResultInv(i)
      BY <2>1 DEF JInv, AttemptInv, By
    <3> QED BY <2>1, <3>1, ResultSays
  <2>3. /\ phase'[a] = "saved" /\ run'[a] = "RUNNING"
        /\ \A b \in Attempts \ {a} : phase'[b] = phase[b] /\ run'[b] = run[b] /\ torn'[b] = torn[b]
        /\ DOMAIN run' = Attempts /\ DOMAIN torn' = Attempts
    BY <2>1, <2>2, JudgeShapes
  <2> QED BY <2>1, <2>3, LateJInv
<1>4. CASE FinishJudging(a)
  <2>1. /\ phase[a] = "saved" /\ phase' = [phase EXCEPT ![a] = "report"]
        /\ run' = [run EXCEPT ![a] = "SUCCEEDED"]
        /\ UNCHANGED <<job, torn, answers, api, verdict, results, learnings>>
    BY <1>4 DEF FinishJudging, Go, judgeVars
  <2>2. /\ phase'[a] = "report" /\ run'[a] = "SUCCEEDED"
        /\ \A b \in Attempts \ {a} : phase'[b] = phase[b] /\ run'[b] = run[b] /\ torn'[b] = torn[b]
        /\ DOMAIN run' = Attempts /\ DOMAIN torn' = Attempts
    BY <2>1, JudgeShapes
  <2> QED BY <2>1, <2>2, LateJInv
<1> QED BY <1>1, <1>2, <1>3, <1>4

LEMMA JudgeStepJInv ==
    ASSUME IInv, JInv, Judging, NEW a \in Attempts, JudgeStep(a)
    PROVE  JInv'
    BY StartJudgingJInv, JudgementJInv, InsertResultJInv, LearningJInv, SavingJInv DEF JudgeStep

-----------------------------------------------------------------------------
(* The steps of the queue and of the API.                                    *)

\* The job reports the one result of the attempt that owns it.
LEMMA ReportJInv ==
    ASSUME IInv, JInv, Judging, NEW a \in Attempts, ReportSuccess(a, JudgeResult(a)),
           UNCHANGED judgeVars
    PROVE  JInv'
<1>1. /\ phase[a] = "report" /\ phase' = [phase EXCEPT ![a] = "done"] /\ UNCHANGED <<run, torn>>
      /\ \/ Owns(a) /\ job' = [job EXCEPT !.status = "SUCCEEDED", !.result = JudgeResult(a)]
         \/ ~Owns(a) /\ UNCHANGED job
  BY DEF ReportSuccess, Go
<1>2. job.status # "none"
  BY <1>1, JudgeShapes
<1>3. CASE UNCHANGED job
  BY <1>1, <1>2, <1>3, JudgeShapes, QueueJInv
<1>4. CASE Owns(a) /\ job' = [job EXCEPT !.status = "SUCCEEDED", !.result = JudgeResult(a)]
  <2>1. By(a) # {}
    BY <1>1 DEF JInv, AttemptInv
  <2>2. PICK i \in DOMAIN results : i = ResultOf(a) /\ results[i].by = a
    BY <2>1, TheResult
  <2>3. /\ job'.status = "SUCCEEDED" /\ job'.attempt = a /\ job'.type = job.type
        /\ job'.payload = job.payload
        /\ job'.result = [score |-> results[i].score, status |-> results[i].status]
    BY <1>4, <2>2, JudgeShapes DEF JobFields, Owns, JudgeResult
  <2>4. Reported(i)'
    BY <2>2, <2>3 DEF Reported, judgeVars
  <2> QED BY <1>1, <1>2, <2>2, <2>3, <2>4, JudgeShapes, QueueJInv
<1> QED BY <1>1, <1>3, <1>4

\* What the worker and the queue do beside the work on a result.
LEMMA WorkerJInv ==
    ASSUME IInv, JInv, Judging, UNCHANGED judgeVars,
           \/ LeaseExpires
           \/ \E a \in Attempts : Claim(a) \/ Crash(a) \/ RefuseJob(a) \/ ReportFailure(a)
    PROVE  JInv'
<1>1. /\ UNCHANGED <<run, torn>>
      /\ \/ UNCHANGED job
         \/ /\ job.status = "RUNNING" /\ UNCHANGED phase
            /\ job' = [job EXCEPT !.status = Requeued]
         \/ /\ job.status = "RUNNING"
            /\ job' = [job EXCEPT !.status = Requeued]
         \/ \E a \in Attempts :
                job.status = "QUEUED" /\ job' = [job EXCEPT !.status = "RUNNING", !.attempt = a]
  BY DEF LeaseExpires, Claim, Crash, RefuseJob, ReportFailure, Owns
<1>2. /\ job'.type = job.type /\ job'.payload = job.payload
      /\ job'.status = "none" <=> job.status = "none"
      /\ job'.status = "SUCCEEDED" => UNCHANGED job
  BY <1>1, JudgeShapes DEF JobFields, Requeued
<1>3. \A b \in Attempts : \/ phase'[b] = phase[b]
                          \/ phase'[b] \in {"raised", "done", "dead"}
                          \/ phase[b] = "idle" /\ phase'[b] = "start"
  <2>1. LeaseExpires => phase' = phase
    BY DEF LeaseExpires
  <2>2. ASSUME NEW a \in Attempts, Claim(a) \/ Crash(a) \/ RefuseJob(a) \/ ReportFailure(a)
        PROVE  \E p \in {"start", "raised", "done", "dead"} :
                   phase' = [phase EXCEPT ![a] = p] /\ (p = "start" => phase[a] = "idle")
    BY <2>2 DEF Claim, Crash, RefuseJob, ReportFailure, Go
  <2>3. ASSUME NEW a \in Attempts, NEW p \in {"start", "raised", "done", "dead"},
               phase' = [phase EXCEPT ![a] = p], p = "start" => phase[a] = "idle"
        PROVE  \A b \in Attempts : \/ phase'[b] = phase[b]
                                   \/ phase'[b] \in {"raised", "done", "dead"}
                                   \/ phase[b] = "idle" /\ phase'[b] = "start"
    BY <2>3, JudgeShapes
  <2>4. CASE LeaseExpires
    BY <2>1, <2>4
  <2>5. CASE \E a \in Attempts : Claim(a) \/ Crash(a) \/ RefuseJob(a) \/ ReportFailure(a)
    BY <2>2, <2>3, <2>5
  <2> QED BY <2>4, <2>5
<1>4. job.status = "none" => phase' = phase
  <2>1. ASSUME job.status = "none" PROVE \A a \in Attempts : phase[a] = "idle"
    BY <2>1 DEF JInv, AnswerInv
  <2> QED BY <2>1 DEF LeaseExpires, Claim, Crash, RefuseJob, ReportFailure, Busy
<1> QED BY <1>1, <1>2, <1>3, <1>4, QueueJInv

\* Until the job is enqueued no attempt has begun and there is no result.
LEMMA SubmitJInv ==
    ASSUME IInv, JInv, Submit
    PROVE  JInv'
<1>1. Judging /\ job.status = "none" /\ UNCHANGED <<phase, run, torn, verdict, results, learnings>>
  BY DEF Submit, SubmitAnswer, EnqueueJudging, SubmissionBreaks, jobVars, IInv, PlanKnown,
         JInv, AnswerInv, Judging
<1>2. \A a \in Attempts : phase[a] = "idle" /\ By(a) = {}
  BY <1>1 DEF JInv, AnswerInv, AttemptInv
<1>3. DOMAIN results = {}
  BY <1>2, ResultOwner DEF JInv, By
<1>4. /\ answers' \in Seq(Submission) /\ job'.type = job.type
      /\ api' = "saved" => job'.status = "none" /\ answers' # << >>
      /\ job'.status # "none" => job'.payload = Len(answers') /\ answers' # << >>
  <2>1. CASE SubmitAnswer
    <3>1. PICK answer \in Submission : answers' = Append(answers, answer)
      BY <2>1, SubmissionAssumption DEF SubmitAnswer
    <3>2. answers' \in Seq(Submission) /\ answers' # << >>
      BY <3>1 DEF JInv, JudgeTypes
    <3> QED BY <1>1, <2>1, <3>2 DEF SubmitAnswer, jobVars
  <2>2. CASE EnqueueJudging
    <3>1. /\ api' = "idle" /\ answers' = answers /\ answers # << >>
          /\ job' = [job EXCEPT !.status = "QUEUED", !.payload = Len(answers)]
      BY <2>2 DEF EnqueueJudging, JInv, AnswerInv
    <3>2. job'.type = job.type /\ job'.payload = Len(answers) /\ job'.status = "QUEUED"
      BY <3>1, JudgeShapes, <1>1 DEF JobFields
    <3> QED BY <3>1, <3>2 DEF JInv, JudgeTypes
  <2>3. CASE SubmissionBreaks
    BY <1>1, <2>3 DEF SubmissionBreaks, jobVars, JInv, JudgeTypes
  <2> QED BY <2>1, <2>2, <2>3 DEF Submit
<1>5. JudgeTypes' /\ Judging'
  BY <1>1, <1>4 DEF JInv, JudgeTypes, Judging
<1>6. AnswerInv'
  BY <1>1, <1>2, <1>4 DEF AnswerInv
<1>7. \A a \in Attempts : AttemptInv(a)'
  BY <1>1, <1>2 DEF AttemptInv, By
<1>8. job'.status # "SUCCEEDED"
  BY <1>1, JudgeShapes DEF Submit, SubmitAnswer, EnqueueJudging, SubmissionBreaks, jobVars,
         JobFields
<1>9. DOMAIN results' = {} /\ DOMAIN learnings' = {}
  BY <1>1, <1>3 DEF JInv
<1> QED BY <1>5, <1>6, <1>7, <1>8, <1>9 DEF JInv

-----------------------------------------------------------------------------
(* The invariant.                                                            *)

LEMMA InitJInv == Init => JInv
<1> SUFFICES ASSUME Init PROVE JInv
  OBVIOUS
<1>1. /\ phase = [a \in Attempts |-> "idle"] /\ run = [a \in Attempts |-> "none"]
      /\ torn = [a \in Attempts |-> {}] /\ answers = << >> /\ api = "idle"
      /\ results = << >> /\ learnings = << >>
      /\ verdict = [a \in Attempts |-> NoJudgement]
      /\ job.type \in {"generate_test", "judge_answer"} /\ job.status \in {"none", "QUEUED"}
      /\ Judging => job.status = "none"
  BY DEF Init, GenInit, JudgeInit, JobInit, NoJudging, Judging
<1>2. NoJudgement \in Judgement
  <2>1. 0 \in Scores
    BY DEF Scores
  <2> QED BY <2>1 DEF NoJudgement, Judgement, Grades
<1>3. << >> \in Seq(Submission) /\ << >> \in Seq(ResultRow) /\ << >> \in Seq(Nat)
  OBVIOUS
<1>4. JudgeTypes
  BY <1>1, <1>2, <1>3 DEF JudgeTypes
<1>5. AnswerInv
  BY <1>1 DEF AnswerInv
<1>6. DOMAIN results = {} /\ DOMAIN learnings = {}
  BY <1>1
<1>7. \A a \in Attempts : AttemptInv(a)
  BY <1>1, <1>6 DEF AttemptInv, By
<1> QED BY <1>1, <1>4, <1>5, <1>6, <1>7 DEF JInv

LEMMA NextJInv == IInv /\ OInv /\ JInv /\ [Next]_vars => JInv'
<1> SUFFICES ASSUME IInv, OInv, JInv, [Next]_vars PROVE JInv'
  OBVIOUS
<1>1. CASE Submit
  BY <1>1, SubmitJInv
<1>2. CASE Judging /\ ~Submit
  <2>1. CASE UNCHANGED vars
    <3>1. UNCHANGED <<judgeVars, run, torn, job, phase>>
      BY <2>1 DEF vars, jobVars
    <3> QED BY <1>2, <3>1, QueueJInv
  <2>2. CASE Lapse
    BY <1>2, <2>2, WorkerJInv DEF Lapse
  <2>3. ASSUME NEW a \in Attempts, ClaimJob(a) \/ Work(a) \/ Die(a) PROVE JInv'
    <3>1. CASE /\ Claim(a) \/ Crash(a) \/ RefuseJob(a) \/ ReportFailure(a)
               /\ UNCHANGED judgeVars
      BY <1>2, <3>1, WorkerJInv
    <3>2. CASE JudgeStep(a)
      BY <1>2, <3>2, JudgeStepJInv
    <3>3. CASE ReportSuccess(a, JudgeResult(a)) /\ UNCHANGED judgeVars
      BY <1>2, <3>3, ReportJInv
    <3> QED BY <1>2, <2>3, <3>1, <3>2, <3>3 DEF ClaimJob, Work, Die, Judging
  <2> QED BY <1>2, <2>1, <2>2, <2>3 DEF Next
<1>3. CASE ~Judging /\ ~Submit
  <2>1. DOMAIN job = JobFields /\ DOMAIN run = Attempts /\ DOMAIN torn = Attempts
    BY DEF IInv, Shapes, JInv, JudgeTypes
  <2>2. CASE UNCHANGED vars
    <3>1. UNCHANGED <<judgeVars, run, torn, job>>
      BY <2>2 DEF vars, jobVars
    <3> QED BY <1>3, <2>1, <3>1, OtherJobs
  <2>3. CASE Lapse
    <3>1. UNCHANGED judgeVars /\ UNCHANGED <<run, torn>> /\ job' = [job EXCEPT !.status = Requeued]
      BY <2>3 DEF Lapse, LeaseExpires
    <3> QED BY <1>3, <2>1, <3>1, OtherJobs DEF JobFields
  <2>4. ASSUME NEW a \in Attempts, ClaimJob(a) \/ Work(a) \/ Die(a) PROVE JInv'
    <3>1. UNCHANGED judgeVars
      BY <1>3, <2>4 DEF ClaimJob, Work, Die, Judging
    <3>2. CASE GenStep(a)
      <4>1. job' = job /\ DOMAIN run' = Attempts /\ DOMAIN torn' = Attempts
        BY <3>2, GenOnly DEF OInv, Only, Framed
      <4> QED BY <1>3, <3>1, <4>1, OtherJobs
    <3>3. CASE Claim(a) \/ Crash(a) \/ RefuseJob(a) \/ ReportFailure(a)
               \/ ReportSuccess(a, GenResult(a))
      <4>1. UNCHANGED <<run, torn>> /\ job'.type = job.type
        BY <2>1, <3>3 DEF Claim, Crash, RefuseJob, ReportFailure, ReportSuccess, JobFields
      <4> QED BY <1>3, <2>1, <3>1, <4>1, OtherJobs
    <3> QED BY <1>3, <2>4, <3>2, <3>3 DEF ClaimJob, Work, Die, Judging
  <2> QED BY <1>3, <2>2, <2>3, <2>4 DEF Next
<1> QED BY <1>1, <1>2, <1>3

\* The judging keeps what its rows say, whoever steps next.
THEOREM JudgingInvariant == Spec => [](IInv /\ OInv /\ JInv)
<1>1. Init => IInv /\ OInv /\ JInv
  BY InitIInv, InitOInv, InitJInv
<1>2. IInv /\ OInv /\ JInv /\ [Next]_vars => (IInv /\ OInv /\ JInv)'
  BY NextIInv, NextOInv, NextJInv
<1> QED BY <1>1, <1>2, PTL DEF Spec

-----------------------------------------------------------------------------
(* What the invariant says to a reader.                                      *)

LEMMA GradesFromJInv == IInv /\ JInv => GradesHold
<1> SUFFICES ASSUME IInv, JInv, NEW i \in DOMAIN results
             PROVE  LET r == results[i] IN
                    /\ r.status = Grade(2 * r.score) \/ r.score \in {4000, 8000}
                    /\ r.score < 8000 => r.alert
                    /\ r.alert => r.score <= 8000
                    /\ Safeguarded(answers[r.answer]) => r.score = 10000
  BY DEF GradesHold
<1>1. PICK a \in Attempts : results[i].by = a
  BY ResultOwner DEF JInv
<1>2. PICK v \in Judgement : v = verdict[a]
  BY <1>1 DEF JInv, JudgeTypes
<1>3. v.score \in Scores
  BY DEF Judgement
<1>4. v.score \in Nat /\ v.score <= 20000
  BY <1>3, ScoreBounds
<1>5. /\ results[i].answer = job.payload /\ Graded(Answer, v)
      /\ results[i].score = Stored(v.score) /\ results[i].status = v.status
      /\ results[i].alert = (v.status # "passing")
  BY <1>1, <1>2, ResultSays DEF JInv
<1>6. v.status = Grade(v.score) /\ (Safeguarded(answers[results[i].answer]) => v.score = 20000)
  BY <1>5 DEF Graded, Answer
<1>7. /\ Stored(v.score) \in Nat
      /\ Grade(v.score) = Grade(2 * Stored(v.score)) \/ Stored(v.score) \in {4000, 8000}
      /\ Stored(v.score) < 8000 => Grade(v.score) # "passing"
      /\ Grade(v.score) # "passing" => Stored(v.score) <= 8000
      /\ v.score = 20000 => Stored(v.score) = 10000
  BY <1>4, Rounding
<1> DEFINE r == results[i]
<1>8. r.status = Grade(2 * r.score) \/ r.score \in {4000, 8000}
  BY <1>5, <1>6, <1>7
<1>9. (r.score < 8000 => r.alert) /\ (r.alert => r.score <= 8000)
  <2>1. r.score \in Nat
    BY <1>5, <1>7
  <2>2. CASE v.status = "passing"
    <3>1. ~(r.score < 8000)
      BY <1>5, <1>6, <1>7, <2>2
    <3>2. r.alert = FALSE
      BY <1>5, <2>2
    <3> QED BY <3>1, <3>2
  <2>3. CASE v.status # "passing"
    <3>1. r.score <= 8000
      BY <1>5, <1>6, <1>7, <2>3
    <3>2. r.alert = TRUE
      BY <1>5, <2>3
    <3> QED BY <3>1, <3>2
  <2> QED BY <2>2, <2>3
<1>10. Safeguarded(answers[r.answer]) => r.score = 10000
  <2>1. Safeguarded(answers[r.answer]) => v.score = 20000
    BY <1>6
  <2> QED BY <1>5, <1>7, <2>1
<1> QED BY <1>8, <1>9, <1>10

LEMMA ReportFromJInv == IInv /\ JInv => ReportIsStored
<1> SUFFICES ASSUME IInv, JInv, Judging, job.status = "SUCCEEDED"
             PROVE  LET mine == {i \in DOMAIN results : results[i].by = job.attempt} IN
                    /\ Cardinality(mine) = 1
                    /\ \A i \in mine :
                           /\ results[i].answer = Len(answers)
                           /\ job.result = [score |-> results[i].score,
                                            status |-> results[i].status]
  BY DEF ReportIsStored, Judging
<1>1. PICK i \in DOMAIN results : Reported(i)
  BY DEF JInv
<1>2. {j \in DOMAIN results : results[j].by = job.attempt} = {i}
  BY <1>1 DEF Reported, JInv
<1>3. Cardinality({i}) = 1
  BY FS_Singleton
<1>4. results[i].answer = Len(answers)
  BY DEF JInv, ResultInv, AnswerInv
<1> QED BY <1>1, <1>2, <1>3, <1>4 DEF Reported

LEMMA LearningFromJInv == IInv /\ JInv => LostLearningFailsRun
<1> SUFFICES ASSUME IInv, JInv, NEW i \in DOMAIN results
             PROVE  LET a == results[i].by
                        saved == {n \in DOMAIN learnings : learnings[n] = i}
                    IN  /\ \A j \in DOMAIN results \ {i} : results[j].by # a
                        /\ \A n, m \in saved : n = m
                        /\ saved # {} => verdict[a].learning
                        /\ run[a] = "SUCCEEDED" /\ verdict[a].learning => saved # {}
                        /\ run[a] = "FAILED" =>
                               \/ verdict[a].learning /\ saved = {}
                               \/ SaveSeq \in torn[a]
                                  /\ (verdict[a].learning => saved # {})
  BY Zenon DEF LostLearningFailsRun
<1> DEFINE a == results[i].by
           saved == {n \in DOMAIN learnings : learnings[n] = i}
<1>1. saved # {} <=> Learned(i)
  BY DEF Learned
<1>2. ResultInv(i)
  BY DEF JInv
<1>3. /\ \A j \in DOMAIN results \ {i} : results[j].by # a
      /\ \A n, m \in saved : n = m
  BY DEF JInv
<1>4. /\ Learned(i) => verdict[a].learning
      /\ run[a] = "FAILED" => \/ verdict[a].learning /\ ~Learned(i)
                              \/ SaveSeq \in torn[a] /\ (verdict[a].learning => Learned(i))
      /\ run[a] = "SUCCEEDED" => (verdict[a].learning <=> Learned(i))
  BY <1>2 DEF ResultInv
<1> QED BY <1>1, <1>3, <1>4

\* The stored status is the grade of the stored score but at a threshold, no
\* score below the threshold goes without an alert, and a safeguarded answer
\* passes in full: apply_answer_judging_policy and _score_decimal, for every
\* judgement and every score.
THEOREM GradesAreAligned == Spec => []GradesHold
<1>1. IInv /\ JInv => GradesHold
  BY GradesFromJInv
<1> QED BY <1>1, JudgingInvariant, PTL

\* A SUCCEEDED job reports the one result its own attempt stored, for the answer
\* the job was enqueued for, however often the answer is submitted, the lease is
\* lost or a worker dies between the transactions.
THEOREM ReportsAreStored == Spec => []ReportIsStored
<1>1. IInv /\ JInv => ReportIsStored
  BY ReportFromJInv
<1> QED BY <1>1, JudgingInvariant, PTL

\* An attempt stores at most one result and saves its learning once, if it has
\* one; a run that succeeds has lost none, and one that is FAILED after the insert
\* has lost it, unless only the mark of the insertion's step failed: whichever
\* writes fail, an unmarked loss does not go by as a success.
THEOREM LostLearningsShow == Spec => []LostLearningFailsRun
<1>1. IInv /\ JInv => LostLearningFailsRun
  BY LearningFromJInv
<1> QED BY <1>1, JudgingInvariant, PTL
=============================================================================
