---------------------------- MODULE GenerationRun ----------------------------
(* What an attempt of a generate_test job does: the inspection of the        *)
(* repository by the model, the loop that generates, validates, verifies and *)
(* deduplicates each planned question, and the insertion of those that       *)
(* survive.                                                                  *)
(*                                                                           *)
(* A question is a value; Similar tells the pairs the duplicate test takes   *)
(* for one another.  A tool call is its canonical signature.  What the       *)
(* model, the database and git may do is a disjunct of the step that asks.   *)
EXTENDS AgentJob, StepSequences, Sequences

CONSTANTS
    Questions,          \* the questions a model may come up with
    Similar,            \* the two-element sets of near-duplicates among them
    Signatures,         \* canonical tool calls (name and arguments)
    Plans,              \* the jobs, and the settings they run under
    MaxDuplicates,      \* MAX_DUPLICATE_REGENERATIONS
    PriorLimit,         \* how many earlier questions a run looks at
    NoQuestion

\* A job: questions per pack, whether the packs have an index, attempts; the
\* repairs and evidence regenerations of the loop; calls, a bound on the model
\* and tool calls before the deadline of an inspection.
Plan == [counts : Seq(Nat), indexed : BOOLEAN, attempts : {1, 2},
         repairs : Nat, regens : Nat, calls : Nat]

ASSUME QuestionAssumption == NoQuestion \notin Questions
ASSUME SignatureAssumption == "inspect" \notin Signatures
ASSUME BoundAssumption == {MaxDuplicates, PriorLimit} \subseteq Nat
ASSUME PlanAssumption == \A plan \in Plans : plan \in Plan

\* What the step numbers leave room for: a third attempt at a question, eight
\* turns of a loop, and the calls of an inspection before its deadline.
ASSUME RoomAssumption ==
    /\ MaxDuplicates <= 2
    /\ \A plan \in Plans : plan.repairs + plan.regens <= 7 /\ plan.calls <= 99900

VARIABLES
    at,         \* each attempt's loop variables
    inputs,     \* each attempt's questions that passed, in order
    failures,   \* each attempt's failed questions
    tests       \* generated_tests, oldest first

genVars == <<at, inputs, failures, tests>>

\* The loop variables of an attempt before its first pack.
Fresh == [pack |-> 0, question |-> 0, dup |-> 0, turn |-> 1, repairs |-> 0,
          regens |-> 0, used |-> 0, calls |-> 0, seen |-> {}, prior |-> {},
          read |-> 0, retried |-> {}, draft |-> NoQuestion]

NoGeneration ==
    /\ at = [a \in Attempts |-> Fresh]
    /\ inputs = [a \in Attempts |-> << >>]
    /\ failures = [a \in Attempts |-> 0]
    /\ tests = << >>

GenInit ==
    /\ \E plan \in Plans : JobInit("generate_test", "QUEUED", plan.attempts, plan)
    /\ NoGeneration

-----------------------------------------------------------------------------
(* The plan of the job.                                                      *)

Counts == job.payload.counts
\* The questions of the plan: the pack and the number of each.
Planned == UNION {{i} \X (1..Counts[i]) : i \in DOMAIN Counts}
Requested == Cardinality(Planned)
LastPack(a) == at[a].pack = Len(Counts)
MoreQuestions(a) == at[a].question + 1 < Counts[at[a].pack + 1]

\* validate_question_counts: each of the five categories at most once, with 1
\* to 5 questions, and at most 15 in all.
ValidPlan == /\ Len(Counts) \in 1..5
             /\ \A i \in DOMAIN Counts : Counts[i] \in 1..5
             /\ Requested <= 15

-----------------------------------------------------------------------------
(* The steps of an attempt.                                                  *)

Base(a) == AttemptBase(at[a].pack, at[a].question, at[a].dup)
ModelSeq(a) == TurnSeq(Base(a), at[a].turn, 0)
ValidationSeq(a) == TurnSeq(Base(a), at[a].turn, 1)
EvidenceSeq(a) == TurnSeq(Base(a), at[a].turn, 2)
CallSeq(a) == InspectionSeq(at[a].pack, at[a].used)

-----------------------------------------------------------------------------
(* generate_for_context_packs.                                               *)

\* The exception leaves the runner: generation step and run are FAILED.
RunFails(a, new, updated, rows) ==
    /\ EndInFailure(a, new, updated, Mark(a, GenerationSeq, "FAILED"), rows)
    /\ UNCHANGED genVars

\* Newest first, as many as the run looks at.
Newest(n) == SubSeq(tests, IF Len(tests) > n THEN Len(tests) - n + 1 ELSE 1, Len(tests))

\* Mutant: a run does not look at earlier questions.
QuestionsOfNone(list) == {}
QuestionsOf(list) == {list[i].question : i \in DOMAIN list}

\* The step of the whole generation: _create_generation_step.
GenerationStep == Step("generate", "RUNNING")

\* The run and its generation step, and the earlier questions.
StartRun(a) ==
    /\ phase[a] = "start" /\ ValidPlan
    /\ run' = [run EXCEPT ![a] = "RUNNING"]
    /\ Write(a, One(GenerationSeq, GenerationStep), NoSteps)
    /\ at' = [at EXCEPT ![a].prior = QuestionsOf(Newest(PriorLimit)),
                        ![a].read = Len(tests)]
    /\ Go(a, "pack")
    /\ UNCHANGED <<job, torn, inputs, failures, tests>>

\* The run is inserted, but not marked, or without its generation step.
StartBreaks(a) ==
    /\ phase[a] = "start" /\ ValidPlan
    /\ \E new \in Torn(GenerationSeq, "generate") :
           LeaveRunning(a, new, NoSteps, {GenerationSeq})
    /\ UNCHANGED genVars

\* The n-th question of the pack, under a new deadline.
ToQuestion(a, n) ==
    at' = [at EXCEPT ![a].question = n, ![a].dup = 0, ![a].turn = 1, ![a].repairs = 0,
                     ![a].regens = 0, ![a].retried = {}, ![a].draft = NoQuestion]

\* The artifact of the pack, or the manifest of its index, is unreadable (or the
\* earlier questions are, before the first pack).
PackUnreadable(a) == phase[a] = "pack" /\ ~LastPack(a) /\ RunFails(a, NoSteps, NoSteps, {})

\* The step of an inspection: _create_inspection_plan_step.
PlanStep == Step("plan", "RUNNING")

\* A pack with an index is inspected first, under a deadline of its own.
BeginPack(a) ==
    /\ phase[a] = "pack" /\ ~LastPack(a)
    /\ \/ /\ job.payload.indexed
          /\ at' = [at EXCEPT ![a].used = 0, ![a].calls = 0, ![a].seen = {}]
          /\ Write(a, One(PlanSeq(at[a].pack), PlanStep), NoSteps)
          /\ Go(a, "inspect")
       \/ /\ ~job.payload.indexed
          /\ ToQuestion(a, 0)
          /\ Go(a, "generate")
          /\ UNCHANGED <<steps, created>>
    /\ UNCHANGED <<job, run, torn, inputs, failures, tests>>

\* The plan step is not inserted, or not marked.
PlanBreaks(a) ==
    /\ phase[a] = "pack" /\ ~LastPack(a) /\ job.payload.indexed
    /\ \E new \in Torn(PlanSeq(at[a].pack), "plan") :
           RunFails(a, new, NoSteps, {PlanSeq(at[a].pack)})

-----------------------------------------------------------------------------
(* RepositoryInspector.run: model calls and tool calls under one deadline.   *)

\* Mutant: the plan step is left as it is.
InspectionFailsOpen(a, new, rows) == RunFails(a, new, NoSteps, rows)

\* Deadline, provider, prompt budget, an unexpected tool error or a failing
\* write: the plan step is FAILED, or stays open if that mark fails.
InspectionFails(a, new, rows) ==
    LET plan == PlanSeq(at[a].pack) IN
    \/ RunFails(a, new, Mark(a, plan, "FAILED"), rows)
    \/ RunFails(a, new, NoSteps, rows \union {plan})

\* The call fails, or what follows it: a deadline, the end of the plan step.
InspectModel(a) ==
    /\ phase[a] = "inspect"
    /\ \E status \in Final : InspectionFails(a, One(CallSeq(a), Step("inspect", status)), {})

\* The trace of the call is not written.
InspectBreaks(a) ==
    /\ phase[a] = "inspect"
    /\ \E new \in Torn(CallSeq(a), "inspect") : InspectionFails(a, new, {CallSeq(a)})

InspectLate(a) == phase[a] \in {"inspect", "tools"} /\ InspectionFails(a, NoSteps, {})

\* The model answers with tool calls.
RequestTools(a) ==
    /\ phase[a] = "inspect"
    /\ Write(a, One(CallSeq(a), Step("inspect", "SUCCEEDED")), NoSteps)
    /\ \E n \in 1..job.payload.calls :
           /\ at[a].used + 1 + n <= job.payload.calls
           /\ at' = [at EXCEPT ![a].used = @ + 1, ![a].calls = n]
    /\ Go(a, "tools")
    /\ UNCHANGED <<job, run, torn, inputs, failures, tests>>

\* The step of a tool call, started and finished by the recorder.
ToolStep(signature, status) == Step(signature, status)

\* Mutant: a signature that ran is not remembered.
CallToolAgain(a) ==
    /\ phase[a] = "tools"
    /\ \E signature \in Signatures, status \in Final :
           Write(a, One(CallSeq(a), ToolStep(signature, status)), NoSteps)
    /\ at' = [at EXCEPT ![a].used = @ + 1, ![a].calls = @ - 1]
    /\ Go(a, IF at[a].calls = 1 THEN "inspect" ELSE "tools")
    /\ UNCHANGED <<job, run, torn, inputs, failures, tests>>

\* The next call of the response: a repeated signature is rejected without a
\* step, a novel one runs and is recorded, invalid arguments as a failure.
CallTool(a) ==
    /\ phase[a] = "tools"
    /\ \E signature \in Signatures :
           /\ at' = [at EXCEPT ![a].used = @ + 1, ![a].calls = @ - 1,
                               ![a].seen = @ \union {signature}]
           /\ \/ /\ signature \in at[a].seen
                 /\ UNCHANGED <<steps, created>>
              \/ /\ signature \notin at[a].seen
                 /\ \E status \in Final :
                        Write(a, One(CallSeq(a), ToolStep(signature, status)), NoSteps)
    /\ Go(a, IF at[a].calls = 1 THEN "inspect" ELSE "tools")
    /\ UNCHANGED <<job, run, torn, inputs, failures, tests>>

\* A novel call raises something other than RepoToolError: the tool itself, or
\* the recorder, which writes row, artifact and provenance before the mark.
ToolBreaks(a) ==
    /\ phase[a] = "tools"
    /\ \E signature \in Signatures \ at[a].seen :
           \/ InspectionFails(a, One(CallSeq(a), ToolStep(signature, "FAILED")), {})
           \/ \E new \in Torn(CallSeq(a), signature) : InspectionFails(a, new, {CallSeq(a)})

\* The model asks for nothing more.
FinishInspection(a) ==
    /\ phase[a] = "inspect"
    /\ Write(a, One(CallSeq(a), Step("inspect", "SUCCEEDED")),
             Mark(a, PlanSeq(at[a].pack), "SUCCEEDED"))
    /\ ToQuestion(a, 0)
    /\ Go(a, "generate")
    /\ UNCHANGED <<job, run, torn, inputs, failures, tests>>

-----------------------------------------------------------------------------
(* One question: the agent loop and the duplicate test around it.            *)

\* The next question of the pack, or the next pack.
Advance(a) ==
    IF MoreQuestions(a)
    THEN /\ ToQuestion(a, at[a].question + 1)
         /\ Go(a, "generate")
    ELSE /\ at' = [at EXCEPT ![a].pack = @ + 1]
         /\ Go(a, "pack")

\* Mutant: the failure is logged but not kept.
QuestionFailsUncounted(a, new, updated, rows) ==
    /\ Write(a, new, updated) /\ Tear(a, rows)
    /\ Advance(a)
    /\ UNCHANGED <<job, run, inputs, failures, tests>>

\* The exception of a question is recorded; its siblings go on.
QuestionFails(a, new, updated, rows) ==
    /\ Write(a, new, updated) /\ Tear(a, rows)
    /\ failures' = [failures EXCEPT ![a] = @ + 1]
    /\ Advance(a)
    /\ UNCHANGED <<job, run, inputs, tests>>

\* The provider fails, or answers after the deadline; or the deadline or the
\* prompt budget stop the call.
AskFails(a) ==
    /\ phase[a] = "generate"
    /\ \E status \in Final :
           QuestionFails(a, One(ModelSeq(a), Step("model", status)), NoSteps, {})

AskLate(a) == phase[a] = "generate" /\ QuestionFails(a, NoSteps, NoSteps, {})

\* The trace of the call is not written, or the validation step after it.
AskBreaks(a) ==
    /\ phase[a] = "generate"
    /\ \/ \E new \in Torn(ModelSeq(a), "model") : QuestionFails(a, new, NoSteps, {ModelSeq(a)})
       \/ \E new \in Torn(ValidationSeq(a), "validate") :
              QuestionFails(a, Over(One(ModelSeq(a), Step("model", "SUCCEEDED")), new), NoSteps,
                            {ValidationSeq(a)})

AskModel(a) ==
    /\ phase[a] = "generate"
    /\ Write(a, Over(One(ModelSeq(a), Step("model", "SUCCEEDED")),
                     One(ValidationSeq(a), Step("validate", "RUNNING"))), NoSteps)
    /\ Go(a, "validate")
    /\ UNCHANGED <<job, run, torn, at, inputs, failures, tests>>

\* The loop asks the model once more, with its counters at r and g.
AskAgain(a, updated, r, g) ==
    /\ Write(a, NoSteps, updated)
    /\ at' = [at EXCEPT ![a].turn = @ + 1, ![a].repairs = r, ![a].regens = g]
    /\ Go(a, "generate")
    /\ UNCHANGED <<job, run, torn, inputs, failures, tests>>

ValidOutput(a) ==
    /\ phase[a] = "validate"
    /\ Write(a, One(EvidenceSeq(a), Step("evidence", "RUNNING")),
             Mark(a, ValidationSeq(a), "SUCCEEDED"))
    /\ Go(a, "verify")
    /\ UNCHANGED <<job, run, torn, at, inputs, failures, tests>>

\* Out of repairs, or no room for the repair prompt.
InvalidOutput(a) ==
    /\ phase[a] = "validate"
    /\ LET failed == Mark(a, ValidationSeq(a), "FAILED") IN
       \/ QuestionFails(a, NoSteps, failed, {})
       \/ /\ at[a].repairs < job.payload.repairs
          /\ AskAgain(a, failed, at[a].repairs + 1, at[a].regens)

\* The parser raises something the loop does not catch (a TypeError of the
\* coercion, say), or the error artifact or the mark of the validation step
\* fails: nobody finishes it.  Or the evidence step after it fails to start.
ValidationBreaks(a) ==
    /\ phase[a] = "validate"
    /\ \/ QuestionFails(a, NoSteps, NoSteps, {ValidationSeq(a)})
       \/ \E new \in Torn(EvidenceSeq(a), "evidence") :
              QuestionFails(a, new, Mark(a, ValidationSeq(a), "SUCCEEDED"), {EvidenceSeq(a)})

\* The evidence refs of the question are all available.
ValidEvidence(a) ==
    /\ phase[a] = "verify"
    /\ Write(a, NoSteps, Mark(a, EvidenceSeq(a), "SUCCEEDED"))
    /\ \E question \in Questions : at' = [at EXCEPT ![a].draft = question]
    /\ Go(a, "dedupe")
    /\ UNCHANGED <<job, run, torn, inputs, failures, tests>>

InvalidEvidence(a) ==
    /\ phase[a] = "verify"
    /\ LET failed == Mark(a, EvidenceSeq(a), "FAILED") IN
       \/ QuestionFails(a, NoSteps, failed, {})
       \/ /\ at[a].regens < job.payload.regens
          /\ AskAgain(a, failed, at[a].repairs, at[a].regens + 1)

\* The error artifact or the mark of the evidence step fails.
EvidenceBreaks(a) ==
    phase[a] = "verify" /\ QuestionFails(a, NoSteps, NoSteps, {EvidenceSeq(a)})

Duplicates(x, y) == x = y \/ {x, y} \in Similar
Chosen(a) == {inputs[a][i] : i \in DOMAIN inputs[a]}

Excluded(a) == Chosen(a) \union at[a].prior \union at[a].retried
IsDuplicate(a) == \E x \in Excluded(a) : Duplicates(at[a].draft, x)

\* Not a duplicate: the question is one of the inputs of the insertion.
AcceptQuestion(a) ==
    /\ phase[a] = "dedupe" /\ ~IsDuplicate(a)
    /\ inputs' = [inputs EXCEPT ![a] = Append(@, at[a].draft)]
    /\ Advance(a)
    /\ UNCHANGED <<job, run, steps, created, torn, failures, tests>>

\* Its artifact or provenance is not stored, and the question fails.
ArtifactFails(a) ==
    phase[a] = "dedupe" /\ ~IsDuplicate(a) /\ QuestionFails(a, NoSteps, NoSteps, {})

\* _record_duplicate_step
DuplicateStep == Step("dedupe", "FAILED")

\* A duplicate: a FAILED dedupe step, and a fresh loop while attempts last.
RejectDuplicate(a) ==
    /\ phase[a] = "dedupe" /\ IsDuplicate(a)
    /\ LET rejected == One(DedupeSeq(Base(a)), DuplicateStep) IN
       \/ at[a].dup >= MaxDuplicates /\ QuestionFails(a, rejected, NoSteps, {})
       \/ /\ at[a].dup < MaxDuplicates
          /\ Write(a, rejected, NoSteps)
          /\ at' = [at EXCEPT ![a].dup = @ + 1, ![a].turn = 1, ![a].repairs = 0,
                              ![a].regens = 0, ![a].retried = @ \union {at[a].draft}]
          /\ Go(a, "generate")
          /\ UNCHANGED <<job, run, torn, inputs, failures, tests>>

\* The dedupe step is not inserted, or not finished.
RejectBreaks(a) ==
    /\ phase[a] = "dedupe" /\ IsDuplicate(a)
    /\ \E new \in Torn(DedupeSeq(Base(a)), "dedupe") :
           QuestionFails(a, new, NoSteps, {DedupeSeq(Base(a))})

-----------------------------------------------------------------------------
(* The end of the run.                                                       *)

NothingGenerated(a) ==
    /\ phase[a] = "pack" /\ LastPack(a) /\ inputs[a] = << >>
    /\ RunFails(a, NoSteps, NoSteps, {})

\* The step of the insertion: _create_persist_step.
PersistStep == Step("persist", "RUNNING")

BeginPersist(a) ==
    /\ phase[a] = "pack" /\ LastPack(a) /\ inputs[a] # << >>
    /\ Write(a, One(PersistSeq, PersistStep),
             Mark(a, GenerationSeq, "SUCCEEDED"))
    /\ Go(a, "persist")
    /\ UNCHANGED <<job, run, torn, at, inputs, failures, tests>>

\* Outside every handler, the generation step is not finished, or the step of
\* the insertion not begun.
PersistBreaks(a) ==
    /\ phase[a] = "pack" /\ LastPack(a) /\ inputs[a] # << >>
    /\ \/ LeaveRunning(a, NoSteps, NoSteps, {GenerationSeq})
       \/ \E new \in Torn(PersistSeq, "persist") :
              LeaveRunning(a, new, Mark(a, GenerationSeq, "SUCCEEDED"), {PersistSeq})
    /\ UNCHANGED genVars

\* create_many: one transaction for all the inputs.
InsertTests(a) ==
    /\ phase[a] = "persist"
    /\ tests' = tests \o [i \in DOMAIN inputs[a] |-> [question |-> inputs[a][i], by |-> a]]
    /\ Go(a, "inserted")
    /\ UNCHANGED <<job, run, at, steps, created, torn, inputs, failures>>

InsertFails(a) ==
    /\ phase[a] = "persist"
    /\ EndInFailure(a, NoSteps, NoSteps, Mark(a, PersistSeq, "FAILED"), {})
    /\ UNCHANGED genVars

FinishRun(a) ==
    /\ phase[a] = "inserted"
    /\ Write(a, NoSteps, Mark(a, PersistSeq, "SUCCEEDED"))
    /\ run' = [run EXCEPT ![a] = "SUCCEEDED"]
    /\ Go(a, "report")
    /\ UNCHANGED <<job, torn, at, inputs, failures, tests>>

\* The tests are inserted, but the step of the insertion, or the run, is not
\* finished; no handler is left.
FinishBreaks(a) ==
    /\ phase[a] = "inserted"
    /\ \/ LeaveRunning(a, NoSteps, NoSteps, {PersistSeq})
       \/ LeaveRunning(a, NoSteps, Mark(a, PersistSeq, "SUCCEEDED"), {})
    /\ UNCHANGED genVars

-----------------------------------------------------------------------------
\* What the worker of an attempt does between claim and report.
GenStep(a) ==
    \/ StartRun(a) \/ StartBreaks(a) \/ PackUnreadable(a) \/ BeginPack(a) \/ PlanBreaks(a)
    \/ InspectModel(a) \/ InspectBreaks(a) \/ InspectLate(a) \/ RequestTools(a)
    \/ CallTool(a) \/ ToolBreaks(a) \/ FinishInspection(a)
    \/ AskFails(a) \/ AskLate(a) \/ AskBreaks(a) \/ AskModel(a)
    \/ ValidOutput(a) \/ InvalidOutput(a) \/ ValidationBreaks(a)
    \/ ValidEvidence(a) \/ InvalidEvidence(a) \/ EvidenceBreaks(a)
    \/ AcceptQuestion(a) \/ ArtifactFails(a) \/ RejectDuplicate(a) \/ RejectBreaks(a)
    \/ NothingGenerated(a) \/ BeginPersist(a) \/ PersistBreaks(a)
    \/ InsertTests(a) \/ InsertFails(a) \/ FinishRun(a) \/ FinishBreaks(a)

\* What the job reports: the questions generated and failed.
GenResult(a) == [generated |-> Len(inputs[a]), failed |-> failures[a]]

-----------------------------------------------------------------------------
(* Properties.                                                               *)

\* No two tests of a run are duplicates, however the model repeats itself within
\* a question, across questions and across packs.  A retry repeats a question of
\* an earlier attempt only if that attempt inserted it after the retry had read
\* the earlier questions, that is, if the two attempts overlapped (as long as
\* PriorLimit reaches back far enough).
RepeatsOnlyByOverlap ==
    \A i, j \in DOMAIN tests :
        i < j /\ Duplicates(tests[i].question, tests[j].question) =>
            tests[i].by # tests[j].by /\ i > at[tests[j].by].read

\* The tests an attempt has inserted.
Mine(a) == {i \in DOMAIN tests : tests[i].by = a}

\* Tests appear all at once and only for a run that is not going to be FAILED; a
\* SUCCEEDED run inserted every question it accepted, at least one; a SUCCEEDED
\* job reports as many as its attempt inserted, and accounts for every planned
\* question once, generated or failed.
TestsMatchRun ==
    job.type = "generate_test" =>
        /\ \A a \in Attempts :
               /\ Mine(a) # {} => run[a] # "FAILED" /\ Cardinality(Mine(a)) = Len(inputs[a])
               /\ run[a] = "SUCCEEDED" => Mine(a) # {}
        /\ job.status = "SUCCEEDED" =>
               /\ job.result.generated = Cardinality(Mine(job.attempt))
               /\ job.result.generated + job.result.failed = Requested

\* The trace of an inspection has one step per novel call: a signature never
\* runs twice and never goes unrecorded.
EachCallOnce ==
    \A a \in Attempts : phase[a] \in {"inspect", "tools"} =>
        LET mine == {s \in DOMAIN steps[a] : /\ s >= InspectionSeq(at[a].pack, 0)
                                             /\ steps[a][s].kind # "inspect"} IN
        /\ {steps[a][s].kind : s \in mine} = at[a].seen
        /\ Cardinality(mine) = Cardinality(at[a].seen)

\* "A job succeeds when at least one planned question is valid" (README): no
\* run that accepted a question is FAILED, unless the insertion failed.
ValidQuestionSucceeds ==
    \A a \in Attempts : run[a] = "FAILED" /\ inputs[a] # << >> => PersistSeq \in DOMAIN steps[a]
=============================================================================
