--------------------------- MODULE AgentJobsProofs ---------------------------
(* Proofs about AgentJobs for every plan, every set of questions and calls,   *)
(* and every interleaving of the attempts of a job.                           *)
(*                                                                            *)
(* The numbers of a run only grow: at every place of the loops, what has been *)
(* inserted is below the number the next step of that place gets.             *)
EXTENDS AgentJobs, FiniteSetTheorems, TLAPS

Held(a) == DOMAIN steps[a]
Below(a, n) == \A s \in Held(a) : s < n

\* The fields of the records the actions update.
JobFields == {"type", "status", "attempt", "max", "payload", "result"}
LoopFields == {"pack", "question", "dup", "turn", "repairs", "regens", "used", "calls",
               "seen", "prior", "read", "retried", "draft"}
Shapes ==
    /\ DOMAIN job = JobFields
    /\ DOMAIN phase = Attempts /\ DOMAIN steps = Attempts /\ DOMAIN created = Attempts
    /\ DOMAIN at = Attempts
    /\ \A a \in Attempts : DOMAIN at[a] = LoopFields

\* A job that runs through the generation has one of the plans; an answer is
\* only submitted to be judged.
PlanKnown ==
    /\ job.type = "generate_test" => job.payload \in Plans
    /\ api = "saved" => job.type = "judge_answer"

\* Every step an attempt has inserted is there, once.
Counted(a) ==
    /\ IsFiniteSet(Held(a)) /\ Held(a) \subseteq Nat
    /\ created[a] = Cardinality(Held(a))

Asking == {"generate", "validate", "verify", "dedupe"}
Looping == {"pack", "inspect", "tools"} \cup Asking

AtPack(a) ==
    /\ at[a].pack \in 0..Len(Counts)
    /\ Below(a, PlanSeq(at[a].pack))

AtInspection(a) ==
    /\ at[a].pack \in Nat /\ at[a].pack < Len(Counts)
    /\ at[a].used \in Nat /\ at[a].calls \in Nat
    /\ at[a].used + at[a].calls <= job.payload.calls
    /\ phase[a] = "tools" => at[a].calls > 0
    /\ PlanSeq(at[a].pack) \in Held(a)
    /\ Below(a, CallSeq(a))

\* A place in the loop of a question.
AtQuestion(a) ==
    /\ at[a].pack \in Nat /\ at[a].pack < Len(Counts)
    /\ at[a].question \in Nat /\ at[a].question < Counts[at[a].pack + 1]
    /\ at[a].dup \in 0..MaxDuplicates
    /\ at[a].repairs \in 0..job.payload.repairs
    /\ at[a].regens \in 0..job.payload.regens
    /\ at[a].turn = 1 + at[a].repairs + at[a].regens

AtTurn(a) ==
    /\ phase[a] = "generate" => Below(a, ModelSeq(a))
    /\ phase[a] = "validate" => ValidationSeq(a) \in Held(a) /\ Below(a, EvidenceSeq(a))
    /\ phase[a] = "verify" => EvidenceSeq(a) \in Held(a) /\ Below(a, EvidenceSeq(a) + 1)
    /\ phase[a] = "dedupe" => Below(a, DedupeSeq(Base(a)))

\* Where an attempt is, its latest number and the steps it will finish.
Placed(a) ==
    /\ phase[a] \in {"idle", "start"} => Held(a) = {} /\ at[a].pack = 0
    /\ phase[a] \in Looping \cup {"persist"} => job.type = "generate_test" /\ ValidPlan
    /\ phase[a] \in Looping => GenerationSeq \in Held(a)
    /\ phase[a] = "pack" => AtPack(a)
    /\ phase[a] \in {"inspect", "tools"} => AtInspection(a)
    /\ phase[a] \in Asking => AtQuestion(a) /\ AtTurn(a)
    /\ phase[a] = "persist" => PersistSeq \in Held(a)
    /\ phase[a] = "judge" => job.type = "judge_answer" /\ Held(a) = {JudgeSeq}
    /\ phase[a] = "judged" => job.type = "judge_answer" /\ SaveSeq \in Held(a)
    /\ phase[a] = "inserted" =>
           IF job.type = "generate_test" THEN PersistSeq \in Held(a) ELSE SaveSeq \in Held(a)
    /\ phase[a] = "learned" => job.type = "judge_answer" /\ SaveSeq \in Held(a)

IInv == Shapes /\ PlanKnown /\ \A a \in Attempts : Counted(a) /\ Placed(a)

-----------------------------------------------------------------------------
(* The numbers.                                                              *)

\* The plan step of a pack, its calls and the first turn of its first question
\* come one after the other, if the calls are few enough.
LEMMA InspectionOrder ==
    ASSUME NEW pack \in Nat
    PROVE  /\ PlanSeq(pack) \in Nat /\ GenerationSeq < PlanSeq(pack)
           /\ InspectionSeq(pack, 0) \in Nat
           /\ TurnSeq(AttemptBase(pack, 0, 0), 1, 0) \in Nat
           /\ PlanSeq(pack) < InspectionSeq(pack, 0)
           /\ PlanSeq(pack) < TurnSeq(AttemptBase(pack, 0, 0), 1, 0)
    BY SMT DEF PlanSeq, InspectionSeq, TurnSeq, AttemptBase, GenerationSeq, PackStride,
               PlanStepBase, InspectionBase, QuestionStride, DuplicateStride,
               GenerationBase, TurnStride

LEMMA CallOrder ==
    ASSUME NEW pack \in Nat, NEW n \in Nat, n < 99910
    PROVE  /\ InspectionSeq(pack, n) \in Nat
           /\ \A s \in Nat : s <= InspectionSeq(pack, n) =>
                  /\ s < InspectionSeq(pack, n + 1)
                  /\ s < TurnSeq(AttemptBase(pack, 0, 0), 1, 0)
    BY SMT DEF InspectionSeq, TurnSeq, AttemptBase, PackStride, InspectionBase,
               QuestionStride, DuplicateStride, GenerationBase, TurnStride

\* The three steps of a turn follow one another, up to eight turns come before
\* the rejection of the question, and each turn before the next.
LEMMA TurnOrder ==
    ASSUME NEW base \in Nat, NEW turn \in 1..8
    PROVE  /\ TurnSeq(base, turn, 0) \in Nat /\ TurnSeq(base, turn, 1) \in Nat
           /\ TurnSeq(base, turn, 2) \in Nat /\ DedupeSeq(base) \in Nat
           /\ TurnSeq(base, turn, 0) < TurnSeq(base, turn, 1)
           /\ TurnSeq(base, turn, 1) < TurnSeq(base, turn, 2)
           /\ TurnSeq(base, turn, 2) < DedupeSeq(base)
    BY SMT DEF TurnSeq, DedupeSeq, GenerationBase, TurnStride, DedupeOffset

LEMMA NextTurn ==
    ASSUME NEW base \in Nat, NEW turn \in 1..8
    PROVE  \A s \in Nat : s <= TurnSeq(base, turn, 2) => s < TurnSeq(base, turn + 1, 0)
    BY SMT DEF TurnSeq, GenerationBase, TurnStride

\* Attempts at a question, questions of a pack and packs have ranges of their
\* own, and all come before the insertion.
LEMMA AttemptOrder ==
    ASSUME NEW pack \in Nat, NEW q \in 0..4, NEW dup \in 0..2
    PROVE  /\ AttemptBase(pack, q, dup) \in Nat
           /\ \A s \in Nat : s <= DedupeSeq(AttemptBase(pack, q, dup)) =>
                  /\ s < TurnSeq(AttemptBase(pack, q, dup + 1), 1, 0)
                  /\ s < TurnSeq(AttemptBase(pack, q + 1, 0), 1, 0)
                  /\ s < PlanSeq(pack + 1)
    BY SMT DEF TurnSeq, AttemptBase, DedupeSeq, PlanSeq, GenerationBase, TurnStride, DedupeOffset,
               PackStride, QuestionStride, DuplicateStride, PlanStepBase

LEMMA PackOrder ==
    ASSUME NEW pack \in 0..5
    PROVE  PlanSeq(pack) \in Nat /\ PlanSeq(pack) < PersistSeq
    BY SMT DEF PlanSeq, PersistSeq, PackStride, PlanStepBase

-----------------------------------------------------------------------------
(* What a write does to the table of an attempt.                             *)

\* New numbers, and finished steps that are there.
Fits(a, new, updated) ==
    /\ IsFiniteSet(DOMAIN new) /\ DOMAIN new \subseteq Nat
    /\ DOMAIN new \cap Held(a) = {} /\ DOMAIN updated \subseteq Held(a)

\* An attempt gets the steps of these numbers, and nobody else does.
Grows(a, more) ==
    /\ Counted(a)' /\ Held(a)' = Held(a) \cup more
    /\ DOMAIN steps' = Attempts /\ DOMAIN created' = Attempts
    /\ \A b \in Attempts \ {a} : steps'[b] = steps[b] /\ created'[b] = created[b]

LEMMA WriteGrows ==
    ASSUME IInv, NEW a \in Attempts, NEW new, NEW updated,
           Fits(a, new, updated), Write(a, new, updated)
    PROVE  Grows(a, DOMAIN new)
<1> USE DEF IInv, Fits
<1>1. /\ steps' = [steps EXCEPT ![a] = Over(new, Over(updated, steps[a]))]
      /\ created' = [created EXCEPT ![a] = created[a] + Cardinality(DOMAIN new)]
  BY DEF Write
<1>2. Held(a)' = Held(a) \cup DOMAIN new
  BY <1>1 DEF Held, Shapes, Over
<1>3. /\ IsFiniteSet(Held(a)')
      /\ Cardinality(Held(a)') = Cardinality(Held(a)) + Cardinality(DOMAIN new)
      /\ Cardinality(DOMAIN new) \in Nat
  <2>1. IsFiniteSet(Held(a)) /\ IsFiniteSet(Held(a) \cap DOMAIN new)
    BY FS_EmptySet DEF Counted
  <2>2. Cardinality(Held(a) \cap DOMAIN new) = 0
    BY FS_EmptySet
  <2>3. /\ IsFiniteSet(Held(a) \cup DOMAIN new)
        /\ Cardinality(Held(a) \cup DOMAIN new) =
               Cardinality(Held(a)) + Cardinality(DOMAIN new) - Cardinality(Held(a) \cap DOMAIN new)
    BY <2>1, FS_Union
  <2>4. Cardinality(Held(a)) \in Nat /\ Cardinality(DOMAIN new) \in Nat
    BY <2>1, FS_CardinalityType
  <2> QED BY <1>2, <2>2, <2>3, <2>4
<1>4. created'[a] = created[a] + Cardinality(DOMAIN new)
  BY <1>1 DEF Shapes
<1>5. Counted(a)'
  BY <1>2, <1>3, <1>4 DEF Counted
<1>6. /\ DOMAIN steps' = Attempts /\ DOMAIN created' = Attempts
      /\ \A b \in Attempts \ {a} : steps'[b] = steps[b] /\ created'[b] = created[b]
  BY <1>1 DEF Shapes
<1> QED BY <1>2, <1>5, <1>6 DEF Grows

\* A step that writes nothing.
LEMMA KeepGrows ==
    ASSUME IInv, NEW a \in Attempts, UNCHANGED <<steps, created>>
    PROVE  Grows(a, {})
<1>1. Counted(a)' /\ Held(a)' = Held(a)
  BY DEF IInv, Counted, Held
<1> QED BY <1>1 DEF Grows, IInv, Shapes

\* The case of no step, of one and of two.
LEMMA FewSteps ==
    ASSUME NEW x \in Nat, NEW y \in Nat, NEW s, NEW t
    PROVE  /\ IsFiniteSet(DOMAIN NoSteps) /\ IsFiniteSet(DOMAIN One(x, s))
           /\ IsFiniteSet(DOMAIN Over(One(x, s), One(y, t)))
           /\ DOMAIN Over(One(x, s), One(y, t)) = {x, y}
<1>1. IsFiniteSet({}) /\ IsFiniteSet({x}) /\ IsFiniteSet({y})
  BY FS_EmptySet, FS_Singleton
<1>2. IsFiniteSet({x} \cup {y})
  BY <1>1, FS_Union
<1>3. DOMAIN NoSteps = {} /\ DOMAIN One(x, s) = {x} /\ DOMAIN One(y, t) = {y}
  BY DEF NoSteps, One
<1>4. DOMAIN Over(One(x, s), One(y, t)) = {x} \cup {y}
  BY <1>3 DEF Over
<1> QED BY <1>1, <1>2, <1>3, <1>4

-----------------------------------------------------------------------------
(* Attempts do not disturb one another.                                      *)

\* What an attempt's part of the invariant looks at.
Same(b) ==
    /\ phase'[b] = phase[b] /\ steps'[b] = steps[b] /\ created'[b] = created[b]
    /\ at'[b] = at[b]

LEMMA OthersKeep ==
    ASSUME IInv, NEW b \in Attempts, Same(b), job'.type = job.type,
           phase[b] \in Looping \cup {"persist"} => job'.payload = job.payload
    PROVE  Counted(b)' /\ Placed(b)'
<1>1. Counted(b)' /\ Held(b)' = Held(b)
  BY DEF IInv, Counted, Held, Same
<1>2. phase[b] \in Looping \cup {"persist"} => Counts' = Counts /\ (ValidPlan => ValidPlan')
  <2> SUFFICES ASSUME phase[b] \in Looping \cup {"persist"}
               PROVE  Counts' = Counts /\ (ValidPlan => ValidPlan')
    OBVIOUS
  <2>1. Counts' = Counts
    BY DEF Counts
  <2>2. Requested' = Requested
    BY <2>1 DEF Requested, Planned
  <2> QED BY <2>1, <2>2 DEF ValidPlan
<1>3. phase[b] = "pack" => AtPack(b)'
  BY <1>1, <1>2 DEF IInv, Placed, Same, Looping, AtPack, Below
<1>4. phase[b] \in {"inspect", "tools"} => AtInspection(b)'
  BY <1>1, <1>2 DEF IInv, Placed, Same, Looping, AtInspection, Below, CallSeq
<1>5. phase[b] \in Asking => AtQuestion(b)'
  BY <1>2 DEF IInv, Placed, Same, Looping, AtQuestion
<1>6. phase[b] \in Asking => AtTurn(b)'
  BY <1>1, <1>2 DEF IInv, Placed, Same, AtTurn, Below, ModelSeq, ValidationSeq, EvidenceSeq, Base
<1>7. Placed(b)
  BY DEF IInv
<1> QED BY <1>1, <1>2, <1>3, <1>4, <1>5, <1>6, <1>7 DEF Placed, Same

\* A step of an attempt that leaves the others and the plan alone.
LEMMA OneMoves ==
    ASSUME IInv, NEW a \in Attempts, \A b \in Attempts \ {a} : Same(b),
           job'.type = job.type, job'.payload = job.payload, api' = api,
           Shapes', Counted(a)', Placed(a)'
    PROVE  IInv'
<1>1. PlanKnown'
  BY DEF IInv, PlanKnown
<1>2. \A b \in Attempts : Counted(b)' /\ Placed(b)'
  BY OthersKeep
<1> QED BY <1>1, <1>2 DEF IInv

\* A step that only moves an attempt to a place that asks for nothing.
LEMMA ControlIInv ==
    ASSUME IInv, NEW a \in Attempts, NEW next, Go(a, next),
           next \notin Looping \cup {"idle", "start", "persist", "judge", "judged",
                                    "inserted", "learned"},
           DOMAIN job' = JobFields, job'.type = job.type, job'.payload = job.payload,
           UNCHANGED <<steps, created, at, api>>
    PROVE  IInv'
<1>1. phase'[a] = next /\ DOMAIN phase' = Attempts /\ \A b \in Attempts \ {a} : Same(b)
  BY DEF Go, Same, IInv, Shapes
<1>2. Shapes'
  BY <1>1 DEF IInv, Shapes
<1>3. Counted(a)'
  BY DEF IInv, Counted, Held
<1>4. Placed(a)'
  BY <1>1 DEF Placed, Looping, Asking
<1> QED BY <1>1, <1>2, <1>3, <1>4, OneMoves

\* Claim, crash, refusal and reports.
LEMMA QueueIInv ==
    ASSUME IInv, NEW a \in Attempts, UNCHANGED <<genVars, judgeVars>>,
           \/ Claim(a) \/ Crash(a) \/ RefuseJob(a) \/ ReportFailure(a)
           \/ \E result : ReportSuccess(a, result)
    PROVE  IInv'
<1> USE DEF genVars, judgeVars
<1>1. CASE Claim(a)
  <2>1. phase'[a] = "start" /\ DOMAIN phase' = Attempts /\ \A b \in Attempts \ {a} : Same(b)
    BY <1>1 DEF Claim, Go, Same, IInv, Shapes
  <2>2. DOMAIN job' = JobFields /\ job'.type = job.type /\ job'.payload = job.payload
    BY <1>1 DEF Claim, IInv, Shapes, JobFields
  <2>3. Shapes'
    BY <1>1, <2>1, <2>2 DEF Claim, IInv, Shapes
  <2>4. Counted(a)' /\ Held(a)' = Held(a)
    BY <1>1 DEF Claim, IInv, Counted, Held
  <2>5. Held(a) = {} /\ at[a].pack = 0
    BY <1>1 DEF Claim, IInv, Placed
  <2>6. Placed(a)'
    BY <2>1, <2>4, <2>5 DEF Placed, Looping, Asking
  <2> QED BY <2>1, <2>2, <2>3, <2>4, <2>6, OneMoves
<1>2. CASE Crash(a)
  BY <1>2, ControlIInv DEF Crash, IInv, Shapes, Looping, Asking
<1>3. CASE RefuseJob(a)
  BY <1>3, ControlIInv DEF RefuseJob, IInv, Shapes, Looping, Asking
<1>4. CASE ReportFailure(a)
  <2>1. DOMAIN job' = JobFields /\ job'.type = job.type /\ job'.payload = job.payload
    BY <1>4 DEF ReportFailure, IInv, Shapes, JobFields
  <2> QED BY <1>4, <2>1, ControlIInv DEF ReportFailure, Looping, Asking
<1>5. CASE \E result : ReportSuccess(a, result)
  <2>1. DOMAIN job' = JobFields /\ job'.type = job.type /\ job'.payload = job.payload
    BY <1>5 DEF ReportSuccess, IInv, Shapes, JobFields
  <2> QED BY <1>5, <2>1, ControlIInv DEF ReportSuccess, Looping, Asking
<1> QED BY <1>1, <1>2, <1>3, <1>4, <1>5

\* A lease that runs out moves no attempt.
LEMMA LapseIInv ==
    ASSUME IInv, Lapse
    PROVE  IInv'
<1>1. DOMAIN job' = JobFields /\ job'.type = job.type /\ job'.payload = job.payload
  BY DEF Lapse, LeaseExpires, IInv, Shapes, JobFields
<1>2. UNCHANGED <<phase, run, steps, created, at, api>>
  BY DEF Lapse, LeaseExpires, genVars, judgeVars
<1>3. \A b \in Attempts : Counted(b)' /\ Placed(b)'
  BY <1>1, <1>2, OthersKeep DEF Same
<1> QED BY <1>1, <1>2, <1>3 DEF IInv, Shapes, PlanKnown

\* An answer is submitted, or its job enqueued: no attempt is generating then.
LEMMA SubmitIInv ==
    ASSUME IInv, Submit
    PROVE  IInv'
<1>1. /\ DOMAIN job' = JobFields /\ job'.type = job.type
      /\ job'.payload = job.payload \/ job.type = "judge_answer"
      /\ job'.type = "judge_answer"
  BY DEF Submit, SubmitAnswer, EnqueueJudging, SubmissionBreaks, jobVars, IInv, Shapes,
         JobFields, PlanKnown
<1>2. UNCHANGED <<phase, run, steps, created, at>>
  BY DEF Submit, SubmitAnswer, EnqueueJudging, SubmissionBreaks, jobVars, genVars
<1>3. \A b \in Attempts : phase[b] \notin Looping \cup {"persist"}
  BY <1>1 DEF IInv, Placed
<1>4. \A b \in Attempts : Counted(b)' /\ Placed(b)'
  BY <1>1, <1>2, <1>3, OthersKeep DEF Same
<1> QED BY <1>1, <1>2, <1>4 DEF IInv, Shapes, PlanKnown

-----------------------------------------------------------------------------
(* How the steps of a run write and move on.                                 *)

\* What is left to show of a step that writes and goes on is its new place.
LEMMA Moves ==
    ASSUME IInv, NEW a \in Attempts, NEW more, NEW next,
           Grows(a, more), Go(a, next), UNCHANGED <<job, api>>,
           DOMAIN at' = Attempts, DOMAIN at'[a] = LoopFields,
           \A b \in Attempts \ {a} : at'[b] = at[b]
    PROVE  /\ phase'[a] = next /\ Held(a)' = Held(a) \cup more
           /\ Placed(a)' => IInv'
<1>1. Shapes
  BY DEF IInv
<1>2. /\ Counted(a)' /\ Held(a)' = Held(a) \cup more
      /\ DOMAIN steps' = Attempts /\ DOMAIN created' = Attempts
      /\ \A b \in Attempts \ {a} : steps'[b] = steps[b] /\ created'[b] = created[b]
  BY DEF Grows
<1>3. phase'[a] = next /\ DOMAIN phase' = Attempts
      /\ \A b \in Attempts \ {a} : phase'[b] = phase[b]
  BY <1>1 DEF Go, Shapes
<1>4. Shapes'
  BY <1>1, <1>2, <1>3 DEF Shapes
<1>5. \A b \in Attempts \ {a} : Same(b)
  BY <1>2, <1>3 DEF Same
<1> QED BY <1>2, <1>3, <1>4, <1>5, OneMoves

\* One step is inserted, or none.
LEMMA FitsOne ==
    ASSUME NEW a \in Attempts, NEW x, x \in Nat, x \notin Held(a), NEW step, NEW updated,
           DOMAIN updated \subseteq Held(a)
    PROVE  Fits(a, One(x, step), updated) /\ DOMAIN One(x, step) = {x}
<1>1. DOMAIN One(x, step) = {x}
  BY DEF One
<1>2. IsFiniteSet({x})
  BY FS_Singleton
<1> QED BY <1>1, <1>2 DEF Fits

LEMMA FitsNone ==
    ASSUME NEW a \in Attempts, NEW updated, DOMAIN updated \subseteq Held(a)
    PROVE  Fits(a, NoSteps, updated) /\ DOMAIN NoSteps = {}
<1>1. DOMAIN NoSteps = {}
  BY DEF NoSteps
<1> QED BY <1>1, FS_EmptySet DEF Fits

\* A step that is there is finished, or none is.
LEMMA MarkHeld ==
    ASSUME NEW a \in Attempts, NEW x, x \in Held(a), NEW status
    PROVE  DOMAIN Mark(a, x, status) \subseteq Held(a)
    BY DEF Mark, One

LEMMA MarkNone == \A a \in Attempts : DOMAIN NoSteps \subseteq Held(a)
    BY DEF NoSteps

\* A step of the attempt is not written, or not finished.
LEMMA FitsTorn ==
    ASSUME NEW a \in Attempts, NEW x, x \in Nat, x \notin Held(a), NEW kind,
           NEW new \in Torn(x, kind), NEW updated, DOMAIN updated \subseteq Held(a)
    PROVE  Fits(a, new, updated) /\ DOMAIN new \subseteq {x}
<1>1. new = NoSteps \/ new = One(x, Step(kind, "RUNNING"))
  BY DEF Torn
<1>2. CASE new = NoSteps
  BY <1>2, FitsNone
<1>3. CASE new = One(x, Step(kind, "RUNNING"))
  <2>1. ASSUME NEW step PROVE Fits(a, One(x, step), updated) /\ DOMAIN One(x, step) = {x}
    BY FitsOne
  <2> QED BY <1>3, <2>1
<1> QED BY <1>1, <1>2, <1>3

\* The run ends, or is left as it is, and asks for nothing more.
LEMMA RaiseIInv ==
    ASSUME IInv, NEW a \in Attempts, NEW new, NEW updated,
           Fits(a, new, updated), Write(a, new, updated), Raise(a), UNCHANGED <<at, api>>
    PROVE  IInv'
<1>1. Shapes
  BY DEF IInv
<1>2. phase'[a] = "raised" /\ (Placed(a)' => IInv')
  BY <1>1, WriteGrows, Moves DEF Raise, Shapes
<1> QED BY <1>2 DEF Placed, Looping, Asking

LEMMA FailIInv ==
    ASSUME IInv, NEW a \in Attempts, NEW new, NEW updated, NEW closing, NEW rows,
           Fits(a, new, updated), DOMAIN closing \subseteq Held(a),
           EndInFailure(a, new, updated, closing, rows), UNCHANGED <<at, api>>
    PROVE  IInv'
<1>1. PICK lost :
          /\ Write(a, new, Over(updated, [s \in DOMAIN closing \ lost |-> closing[s]]))
          /\ Raise(a)
  BY DEF EndInFailure
<1> DEFINE done == Over(updated, [s \in DOMAIN closing \ lost |-> closing[s]])
<1>2. DOMAIN done \subseteq Held(a)
  BY DEF Over, Fits
<1>3. Fits(a, new, done)
  BY <1>2 DEF Fits
<1> HIDE DEF done
<1>4. Write(a, new, done) /\ Raise(a)
  BY <1>1 DEF done
<1> QED BY <1>3, <1>4, RaiseIInv

LEMMA LeaveIInv ==
    ASSUME IInv, NEW a \in Attempts, NEW new, NEW updated, NEW rows,
           Fits(a, new, updated), LeaveRunning(a, new, updated, rows), UNCHANGED <<at, api>>
    PROVE  IInv'
    BY RaiseIInv DEF LeaveRunning

LEMMA RunFailsIInv ==
    ASSUME IInv, NEW a \in Attempts, NEW new, NEW updated, NEW rows, phase[a] \in Looping,
           Fits(a, new, updated), RunFails(a, new, updated, rows), UNCHANGED api
    PROVE  IInv'
<1>1. DOMAIN Mark(a, GenerationSeq, "FAILED") \subseteq Held(a)
  BY MarkHeld DEF IInv, Placed
<1> QED BY <1>1, FailIInv DEF RunFails, genVars

-----------------------------------------------------------------------------
(* The places of a run.                                                      *)

\* The plan bounds packs, questions, turns and calls.
LEMMA PlanBounds ==
    ASSUME IInv, NEW a \in Attempts, phase[a] \in Looping \cup {"persist"}
    PROVE  /\ job.type = "generate_test" /\ job.payload \in Plans
           /\ Len(Counts) \in 1..5 /\ \A i \in 1..Len(Counts) : Counts[i] \in 1..5
           /\ job.payload.repairs \in Nat /\ job.payload.regens \in Nat
           /\ job.payload.calls \in Nat
           /\ job.payload.repairs + job.payload.regens <= 7 /\ job.payload.calls <= 99900
           /\ MaxDuplicates \in Nat /\ MaxDuplicates <= 2
<1>1. job.type = "generate_test" /\ ValidPlan /\ job.payload \in Plans
  BY DEF IInv, Placed, PlanKnown
<1>2. job.payload \in Plan
  BY <1>1, PlanAssumption
<1>3. DOMAIN Counts = 1..Len(Counts)
  BY <1>2 DEF Counts, Plan
<1>4. Len(Counts) \in 1..5 /\ \A i \in 1..Len(Counts) : Counts[i] \in 1..5
  BY <1>1, <1>3 DEF ValidPlan
<1> QED BY <1>1, <1>2, <1>4, RoomAssumption, BoundAssumption DEF Plan

\* A step of the run keeps the plan.
LEMMA PlanKept ==
    ASSUME IInv, NEW a \in Attempts, phase[a] \in Looping \cup {"persist"}, UNCHANGED job
    PROVE  job'.type = "generate_test" /\ Counts' = Counts /\ ValidPlan'
<1>1. job.type = "generate_test" /\ ValidPlan
  BY DEF IInv, Placed
<1>2. Counts' = Counts
  BY DEF Counts
<1>3. Requested' = Requested
  BY <1>2 DEF Requested, Planned
<1> QED BY <1>1, <1>2, <1>3 DEF ValidPlan

\* The steps of the turn an attempt is at, and its rejection, in their order.
LEMMA QuestionNumbers ==
    ASSUME IInv, NEW a \in Attempts, phase[a] \in Asking
    PROVE  /\ at[a].pack \in 0..4 /\ at[a].pack < Len(Counts) /\ at[a].question \in 0..4
           /\ at[a].dup \in 0..2 /\ at[a].turn \in 1..8
           /\ Base(a) \in Nat /\ Base(a) = AttemptBase(at[a].pack, at[a].question, at[a].dup)
           /\ ModelSeq(a) \in Nat /\ ValidationSeq(a) \in Nat /\ EvidenceSeq(a) \in Nat
           /\ DedupeSeq(Base(a)) \in Nat
           /\ ModelSeq(a) < ValidationSeq(a) /\ ValidationSeq(a) < EvidenceSeq(a)
           /\ EvidenceSeq(a) < DedupeSeq(Base(a))
           /\ GenerationSeq \in Held(a) /\ Held(a) \subseteq Nat
           /\ Below(a, DedupeSeq(Base(a)))
<1>1. AtQuestion(a) /\ AtTurn(a) /\ GenerationSeq \in Held(a) /\ Held(a) \subseteq Nat
  BY DEF IInv, Placed, Counted, Looping
<1>2. PICK n \in 1..5 : n = Len(Counts)
  BY PlanBounds DEF Looping
<1>3. at[a].pack \in Nat /\ at[a].pack < n
  BY <1>1, <1>2 DEF AtQuestion
<1>4. at[a].pack \in 0..4
  BY <1>3
<1>5. /\ at[a].question \in 0..4
      /\ at[a].dup \in 0..2
      /\ at[a].turn \in 1..8
  <2>1. Counts[at[a].pack + 1] \in 1..5
    <3>1. \A i \in 1..n : Counts[i] \in 1..5
      BY <1>2, PlanBounds DEF Looping
    <3> QED BY <1>3, <3>1
  <2>2. at[a].question \in Nat /\ at[a].question < Counts[at[a].pack + 1]
    BY <1>1 DEF AtQuestion
  <2>3. at[a].question \in 0..4
    BY <2>1, <2>2
  <2>4. MaxDuplicates \in Nat /\ MaxDuplicates <= 2
    BY PlanBounds DEF Looping
  <2>5. at[a].dup \in 0..MaxDuplicates
    BY <1>1 DEF AtQuestion
  <2>6. /\ job.payload.repairs \in Nat /\ job.payload.regens \in Nat
        /\ job.payload.repairs + job.payload.regens <= 7
    BY PlanBounds DEF Looping
  <2>7. /\ at[a].repairs \in 0..job.payload.repairs
        /\ at[a].regens \in 0..job.payload.regens
        /\ at[a].turn = 1 + at[a].repairs + at[a].regens
    BY <1>1 DEF AtQuestion
  <2>8. at[a].dup \in 0..2
    BY <2>4, <2>5
  <2>9. at[a].turn \in 1..8
    BY <2>6, <2>7
  <2> QED BY <2>3, <2>8, <2>9
<1>6. Base(a) \in Nat /\ Base(a) = AttemptBase(at[a].pack, at[a].question, at[a].dup)
  <2>1. \A p \in Nat, q \in 0..4, d \in 0..2 : AttemptBase(p, q, d) \in Nat
    BY AttemptOrder
  <2>2. Base(a) = AttemptBase(at[a].pack, at[a].question, at[a].dup)
    BY DEF Base
  <2> QED BY <1>3, <1>5, <2>1, <2>2
<1>7. /\ ModelSeq(a) \in Nat /\ ValidationSeq(a) \in Nat /\ EvidenceSeq(a) \in Nat
      /\ DedupeSeq(Base(a)) \in Nat
      /\ ModelSeq(a) < ValidationSeq(a) /\ ValidationSeq(a) < EvidenceSeq(a)
      /\ EvidenceSeq(a) < DedupeSeq(Base(a))
  BY <1>5, <1>6, TurnOrder DEF ModelSeq, ValidationSeq, EvidenceSeq
<1>8. Below(a, DedupeSeq(Base(a)))
  BY <1>1, <1>7 DEF AtTurn, Below, Asking
<1> QED BY <1>1, <1>2, <1>3, <1>4, <1>5, <1>6, <1>7, <1>8

\* A fresh loop for the n-th question.
LEMMA ToQuestionMoves ==
    ASSUME Shapes, NEW a \in Attempts, NEW n, ToQuestion(a, n)
    PROVE  /\ DOMAIN at' = Attempts /\ DOMAIN at'[a] = LoopFields
           /\ \A b \in Attempts \ {a} : at'[b] = at[b]
           /\ at'[a].pack = at[a].pack /\ at'[a].question = n
           /\ at'[a].dup = 0 /\ at'[a].turn = 1 /\ at'[a].repairs = 0 /\ at'[a].regens = 0
<1>1. at' = [at EXCEPT ![a] = [at[a] EXCEPT !.question = n, !.dup = 0, !.turn = 1,
                 !.repairs = 0, !.regens = 0, !.retried = {}, !.draft = NoQuestion]]
  BY DEF ToQuestion
<1>2. at'[a] = [at[a] EXCEPT !.question = n, !.dup = 0, !.turn = 1,
                 !.repairs = 0, !.regens = 0, !.retried = {}, !.draft = NoQuestion]
  BY <1>1 DEF Shapes
<1>3. DOMAIN at' = Attempts /\ \A b \in Attempts \ {a} : at'[b] = at[b]
  BY <1>1 DEF Shapes
<1>4. DOMAIN at[a] = LoopFields
  BY DEF Shapes
<1>5. /\ DOMAIN at'[a] = LoopFields
      /\ at'[a].pack = at[a].pack /\ at'[a].question = n
      /\ at'[a].dup = 0 /\ at'[a].turn = 1 /\ at'[a].repairs = 0 /\ at'[a].regens = 0
  BY <1>2, <1>4 DEF LoopFields
<1> QED BY <1>3, <1>5

\* The first turn of a loop is within its bounds.
LEMMA FirstTurn ==
    ASSUME IInv, NEW a \in Attempts, phase[a] \in Looping, UNCHANGED job,
           at'[a].pack \in Nat, at'[a].pack < Len(Counts'),
           at'[a].question \in Nat, at'[a].question < Counts'[at'[a].pack + 1],
           at'[a].dup \in 0..MaxDuplicates,
           at'[a].turn = 1, at'[a].repairs = 0, at'[a].regens = 0
    PROVE  AtQuestion(a)'
<1>1. job.payload.repairs \in Nat /\ job.payload.regens \in Nat
  BY PlanBounds
<1>2. at'[a].repairs \in 0..job'.payload.repairs /\ at'[a].regens \in 0..job'.payload.regens
  BY <1>1
<1>3. at'[a].turn = 1 + at'[a].repairs + at'[a].regens
  OBVIOUS
<1> QED BY <1>2, <1>3 DEF AtQuestion

\* The next question of the pack or the next pack, whatever the last question
\* has inserted up to its rejection.
LEMMA AdvanceIInv ==
    ASSUME IInv, NEW a \in Attempts, NEW more, phase[a] \in Asking,
           \A s \in more : s \in Nat /\ s <= DedupeSeq(Base(a)),
           Grows(a, more), Advance(a), UNCHANGED <<job, api>>
    PROVE  IInv'
<1>1. Shapes
  BY DEF IInv
<1>2. /\ at[a].pack \in 0..4 /\ at[a].question \in 0..4 /\ at[a].dup \in 0..2
      /\ Base(a) = AttemptBase(at[a].pack, at[a].question, at[a].dup)
      /\ DedupeSeq(Base(a)) \in Nat
      /\ GenerationSeq \in Held(a) /\ Held(a) \subseteq Nat /\ Below(a, DedupeSeq(Base(a)))
  BY QuestionNumbers
<1>3. at[a].pack < Len(Counts)
  BY QuestionNumbers
<1>4. \A s \in Held(a) \cup more :
          /\ s < TurnSeq(AttemptBase(at[a].pack, at[a].question + 1, 0), 1, 0)
          /\ s < PlanSeq(at[a].pack + 1)
  <2>1. \A s \in Held(a) \cup more :
            s \in Nat /\ s <= DedupeSeq(AttemptBase(at[a].pack, at[a].question, at[a].dup))
    BY <1>2 DEF Below
  <2>2. \A p \in Nat, q \in 0..4, d \in 0..2, s \in Nat :
            s <= DedupeSeq(AttemptBase(p, q, d)) =>
                s < TurnSeq(AttemptBase(p, q + 1, 0), 1, 0) /\ s < PlanSeq(p + 1)
    BY AttemptOrder
  <2>3. at[a].pack \in Nat
    BY <1>2
  <2> QED BY <1>2, <2>1, <2>2, <2>3
<1>5. job'.type = "generate_test" /\ Counts' = Counts /\ ValidPlan'
  BY PlanKept DEF Looping
<1>6. CASE MoreQuestions(a)
  <2>1. ToQuestion(a, at[a].question + 1) /\ Go(a, "generate")
    BY <1>6 DEF Advance
  <2>2. /\ DOMAIN at' = Attempts /\ DOMAIN at'[a] = LoopFields
        /\ \A b \in Attempts \ {a} : at'[b] = at[b]
        /\ at'[a].pack = at[a].pack /\ at'[a].question = at[a].question + 1
        /\ at'[a].dup = 0 /\ at'[a].turn = 1 /\ at'[a].repairs = 0 /\ at'[a].regens = 0
    BY <1>1, <2>1, ToQuestionMoves
  <2>3. /\ phase'[a] = "generate" /\ Held(a)' = Held(a) \cup more
        /\ Placed(a)' => IInv'
    BY <2>1, <2>2, Moves
  <2>4. AtQuestion(a)'
    <3>1. at[a].question + 1 < Counts[at[a].pack + 1]
      BY <1>6 DEF MoreQuestions
    <3>2. /\ at'[a].pack \in Nat /\ at'[a].pack < Len(Counts)'
          /\ at'[a].question \in Nat /\ at'[a].question < Counts'[at'[a].pack + 1]
      BY <1>2, <1>3, <1>5, <2>2, <3>1
    <3>3. at'[a].dup \in 0..MaxDuplicates
      BY <2>2, BoundAssumption
    <3> QED BY <2>2, <3>2, <3>3, FirstTurn DEF Looping
  <2>5. ModelSeq(a)' = TurnSeq(AttemptBase(at[a].pack, at[a].question + 1, 0), 1, 0)
    BY <2>2 DEF ModelSeq, Base
  <2>6. AtTurn(a)'
    BY <1>4, <2>3, <2>5 DEF AtTurn, Below
  <2>7. Placed(a)'
    BY <1>2, <1>5, <2>3, <2>4, <2>6 DEF Placed, Looping, Asking
  <2> QED BY <2>3, <2>7
<1>7. CASE ~MoreQuestions(a)
  <2>1. at' = [at EXCEPT ![a].pack = at[a].pack + 1] /\ Go(a, "pack")
    BY <1>7 DEF Advance
  <2>2. /\ DOMAIN at' = Attempts /\ DOMAIN at'[a] = LoopFields
        /\ \A b \in Attempts \ {a} : at'[b] = at[b]
        /\ at'[a].pack = at[a].pack + 1
    BY <1>1, <2>1 DEF Shapes, LoopFields
  <2>3. /\ phase'[a] = "pack" /\ Held(a)' = Held(a) \cup more
        /\ Placed(a)' => IInv'
    BY <2>1, <2>2, Moves
  <2>4. AtPack(a)'
    <3>1. Below(a, PlanSeq(at[a].pack))'
      BY <1>4, <2>2, <2>3 DEF Below
    <3>2. PICK n \in 1..5 : n = Len(Counts)
      BY PlanBounds DEF Looping
    <3>3. at[a].pack + 1 \in 0..n
      BY <1>2, <1>3, <3>2
    <3> QED BY <1>5, <2>2, <3>1, <3>2, <3>3 DEF AtPack
  <2>5. Placed(a)'
    BY <1>2, <1>5, <2>3, <2>4 DEF Placed, Looping, Asking
  <2> QED BY <2>3, <2>5
<1> QED BY <1>6, <1>7

LEMMA QuestionFailsIInv ==
    ASSUME IInv, NEW a \in Attempts, NEW new, NEW updated, NEW rows, phase[a] \in Asking,
           Fits(a, new, updated), \A s \in DOMAIN new : s <= DedupeSeq(Base(a)),
           QuestionFails(a, new, updated, rows), UNCHANGED api
    PROVE  IInv'
<1>1. Grows(a, DOMAIN new)
  BY WriteGrows DEF QuestionFails
<1>2. \A s \in DOMAIN new : s \in Nat /\ s <= DedupeSeq(Base(a))
  BY DEF Fits
<1> QED BY <1>1, <1>2, AdvanceIInv DEF QuestionFails

-----------------------------------------------------------------------------
(* Packs and their inspection.                                               *)

LEMMA StartRunIInv ==
    ASSUME IInv, NEW a \in Attempts, job.type = "generate_test", StartRun(a), UNCHANGED api
    PROVE  IInv'
<1>1. Shapes /\ Held(a) = {} /\ at[a].pack = 0 /\ ValidPlan /\ job.payload \in Plans
  BY DEF IInv, Placed, StartRun, PlanKnown
<1>2. DOMAIN One(GenerationSeq, GenerationStep) = {GenerationSeq} /\ GenerationSeq \in Nat
  BY DEF One, GenerationSeq
<1>3. Grows(a, {GenerationSeq})
  <2>1. Fits(a, One(GenerationSeq, GenerationStep), NoSteps)
    BY <1>1, <1>2, FitsOne, MarkNone
  <2> QED BY <1>2, <2>1, WriteGrows DEF StartRun
<1>4. /\ DOMAIN at' = Attempts /\ DOMAIN at'[a] = LoopFields
      /\ \A b \in Attempts \ {a} : at'[b] = at[b]
      /\ at'[a].pack = at[a].pack
  BY <1>1 DEF StartRun, Shapes, LoopFields
<1>5. /\ phase'[a] = "pack" /\ Held(a)' = {GenerationSeq}
      /\ Placed(a)' => IInv'
  BY <1>1, <1>3, <1>4, Moves DEF StartRun
<1>6. Counts' = Counts /\ Requested' = Requested /\ ValidPlan'
  <2>1. Counts' = Counts
    BY DEF StartRun, Counts
  <2>2. Requested' = Requested
    BY <2>1 DEF Requested, Planned
  <2> QED BY <1>1, <2>1, <2>2 DEF ValidPlan
<1>7. AtPack(a)'
  <2>1. GenerationSeq < PlanSeq(0)
    BY InspectionOrder
  <2>2. Below(a, PlanSeq(at[a].pack))'
    BY <1>1, <1>4, <1>5, <2>1 DEF Below
  <2>3. PICK n \in 1..5 : n = Len(Counts)
    BY <1>1 DEF ValidPlan
  <2> QED BY <1>1, <1>4, <1>6, <2>2, <2>3 DEF AtPack
<1> QED BY <1>5, <1>6, <1>7 DEF Placed, Looping, Asking, StartRun

LEMMA StartBreaksIInv ==
    ASSUME IInv, NEW a \in Attempts, StartBreaks(a), UNCHANGED api
    PROVE  IInv'
<1>1. GenerationSeq \in Nat /\ GenerationSeq \notin Held(a)
  BY DEF IInv, Placed, StartBreaks, GenerationSeq
<1>2. PICK new \in Torn(GenerationSeq, "generate") :
          LeaveRunning(a, new, NoSteps, {GenerationSeq})
  BY DEF StartBreaks
<1>3. Fits(a, new, NoSteps)
  BY <1>1, FitsTorn, MarkNone
<1> QED BY <1>2, <1>3, LeaveIInv DEF StartBreaks, genVars

\* The pack an attempt begins is one of the plan, and its plan step new.
LEMMA PackNumbers ==
    ASSUME IInv, NEW a \in Attempts, phase[a] = "pack"
    PROVE  /\ at[a].pack \in Nat
           /\ ~LastPack(a) => at[a].pack \in 0..4 /\ at[a].pack < Len(Counts)
           /\ GenerationSeq \in Held(a) /\ Held(a) \subseteq Nat
           /\ PlanSeq(at[a].pack) \in Nat /\ PlanSeq(at[a].pack) < PersistSeq
           /\ Below(a, PlanSeq(at[a].pack))
<1>1. AtPack(a) /\ GenerationSeq \in Held(a) /\ Held(a) \subseteq Nat
  BY DEF IInv, Placed, Looping, Counted
<1>2. PICK n \in 1..5 : n = Len(Counts)
  BY PlanBounds DEF Looping
<1>3. at[a].pack \in 0..n /\ Below(a, PlanSeq(at[a].pack))
  BY <1>1, <1>2 DEF AtPack
<1>4. at[a].pack \in 0..5
  BY <1>3
<1>5. PlanSeq(at[a].pack) \in Nat /\ PlanSeq(at[a].pack) < PersistSeq
  BY <1>4, PackOrder
<1>6. at[a].pack # n => at[a].pack \in 0..4 /\ at[a].pack < n
  BY <1>3
<1> QED BY <1>1, <1>2, <1>3, <1>5, <1>6 DEF LastPack


LEMMA PackFailsIInv ==
    ASSUME IInv, NEW a \in Attempts, UNCHANGED api,
           PackUnreadable(a) \/ NothingGenerated(a) \/ PlanBreaks(a)
    PROVE  IInv'
<1>1. phase[a] = "pack" /\ phase[a] \in Looping
  BY DEF PackUnreadable, NothingGenerated, PlanBreaks, Looping
<1>2. CASE PackUnreadable(a) \/ NothingGenerated(a)
  <2>1. RunFails(a, NoSteps, NoSteps, {})
    BY <1>2 DEF PackUnreadable, NothingGenerated
  <2>2. Fits(a, NoSteps, NoSteps)
    BY FitsNone, MarkNone
  <2> QED BY <1>1, <2>1, <2>2, RunFailsIInv
<1>3. CASE PlanBreaks(a)
  <2>1. PICK new \in Torn(PlanSeq(at[a].pack), "plan") :
            RunFails(a, new, NoSteps, {PlanSeq(at[a].pack)})
    BY <1>3 DEF PlanBreaks
  <2>2. PlanSeq(at[a].pack) \in Nat /\ PlanSeq(at[a].pack) \notin Held(a)
    BY <1>1, PackNumbers DEF Below
  <2>3. Fits(a, new, NoSteps)
    BY <2>2, FitsTorn, MarkNone
  <2> QED BY <1>1, <2>1, <2>3, RunFailsIInv
<1> QED BY <1>2, <1>3

\* The first question of a pack, whatever its inspection has recorded.
LEMMA FirstQuestionIInv ==
    ASSUME IInv, NEW a \in Attempts, NEW more, phase[a] \in Looping,
           at[a].pack \in 0..4, at[a].pack < Len(Counts),
           \A s \in Held(a) \cup more : s < TurnSeq(AttemptBase(at[a].pack, 0, 0), 1, 0),
           Grows(a, more), ToQuestion(a, 0), Go(a, "generate"), UNCHANGED <<job, api>>
    PROVE  IInv'
<1>1. Shapes /\ GenerationSeq \in Held(a)
  BY DEF IInv, Placed
<1>2. /\ DOMAIN at' = Attempts /\ DOMAIN at'[a] = LoopFields
      /\ \A b \in Attempts \ {a} : at'[b] = at[b]
      /\ at'[a].pack = at[a].pack /\ at'[a].question = 0
      /\ at'[a].dup = 0 /\ at'[a].turn = 1 /\ at'[a].repairs = 0 /\ at'[a].regens = 0
  BY <1>1, ToQuestionMoves
<1>3. /\ phase'[a] = "generate" /\ Held(a)' = Held(a) \cup more
      /\ Placed(a)' => IInv'
  BY <1>2, Moves
<1>4. job'.type = "generate_test" /\ Counts' = Counts /\ ValidPlan'
  BY PlanKept
<1>5. AtQuestion(a)'
  <2>1. PICK n \in 1..5 : n = Len(Counts)
    BY PlanBounds
  <2>2. \A i \in 1..n : Counts[i] \in 1..5
    BY <2>1, PlanBounds
  <2>3. at[a].pack + 1 \in 1..n
    BY <2>1
  <2>4. Counts[at[a].pack + 1] \in 1..5
    BY <2>2, <2>3
  <2>5. at'[a].question < Counts'[at'[a].pack + 1]
    BY <1>2, <1>4, <2>4
  <2>6. at'[a].dup \in 0..MaxDuplicates
    BY <1>2, BoundAssumption
  <2>7. at'[a].pack \in Nat /\ at'[a].pack < Len(Counts')
    BY <1>2, <1>4
  <2>8. at'[a].question \in Nat
    BY <1>2
  <2> QED BY <1>2, <2>5, <2>6, <2>7, <2>8, FirstTurn
<1>6. ModelSeq(a)' = TurnSeq(AttemptBase(at[a].pack, 0, 0), 1, 0)
  BY <1>2 DEF ModelSeq, Base
<1>7. AtTurn(a)'
  BY <1>3, <1>6 DEF AtTurn, Below
<1> QED BY <1>1, <1>3, <1>4, <1>5, <1>7 DEF Placed, Looping, Asking

LEMMA BeginPackIInv ==
    ASSUME IInv, NEW a \in Attempts, BeginPack(a), UNCHANGED api
    PROVE  IInv'
<1>1. Shapes
  BY DEF IInv
<1>2. /\ at[a].pack \in 0..4 /\ at[a].pack < Len(Counts)
      /\ GenerationSeq \in Held(a) /\ Held(a) \subseteq Nat
      /\ PlanSeq(at[a].pack) \in Nat /\ Below(a, PlanSeq(at[a].pack))
  BY PackNumbers DEF BeginPack
<1>3. job'.type = "generate_test" /\ Counts' = Counts /\ ValidPlan'
  BY PlanKept DEF BeginPack, Looping
<1>4. \A p \in Nat : /\ PlanSeq(p) < InspectionSeq(p, 0)
                     /\ PlanSeq(p) < TurnSeq(AttemptBase(p, 0, 0), 1, 0)
                     /\ TurnSeq(AttemptBase(p, 0, 0), 1, 0) \in Nat
                     /\ InspectionSeq(p, 0) \in Nat
  BY InspectionOrder
<1>5. at[a].pack \in Nat
  BY <1>2
<1>6. CASE job.payload.indexed
  <2>1. /\ at' = [at EXCEPT ![a].used = 0, ![a].calls = 0, ![a].seen = {}]
        /\ Write(a, One(PlanSeq(at[a].pack), PlanStep), NoSteps)
        /\ Go(a, "inspect") /\ UNCHANGED job
    BY <1>6 DEF BeginPack
  <2>2. /\ DOMAIN at' = Attempts /\ DOMAIN at'[a] = LoopFields
        /\ \A b \in Attempts \ {a} : at'[b] = at[b]
        /\ at'[a].pack = at[a].pack /\ at'[a].used = 0 /\ at'[a].calls = 0
    BY <1>1, <2>1 DEF Shapes, LoopFields
  <2>3. Grows(a, {PlanSeq(at[a].pack)})
    <3>1. PlanSeq(at[a].pack) \notin Held(a)
      BY <1>2 DEF Below
    <3>2. /\ Fits(a, One(PlanSeq(at[a].pack), PlanStep), NoSteps)
          /\ DOMAIN One(PlanSeq(at[a].pack), PlanStep) = {PlanSeq(at[a].pack)}
      BY <1>2, <3>1, FitsOne, MarkNone
    <3> QED BY <2>1, <3>2, WriteGrows
  <2>4. /\ phase'[a] = "inspect" /\ Held(a)' = Held(a) \cup {PlanSeq(at[a].pack)}
        /\ Placed(a)' => IInv'
    BY <2>1, <2>2, <2>3, Moves
  <2>5. AtInspection(a)'
    <3>1. CallSeq(a)' = InspectionSeq(at[a].pack, 0)
      BY <2>2 DEF CallSeq
    <3>2. PlanSeq(at[a].pack) < InspectionSeq(at[a].pack, 0) /\ InspectionSeq(at[a].pack, 0) \in Nat
      BY <1>4, <1>5
    <3>3. \A s \in Held(a) \cup {PlanSeq(at[a].pack)} : s < InspectionSeq(at[a].pack, 0)
      BY <1>2, <3>2 DEF Below
    <3>4. Below(a, CallSeq(a))'
      BY <2>4, <3>1, <3>3 DEF Below
    <3>5. job'.payload.calls \in Nat
      BY <2>1, PlanBounds DEF BeginPack, Looping
    <3>6. at'[a].pack \in Nat /\ at'[a].pack < Len(Counts')
      BY <1>2, <1>3, <2>2
    <3>7. /\ at'[a].used \in Nat /\ at'[a].calls \in Nat
          /\ at'[a].used + at'[a].calls <= job'.payload.calls
      BY <2>2, <3>5
    <3> QED BY <2>2, <2>4, <3>4, <3>6, <3>7 DEF AtInspection
  <2> QED BY <1>2, <1>3, <2>4, <2>5 DEF Placed, Looping, Asking
<1>7. CASE ~job.payload.indexed
  <2>1. ToQuestion(a, 0) /\ Go(a, "generate") /\ UNCHANGED <<job, steps, created>>
    BY <1>7 DEF BeginPack
  <2>2. Grows(a, {})
    BY <2>1, KeepGrows
  <2>3. /\ PlanSeq(at[a].pack) < TurnSeq(AttemptBase(at[a].pack, 0, 0), 1, 0)
        /\ TurnSeq(AttemptBase(at[a].pack, 0, 0), 1, 0) \in Nat
    BY <1>4, <1>5
  <2>4. \A s \in Held(a) \cup {} : s < TurnSeq(AttemptBase(at[a].pack, 0, 0), 1, 0)
    BY <1>2, <2>3 DEF Below
  <2> QED BY <1>2, <2>1, <2>2, <2>4, FirstQuestionIInv DEF BeginPack, Looping
<1> QED BY <1>6, <1>7

LEMMA BeginPersistIInv ==
    ASSUME IInv, NEW a \in Attempts, BeginPersist(a), UNCHANGED api
    PROVE  IInv'
<1>1. /\ GenerationSeq \in Held(a) /\ Held(a) \subseteq Nat
      /\ PlanSeq(at[a].pack) \in Nat /\ PlanSeq(at[a].pack) < PersistSeq
      /\ Below(a, PlanSeq(at[a].pack)) /\ Shapes
  BY PackNumbers DEF BeginPersist, IInv
<1>2. PersistSeq \in Nat
  BY SMT DEF PersistSeq
<1>3. PersistSeq \notin Held(a)
  BY <1>1, <1>2 DEF Below
<1>4. /\ Fits(a, One(PersistSeq, PersistStep), Mark(a, GenerationSeq, "SUCCEEDED"))
      /\ DOMAIN One(PersistSeq, PersistStep) = {PersistSeq}
  <2>1. DOMAIN Mark(a, GenerationSeq, "SUCCEEDED") \subseteq Held(a)
    BY <1>1, MarkHeld
  <2> QED BY <1>2, <1>3, <2>1, FitsOne
<1>5. Grows(a, {PersistSeq})
  BY <1>4, WriteGrows DEF BeginPersist
<1>6. /\ phase'[a] = "persist" /\ Held(a)' = Held(a) \cup {PersistSeq}
      /\ Placed(a)' => IInv'
  BY <1>1, <1>5, Moves DEF BeginPersist, Shapes
<1>7. job'.type = "generate_test" /\ ValidPlan'
  BY PlanKept DEF BeginPersist, Looping
<1> QED BY <1>6, <1>7 DEF Placed, Looping, Asking

LEMMA PersistBreaksIInv ==
    ASSUME IInv, NEW a \in Attempts, PersistBreaks(a), UNCHANGED api
    PROVE  IInv'
<1>1. /\ GenerationSeq \in Held(a) /\ Held(a) \subseteq Nat
      /\ PlanSeq(at[a].pack) \in Nat /\ PlanSeq(at[a].pack) < PersistSeq
      /\ Below(a, PlanSeq(at[a].pack))
  BY PackNumbers DEF PersistBreaks
<1>2. PersistSeq \in Nat
  BY SMT DEF PersistSeq
<1>3. PersistSeq \notin Held(a)
  BY <1>1, <1>2 DEF Below
<1>4. DOMAIN Mark(a, GenerationSeq, "SUCCEEDED") \subseteq Held(a)
  BY <1>1, MarkHeld
<1>5. UNCHANGED <<at, api>>
  BY DEF PersistBreaks, genVars
<1>6. CASE LeaveRunning(a, NoSteps, NoSteps, {GenerationSeq})
  <2>1. Fits(a, NoSteps, NoSteps)
    BY FitsNone, MarkNone
  <2> QED BY <1>5, <1>6, <2>1, LeaveIInv
<1>7. ASSUME NEW new \in Torn(PersistSeq, "persist"),
             LeaveRunning(a, new, Mark(a, GenerationSeq, "SUCCEEDED"), {PersistSeq})
      PROVE  IInv'
  <2>1. Fits(a, new, Mark(a, GenerationSeq, "SUCCEEDED"))
    BY <1>2, <1>3, <1>4, FitsTorn
  <2> QED BY <1>5, <1>7, <2>1, LeaveIInv
<1> QED BY <1>6, <1>7 DEF PersistBreaks

\* The next call of an inspection gets a new number.
LEMMA InspectionNumbers ==
    ASSUME IInv, NEW a \in Attempts, phase[a] \in {"inspect", "tools"}
    PROVE  /\ at[a].pack \in 0..4 /\ at[a].pack < Len(Counts)
           /\ at[a].used \in Nat /\ at[a].calls \in Nat
           /\ at[a].used + at[a].calls <= job.payload.calls /\ job.payload.calls \in Nat
           /\ phase[a] = "tools" => at[a].calls > 0
           /\ PlanSeq(at[a].pack) \in Held(a)
           /\ CallSeq(a) \in Nat /\ CallSeq(a) \notin Held(a)
           /\ \A s \in Held(a) \cup {CallSeq(a)} :
                  /\ s < InspectionSeq(at[a].pack, at[a].used + 1)
                  /\ s < TurnSeq(AttemptBase(at[a].pack, 0, 0), 1, 0)
<1>1. AtInspection(a) /\ Held(a) \subseteq Nat
  BY DEF IInv, Placed, Counted
<1>2. /\ at[a].used \in Nat /\ at[a].calls \in Nat
      /\ at[a].used + at[a].calls <= job.payload.calls
      /\ phase[a] = "tools" => at[a].calls > 0
      /\ PlanSeq(at[a].pack) \in Held(a) /\ Below(a, CallSeq(a))
  BY <1>1 DEF AtInspection
<1>3. at[a].pack \in 0..4 /\ at[a].pack < Len(Counts)
  <2>1. PICK n \in 1..5 : n = Len(Counts)
    BY PlanBounds DEF Looping
  <2>2. at[a].pack \in Nat /\ at[a].pack < n
    BY <1>1, <2>1 DEF AtInspection
  <2>3. at[a].pack \in 0..4
    BY <2>2
  <2> QED BY <2>1, <2>2, <2>3
<1>4. job.payload.calls \in Nat /\ job.payload.calls <= 99900
  BY PlanBounds DEF Looping
<1>5. at[a].used < 99910
  BY <1>2, <1>4
<1>6. \A p \in Nat, n \in Nat : n < 99910 =>
          /\ InspectionSeq(p, n) \in Nat
          /\ \A s \in Nat : s <= InspectionSeq(p, n) =>
                 s < InspectionSeq(p, n + 1) /\ s < TurnSeq(AttemptBase(p, 0, 0), 1, 0)
  BY CallOrder
<1>7. at[a].pack \in Nat /\ CallSeq(a) = InspectionSeq(at[a].pack, at[a].used)
  BY <1>3 DEF CallSeq
<1>8. CallSeq(a) \in Nat
  <2>1. \A p \in Nat, n \in Nat : n < 99910 => InspectionSeq(p, n) \in Nat
    BY <1>6
  <2>2. at[a].pack \in Nat /\ at[a].used \in Nat
    BY <1>2, <1>7
  <2>3. InspectionSeq(at[a].pack, at[a].used) \in Nat
    BY <1>5, <2>1, <2>2
  <2> QED BY <1>7, <2>3
<1>9. \A s \in Held(a) \cup {CallSeq(a)} : s \in Nat /\ s <= CallSeq(a)
  BY <1>1, <1>2, <1>8 DEF Below
<1>10. CallSeq(a) \notin Held(a)
  BY <1>2, <1>8 DEF Below
<1>11. \A s \in Held(a) \cup {CallSeq(a)} :
           /\ s < InspectionSeq(at[a].pack, at[a].used + 1)
           /\ s < TurnSeq(AttemptBase(at[a].pack, 0, 0), 1, 0)
  <2> TAKE s \in Held(a) \cup {CallSeq(a)}
  <2>1. s \in Nat /\ s <= InspectionSeq(at[a].pack, at[a].used)
    BY <1>7, <1>9
  <2>2. \A t \in Nat : t <= InspectionSeq(at[a].pack, at[a].used) =>
            /\ t < InspectionSeq(at[a].pack, at[a].used + 1)
            /\ t < TurnSeq(AttemptBase(at[a].pack, 0, 0), 1, 0)
    <3>1. PICK p \in Nat : p = at[a].pack
      BY <1>7
    <3>2. PICK n \in Nat : n = at[a].used
      BY <1>2
    <3>3. n < 99910
      BY <1>5, <3>2
    <3>4. \A t \in Nat : t <= InspectionSeq(p, n) =>
              t < InspectionSeq(p, n + 1) /\ t < TurnSeq(AttemptBase(p, 0, 0), 1, 0)
      BY <3>3, CallOrder
    <3> QED BY <3>1, <3>2, <3>4
  <2> QED BY <2>1, <2>2
<1> QED BY <1>2, <1>3, <1>4, <1>8, <1>10, <1>11

\* The inspection fails, whatever becomes of its plan step.
LEMMA InspectionEndsIInv ==
    ASSUME IInv, NEW a \in Attempts, phase[a] \in {"inspect", "tools"}, UNCHANGED api,
           NEW new, NEW rows, Fits(a, new, NoSteps), InspectionFails(a, new, rows)
    PROVE  IInv'
<1>1. PlanSeq(at[a].pack) \in Held(a) /\ phase[a] \in Looping
  BY InspectionNumbers DEF Looping
<1>2. DOMAIN Mark(a, PlanSeq(at[a].pack), "FAILED") \subseteq Held(a)
  BY <1>1, MarkHeld
<1>3. Fits(a, new, Mark(a, PlanSeq(at[a].pack), "FAILED"))
  BY <1>2 DEF Fits
<1>4. CASE RunFails(a, new, Mark(a, PlanSeq(at[a].pack), "FAILED"), rows)
  BY <1>1, <1>3, <1>4, RunFailsIInv
<1>5. CASE RunFails(a, new, NoSteps, rows \union {PlanSeq(at[a].pack)})
  BY <1>1, <1>5, RunFailsIInv
<1> QED BY <1>4, <1>5 DEF InspectionFails

\* A call that fails the inspection is recorded, or was not made, or its own
\* trace is what fails.
LEMMA InspectionFailsIInv ==
    ASSUME IInv, NEW a \in Attempts, UNCHANGED api,
           InspectModel(a) \/ InspectBreaks(a) \/ InspectLate(a) \/ ToolBreaks(a)
    PROVE  IInv'
<1>1. phase[a] \in {"inspect", "tools"}
  BY DEF InspectModel, InspectBreaks, InspectLate, ToolBreaks
<1>2. CallSeq(a) \in Nat /\ CallSeq(a) \notin Held(a)
  BY <1>1, InspectionNumbers
<1>3. ASSUME NEW step, NEW rows, InspectionFails(a, One(CallSeq(a), step), rows) PROVE IInv'
  <2>1. Fits(a, One(CallSeq(a), step), NoSteps)
    BY <1>2, FitsOne, MarkNone
  <2> QED BY <1>1, <1>3, <2>1, InspectionEndsIInv
<1>4. ASSUME NEW kind, NEW new \in Torn(CallSeq(a), kind), NEW rows,
             InspectionFails(a, new, rows)
      PROVE  IInv'
  <2>1. Fits(a, new, NoSteps)
    BY <1>2, FitsTorn, MarkNone
  <2> QED BY <1>1, <1>4, <2>1, InspectionEndsIInv
<1>5. CASE InspectLate(a)
  <2>1. InspectionFails(a, NoSteps, {}) /\ Fits(a, NoSteps, NoSteps)
    BY <1>5, FitsNone, MarkNone DEF InspectLate
  <2> QED BY <1>1, <2>1, InspectionEndsIInv
<1>6. CASE InspectModel(a)
  BY <1>3, <1>6 DEF InspectModel
<1>7. CASE InspectBreaks(a)
  BY <1>4, <1>7 DEF InspectBreaks
<1>8. CASE ToolBreaks(a)
  BY <1>3, <1>4, <1>8 DEF ToolBreaks
<1> QED BY <1>5, <1>6, <1>7, <1>8

\* An inspection goes on after a model or tool call, recorded or rejected.
LEMMA InspectionMoves ==
    ASSUME IInv, NEW a \in Attempts, phase[a] \in {"inspect", "tools"},
           NEW more, more \subseteq {CallSeq(a)}, NEW next, next \in {"inspect", "tools"},
           Grows(a, more), Go(a, next), UNCHANGED <<job, api>>,
           DOMAIN at' = Attempts, DOMAIN at'[a] = LoopFields,
           \A b \in Attempts \ {a} : at'[b] = at[b],
           at'[a].pack = at[a].pack, at'[a].used = at[a].used + 1, at'[a].calls \in Nat,
           at'[a].used + at'[a].calls <= job.payload.calls,
           next = "tools" => at'[a].calls > 0
    PROVE  IInv'
<1>1. /\ phase'[a] = next /\ Held(a)' = Held(a) \cup more
      /\ Placed(a)' => IInv'
  BY Moves
<1>2. job'.type = "generate_test" /\ Counts' = Counts /\ ValidPlan'
  BY PlanKept DEF Looping
<1>3. GenerationSeq \in Held(a)
  BY DEF IInv, Placed, Looping
<1>4. Below(a, CallSeq(a))'
  <2>1. \A s \in Held(a) \cup more : s < InspectionSeq(at[a].pack, at[a].used + 1)
    BY InspectionNumbers
  <2>2. CallSeq(a)' = InspectionSeq(at[a].pack, at[a].used + 1)
    BY DEF CallSeq
  <2> QED BY <1>1, <2>1, <2>2 DEF Below
<1>5. at'[a].pack \in Nat /\ at'[a].pack < Len(Counts')
  <2>1. at[a].pack \in 0..4 /\ at[a].pack < Len(Counts)
    BY InspectionNumbers
  <2> QED BY <1>2, <2>1
<1>6. PlanSeq(at'[a].pack) \in Held(a)'
  BY <1>1, InspectionNumbers
<1>7. at'[a].used \in Nat
  BY InspectionNumbers
<1>8. AtInspection(a)'
  BY <1>1, <1>4, <1>5, <1>6, <1>7 DEF AtInspection
<1> QED BY <1>1, <1>2, <1>3, <1>8 DEF Placed, Looping, Asking


LEMMA RequestToolsIInv ==
    ASSUME IInv, NEW a \in Attempts, RequestTools(a), UNCHANGED api
    PROVE  IInv'
<1>1. Shapes /\ phase[a] \in {"inspect", "tools"}
  BY DEF IInv, RequestTools
<1>2. PICK n \in 1..job.payload.calls :
          /\ at[a].used + 1 + n <= job.payload.calls
          /\ at' = [at EXCEPT ![a].used = at[a].used + 1, ![a].calls = n]
  BY DEF RequestTools
<1>3. /\ DOMAIN at' = Attempts /\ DOMAIN at'[a] = LoopFields
      /\ \A b \in Attempts \ {a} : at'[b] = at[b]
      /\ at'[a].pack = at[a].pack /\ at'[a].used = at[a].used + 1 /\ at'[a].calls = n
  BY <1>1, <1>2 DEF Shapes, LoopFields
<1>4. /\ job.payload.calls \in Nat /\ at[a].used \in Nat
      /\ CallSeq(a) \in Nat /\ CallSeq(a) \notin Held(a)
  BY <1>1, InspectionNumbers
<1>5. n \in Nat /\ n > 0
  BY <1>4
<1>6. Grows(a, {CallSeq(a)})
  <2>1. /\ Fits(a, One(CallSeq(a), Step("inspect", "SUCCEEDED")), NoSteps)
        /\ DOMAIN One(CallSeq(a), Step("inspect", "SUCCEEDED")) = {CallSeq(a)}
    BY <1>4, FitsOne, MarkNone
  <2> QED BY <2>1, WriteGrows DEF RequestTools
<1>7. at'[a].used + at'[a].calls <= job.payload.calls
  BY <1>2, <1>3
<1>8. Go(a, "tools") /\ UNCHANGED job
  BY DEF RequestTools
<1> QED BY <1>1, <1>3, <1>5, <1>6, <1>7, <1>8, InspectionMoves

LEMMA CallToolIInv ==
    ASSUME IInv, NEW a \in Attempts, CallTool(a), UNCHANGED api
    PROVE  IInv'
<1>1. Shapes /\ phase[a] = "tools"
  BY DEF IInv, CallTool
<1>2. PICK signature \in Signatures :
          /\ at' = [at EXCEPT ![a].used = at[a].used + 1, ![a].calls = at[a].calls - 1,
                              ![a].seen = at[a].seen \union {signature}]
          /\ \/ UNCHANGED <<steps, created>>
             \/ \E status \in Final :
                    Write(a, One(CallSeq(a), ToolStep(signature, status)), NoSteps)
  BY DEF CallTool
<1>3. /\ DOMAIN at' = Attempts /\ DOMAIN at'[a] = LoopFields
      /\ \A b \in Attempts \ {a} : at'[b] = at[b]
      /\ at'[a].pack = at[a].pack /\ at'[a].used = at[a].used + 1
      /\ at'[a].calls = at[a].calls - 1
  BY <1>1, <1>2 DEF Shapes, LoopFields
<1>4. /\ at[a].used \in Nat /\ at[a].calls \in Nat /\ at[a].calls > 0
      /\ at[a].used + at[a].calls <= job.payload.calls /\ job.payload.calls \in Nat
  BY <1>1, InspectionNumbers
<1>5. CallSeq(a) \in Nat /\ CallSeq(a) \notin Held(a)
  BY <1>1, InspectionNumbers
<1>6. PICK more : more \subseteq {CallSeq(a)} /\ Grows(a, more)
  <2>1. CASE UNCHANGED <<steps, created>>
    BY <2>1, KeepGrows
  <2>2. CASE \E status \in Final :
                 Write(a, One(CallSeq(a), ToolStep(signature, status)), NoSteps)
    <3>1. PICK status \in Final :
              Write(a, One(CallSeq(a), ToolStep(signature, status)), NoSteps)
      BY <2>2
    <3>2. /\ Fits(a, One(CallSeq(a), ToolStep(signature, status)), NoSteps)
          /\ DOMAIN One(CallSeq(a), ToolStep(signature, status)) = {CallSeq(a)}
      BY <1>5, FitsOne, MarkNone
    <3>3. Grows(a, {CallSeq(a)})
      BY <3>1, <3>2, WriteGrows
    <3> QED BY <3>3
  <2> QED BY <1>2, <2>1, <2>2
<1>7. at'[a].calls \in Nat /\ at'[a].used + at'[a].calls <= job.payload.calls
  BY <1>3, <1>4
<1>8. at[a].calls # 1 => at'[a].calls > 0
  BY <1>3, <1>4
<1>9. UNCHANGED job /\ Go(a, IF at[a].calls = 1 THEN "inspect" ELSE "tools")
  BY DEF CallTool
<1>10. CASE at[a].calls = 1
  <2>1. Go(a, "inspect")
    BY <1>9, <1>10
  <2> QED BY <1>1, <1>3, <1>6, <1>7, <1>9, <2>1, InspectionMoves
<1>11. CASE at[a].calls # 1
  <2>1. Go(a, "tools")
    BY <1>9, <1>11
  <2> QED BY <1>1, <1>3, <1>6, <1>7, <1>8, <1>9, <1>11, <2>1, InspectionMoves
<1> QED BY <1>10, <1>11

LEMMA FinishInspectionIInv ==
    ASSUME IInv, NEW a \in Attempts, FinishInspection(a), UNCHANGED api
    PROVE  IInv'
<1>1. phase[a] \in {"inspect", "tools"} /\ phase[a] \in Looping
  BY DEF FinishInspection, Looping
<1>2. /\ at[a].pack \in 0..4 /\ at[a].pack < Len(Counts)
      /\ PlanSeq(at[a].pack) \in Held(a)
      /\ CallSeq(a) \in Nat /\ CallSeq(a) \notin Held(a)
      /\ \A s \in Held(a) \cup {CallSeq(a)} : s < TurnSeq(AttemptBase(at[a].pack, 0, 0), 1, 0)
  BY <1>1, InspectionNumbers
<1>3. Grows(a, {CallSeq(a)})
  <2>1. DOMAIN Mark(a, PlanSeq(at[a].pack), "SUCCEEDED") \subseteq Held(a)
    BY <1>2, MarkHeld
  <2>2. /\ Fits(a, One(CallSeq(a), Step("inspect", "SUCCEEDED")),
                Mark(a, PlanSeq(at[a].pack), "SUCCEEDED"))
        /\ DOMAIN One(CallSeq(a), Step("inspect", "SUCCEEDED")) = {CallSeq(a)}
    BY <1>2, <2>1, FitsOne
  <2> QED BY <2>2, WriteGrows DEF FinishInspection
<1>4. ToQuestion(a, 0) /\ Go(a, "generate") /\ UNCHANGED job
  BY DEF FinishInspection
<1> QED BY <1>1, <1>2, <1>3, <1>4, FirstQuestionIInv


-----------------------------------------------------------------------------
(* The turns of a question.                                                  *)

\* What a turn has not inserted yet, place by place.
LEMMA TurnNumbers ==
    ASSUME IInv, NEW a \in Attempts
    PROVE  /\ phase[a] = "generate" =>
                  /\ Below(a, ModelSeq(a))
                  /\ ModelSeq(a) \notin Held(a) /\ ValidationSeq(a) \notin Held(a)
           /\ phase[a] = "validate" =>
                  /\ ValidationSeq(a) \in Held(a)
                  /\ EvidenceSeq(a) \notin Held(a) /\ Below(a, EvidenceSeq(a))
           /\ phase[a] = "verify" =>
                  EvidenceSeq(a) \in Held(a) /\ \A s \in Held(a) : s <= EvidenceSeq(a)
           /\ phase[a] = "dedupe" => DedupeSeq(Base(a)) \notin Held(a)
<1>1. CASE phase[a] \in Asking
  <2>1. AtTurn(a)
    BY <1>1 DEF IInv, Placed
  <2>2. /\ ModelSeq(a) \in Nat /\ ValidationSeq(a) \in Nat /\ EvidenceSeq(a) \in Nat
        /\ DedupeSeq(Base(a)) \in Nat /\ ModelSeq(a) < ValidationSeq(a)
        /\ Held(a) \subseteq Nat
    BY <1>1, QuestionNumbers
  <2> QED BY <2>1, <2>2 DEF AtTurn, Below
<1> QED BY <1>1 DEF Asking

\* A step of a turn stays at its question.
LEMMA TurnMoves ==
    ASSUME IInv, NEW a \in Attempts, phase[a] \in Asking,
           NEW more, NEW next \in Asking, Grows(a, more), Go(a, next), UNCHANGED <<job, api>>,
           DOMAIN at' = Attempts, DOMAIN at'[a] = LoopFields,
           \A b \in Attempts \ {a} : at'[b] = at[b],
           at'[a].pack = at[a].pack, at'[a].question = at[a].question,
           at'[a].dup = at[a].dup, at'[a].turn = at[a].turn,
           at'[a].repairs = at[a].repairs, at'[a].regens = at[a].regens
    PROVE  /\ phase'[a] = next /\ Held(a)' = Held(a) \cup more
           /\ Base(a)' = Base(a) /\ ModelSeq(a)' = ModelSeq(a)
           /\ ValidationSeq(a)' = ValidationSeq(a) /\ EvidenceSeq(a)' = EvidenceSeq(a)
           /\ AtTurn(a)' => IInv'
<1>1. /\ phase'[a] = next /\ Held(a)' = Held(a) \cup more
      /\ Placed(a)' => IInv'
  BY Moves
<1>2. job'.type = "generate_test" /\ Counts' = Counts /\ ValidPlan'
  BY PlanKept DEF Looping
<1>3. Base(a)' = Base(a)
  BY DEF Base
<1>4. /\ ModelSeq(a)' = ModelSeq(a)
      /\ ValidationSeq(a)' = ValidationSeq(a) /\ EvidenceSeq(a)' = EvidenceSeq(a)
  BY <1>3 DEF ModelSeq, ValidationSeq, EvidenceSeq
<1>5. AtQuestion(a) /\ GenerationSeq \in Held(a)
  BY DEF IInv, Placed, Looping
<1>6. AtQuestion(a)'
  BY <1>2, <1>5 DEF AtQuestion
<1> QED BY <1>1, <1>2, <1>3, <1>4, <1>5, <1>6 DEF Placed, Looping, Asking

LEMMA AskFailsIInv ==
    ASSUME IInv, NEW a \in Attempts, AskFails(a) \/ AskLate(a), UNCHANGED api
    PROVE  IInv'
<1>1. phase[a] = "generate" /\ phase[a] \in Asking
  BY DEF AskFails, AskLate, Asking
<1>2. CASE AskFails(a)
  <2>1. PICK status \in Final :
            QuestionFails(a, One(ModelSeq(a), Step("model", status)), NoSteps, {})
    BY <1>2 DEF AskFails
  <2>2. /\ ModelSeq(a) \in Nat /\ ModelSeq(a) \notin Held(a)
        /\ ModelSeq(a) <= DedupeSeq(Base(a))
    <3>1. /\ ModelSeq(a) \in Nat /\ ValidationSeq(a) \in Nat /\ EvidenceSeq(a) \in Nat
          /\ DedupeSeq(Base(a)) \in Nat
          /\ ModelSeq(a) < ValidationSeq(a) /\ ValidationSeq(a) < EvidenceSeq(a)
          /\ EvidenceSeq(a) < DedupeSeq(Base(a))
      BY <1>1, QuestionNumbers
    <3> QED BY <1>1, <3>1, TurnNumbers
  <2>3. /\ Fits(a, One(ModelSeq(a), Step("model", status)), NoSteps)
        /\ DOMAIN One(ModelSeq(a), Step("model", status)) = {ModelSeq(a)}
    BY <2>2, FitsOne, MarkNone
  <2> QED BY <1>1, <2>1, <2>2, <2>3, QuestionFailsIInv
<1>3. CASE AskLate(a)
  <2>1. QuestionFails(a, NoSteps, NoSteps, {})
    BY <1>3 DEF AskLate
  <2>2. Fits(a, NoSteps, NoSteps) /\ DOMAIN NoSteps = {}
    BY FitsNone, MarkNone
  <2> QED BY <1>1, <2>1, <2>2, QuestionFailsIInv
<1> QED BY <1>2, <1>3

\* A question fails while a step of its own is not written.
LEMMA TornFailsIInv ==
    ASSUME IInv, NEW a \in Attempts, phase[a] \in Asking, UNCHANGED api,
           NEW x \in Nat, x \notin Held(a), x <= DedupeSeq(Base(a)), NEW kind, NEW rows,
           NEW new \in Torn(x, kind), NEW updated, DOMAIN updated \subseteq Held(a),
           QuestionFails(a, new, updated, rows)
    PROVE  IInv'
<1>1. Fits(a, new, updated) /\ DOMAIN new \subseteq {x}
  BY FitsTorn
<1>2. \A s \in DOMAIN new : s <= DedupeSeq(Base(a))
  BY <1>1
<1> QED BY <1>1, <1>2, QuestionFailsIInv

LEMMA AskBreaksIInv ==
    ASSUME IInv, NEW a \in Attempts, AskBreaks(a), UNCHANGED api
    PROVE  IInv'
<1>1. phase[a] = "generate" /\ phase[a] \in Asking
  BY DEF AskBreaks, Asking
<1>2. /\ ModelSeq(a) \in Nat /\ ModelSeq(a) \notin Held(a)
      /\ ValidationSeq(a) \in Nat /\ ValidationSeq(a) \notin Held(a)
      /\ ModelSeq(a) <= DedupeSeq(Base(a)) /\ ValidationSeq(a) <= DedupeSeq(Base(a))
  <2>1. /\ ModelSeq(a) \in Nat /\ ValidationSeq(a) \in Nat /\ EvidenceSeq(a) \in Nat
        /\ DedupeSeq(Base(a)) \in Nat
        /\ ModelSeq(a) < ValidationSeq(a) /\ ValidationSeq(a) < EvidenceSeq(a)
        /\ EvidenceSeq(a) < DedupeSeq(Base(a))
    BY <1>1, QuestionNumbers
  <2> QED BY <1>1, <2>1, TurnNumbers
<1>3. ASSUME NEW new \in Torn(ModelSeq(a), "model"),
             QuestionFails(a, new, NoSteps, {ModelSeq(a)})
      PROVE  IInv'
  BY <1>1, <1>2, <1>3, MarkNone, TornFailsIInv
<1>4. ASSUME NEW torn1 \in Torn(ValidationSeq(a), "validate"),
             QuestionFails(a, Over(One(ModelSeq(a), Step("model", "SUCCEEDED")), torn1), NoSteps,
                           {ValidationSeq(a)})
      PROVE  IInv'
  <2> DEFINE new == Over(One(ModelSeq(a), Step("model", "SUCCEEDED")), torn1)
  <2>1. torn1 = NoSteps \/ torn1 = One(ValidationSeq(a), Step("validate", "RUNNING"))
    BY DEF Torn
  <2>2. IsFiniteSet(DOMAIN new) /\ DOMAIN new \subseteq {ModelSeq(a), ValidationSeq(a)}
    <3>1. CASE torn1 = One(ValidationSeq(a), Step("validate", "RUNNING"))
      BY <1>2, <3>1, FewSteps
    <3>2. CASE torn1 = NoSteps
      <4>1. DOMAIN new = {ModelSeq(a)}
        BY <3>2 DEF Over, One, NoSteps
      <4> QED BY <4>1, FS_Singleton
    <3> QED BY <2>1, <3>1, <3>2
  <2> HIDE DEF new
  <2>3. Fits(a, new, NoSteps) /\ \A s \in DOMAIN new : s <= DedupeSeq(Base(a))
    BY <1>2, <2>2, MarkNone DEF Fits
  <2>4. QuestionFails(a, new, NoSteps, {ValidationSeq(a)})
    BY <1>4 DEF new
  <2> QED BY <1>1, <2>3, <2>4, QuestionFailsIInv
<1> QED BY <1>3, <1>4 DEF AskBreaks

LEMMA AskModelIInv ==
    ASSUME IInv, NEW a \in Attempts, AskModel(a), UNCHANGED api
    PROVE  IInv'
<1>1. phase[a] = "generate" /\ phase[a] \in Asking /\ Shapes
  BY DEF AskModel, Asking, IInv
<1>2. /\ ModelSeq(a) \in Nat /\ ValidationSeq(a) \in Nat /\ EvidenceSeq(a) \in Nat
      /\ ModelSeq(a) < ValidationSeq(a) /\ ValidationSeq(a) < EvidenceSeq(a)
      /\ Held(a) \subseteq Nat
  BY <1>1, QuestionNumbers
<1>3. /\ Below(a, ModelSeq(a))
      /\ ModelSeq(a) \notin Held(a) /\ ValidationSeq(a) \notin Held(a)
  BY <1>1, TurnNumbers
<1> DEFINE new == Over(One(ModelSeq(a), Step("model", "SUCCEEDED")),
                       One(ValidationSeq(a), Step("validate", "RUNNING")))
<1>4. IsFiniteSet(DOMAIN new) /\ DOMAIN new = {ModelSeq(a), ValidationSeq(a)}
  BY <1>2, FewSteps
<1>5. Write(a, new, NoSteps) /\ Go(a, "validate") /\ UNCHANGED <<job, at>>
  BY DEF AskModel
<1> HIDE DEF new
<1>6. Fits(a, new, NoSteps)
  BY <1>2, <1>3, <1>4, MarkNone DEF Fits
<1>7. Grows(a, {ModelSeq(a), ValidationSeq(a)})
  BY <1>4, <1>5, <1>6, WriteGrows
<1>8. "validate" \in Asking
  BY DEF Asking
<1>9. /\ phase'[a] = "validate" /\ Held(a)' = Held(a) \cup {ModelSeq(a), ValidationSeq(a)}
      /\ ValidationSeq(a)' = ValidationSeq(a) /\ EvidenceSeq(a)' = EvidenceSeq(a)
      /\ AtTurn(a)' => IInv'
  BY <1>1, <1>5, <1>7, <1>8, TurnMoves DEF Shapes
<1>10. \A s \in Held(a) \cup {ModelSeq(a), ValidationSeq(a)} : s < EvidenceSeq(a)
  BY <1>2, <1>3 DEF Below
<1>11. AtTurn(a)'
  BY <1>9, <1>10 DEF AtTurn, Below
<1> QED BY <1>9, <1>11

LEMMA ValidOutputIInv ==
    ASSUME IInv, NEW a \in Attempts, ValidOutput(a), UNCHANGED api
    PROVE  IInv'
<1>1. phase[a] = "validate" /\ phase[a] \in Asking /\ Shapes /\ "verify" \in Asking
  BY DEF ValidOutput, Asking, IInv
<1>2. EvidenceSeq(a) \in Nat /\ Held(a) \subseteq Nat
  BY <1>1, QuestionNumbers
<1>3. /\ ValidationSeq(a) \in Held(a)
      /\ EvidenceSeq(a) \notin Held(a) /\ Below(a, EvidenceSeq(a))
  BY <1>1, TurnNumbers
<1>4. Grows(a, {EvidenceSeq(a)})
  <2>1. DOMAIN Mark(a, ValidationSeq(a), "SUCCEEDED") \subseteq Held(a)
    BY <1>3, MarkHeld
  <2>2. /\ Fits(a, One(EvidenceSeq(a), Step("evidence", "RUNNING")),
                Mark(a, ValidationSeq(a), "SUCCEEDED"))
        /\ DOMAIN One(EvidenceSeq(a), Step("evidence", "RUNNING")) = {EvidenceSeq(a)}
    BY <1>2, <1>3, <2>1, FitsOne
  <2> QED BY <2>2, WriteGrows DEF ValidOutput
<1>5. Go(a, "verify") /\ UNCHANGED <<job, at>>
  BY DEF ValidOutput
<1>6. /\ phase'[a] = "verify" /\ Held(a)' = Held(a) \cup {EvidenceSeq(a)}
      /\ EvidenceSeq(a)' = EvidenceSeq(a)
      /\ AtTurn(a)' => IInv'
  BY <1>1, <1>4, <1>5, TurnMoves DEF Shapes
<1>7. \A s \in Held(a) \cup {EvidenceSeq(a)} : s < EvidenceSeq(a) + 1
  BY <1>2, <1>3 DEF Below
<1>8. AtTurn(a)'
  BY <1>6, <1>7 DEF AtTurn, Below
<1> QED BY <1>6, <1>8

LEMMA ValidEvidenceIInv ==
    ASSUME IInv, NEW a \in Attempts, ValidEvidence(a), UNCHANGED api
    PROVE  IInv'
<1>1. phase[a] = "verify" /\ phase[a] \in Asking /\ Shapes /\ "dedupe" \in Asking
  BY DEF ValidEvidence, Asking, IInv
<1>2. EvidenceSeq(a) \in Held(a) /\ Below(a, DedupeSeq(Base(a)))
  BY <1>1, TurnNumbers, QuestionNumbers
<1>3. Grows(a, {})
  <2>1. DOMAIN Mark(a, EvidenceSeq(a), "SUCCEEDED") \subseteq Held(a)
    BY <1>2, MarkHeld
  <2>2. Fits(a, NoSteps, Mark(a, EvidenceSeq(a), "SUCCEEDED")) /\ DOMAIN NoSteps = {}
    BY <2>1, FitsNone
  <2> QED BY <2>2, WriteGrows DEF ValidEvidence
<1>4. PICK question \in Questions : at' = [at EXCEPT ![a].draft = question]
  BY DEF ValidEvidence
<1>5. /\ DOMAIN at' = Attempts /\ DOMAIN at'[a] = LoopFields
      /\ \A b \in Attempts \ {a} : at'[b] = at[b]
      /\ at'[a].pack = at[a].pack /\ at'[a].question = at[a].question
      /\ at'[a].dup = at[a].dup /\ at'[a].turn = at[a].turn
      /\ at'[a].repairs = at[a].repairs /\ at'[a].regens = at[a].regens
  BY <1>1, <1>4 DEF Shapes, LoopFields
<1>6. Go(a, "dedupe") /\ UNCHANGED job
  BY DEF ValidEvidence
<1>7. /\ phase'[a] = "dedupe" /\ Held(a)' = Held(a) /\ Base(a)' = Base(a)
      /\ AtTurn(a)' => IInv'
  BY <1>1, <1>3, <1>5, <1>6, TurnMoves
<1>8. AtTurn(a)'
  BY <1>2, <1>7 DEF AtTurn, Below
<1> QED BY <1>7, <1>8


\* Another turn: a repair or a regeneration more.
LEMMA AskAgainIInv ==
    ASSUME IInv, NEW a \in Attempts, phase[a] \in {"validate", "verify"},
           NEW updated, DOMAIN updated \subseteq Held(a), NEW r, NEW g,
           \/ /\ r = at[a].repairs + 1 /\ g = at[a].regens
              /\ at[a].repairs < job.payload.repairs
           \/ /\ r = at[a].repairs /\ g = at[a].regens + 1
              /\ at[a].regens < job.payload.regens,
           AskAgain(a, updated, r, g), UNCHANGED api
    PROVE  IInv'
<1>1. phase[a] \in Asking /\ Shapes /\ GenerationSeq \in Held(a) /\ AtQuestion(a)
  BY DEF Asking, IInv, Placed, Looping
<1>2. at' = [at EXCEPT ![a].turn = at[a].turn + 1, ![a].repairs = r, ![a].regens = g]
  BY DEF AskAgain
<1>3. /\ DOMAIN at' = Attempts /\ DOMAIN at'[a] = LoopFields
      /\ \A b \in Attempts \ {a} : at'[b] = at[b]
      /\ at'[a].pack = at[a].pack /\ at'[a].question = at[a].question
      /\ at'[a].dup = at[a].dup /\ at'[a].turn = at[a].turn + 1
      /\ at'[a].repairs = r /\ at'[a].regens = g
  BY <1>1, <1>2 DEF Shapes, LoopFields
<1>4. Grows(a, {})
  <2>1. Fits(a, NoSteps, updated) /\ DOMAIN NoSteps = {}
    BY FitsNone
  <2> QED BY <2>1, WriteGrows DEF AskAgain
<1>5. /\ phase'[a] = "generate" /\ Held(a)' = Held(a)
      /\ Placed(a)' => IInv'
  <2>1. Go(a, "generate") /\ UNCHANGED job
    BY DEF AskAgain
  <2>2. /\ phase'[a] = "generate" /\ Held(a)' = Held(a) \cup {}
        /\ Placed(a)' => IInv'
    BY <1>3, <1>4, <2>1, Moves
  <2> QED BY <2>2
<1>6. job'.type = "generate_test" /\ Counts' = Counts /\ ValidPlan' /\ UNCHANGED job
  BY <1>1, PlanKept DEF Looping, AskAgain
<1>7. AtQuestion(a)'
  <2>1. job.payload.repairs \in Nat /\ job.payload.regens \in Nat
    BY <1>1, PlanBounds DEF Looping
  <2>2. /\ at[a].repairs \in 0..job.payload.repairs
        /\ at[a].regens \in 0..job.payload.regens
        /\ at[a].turn = 1 + at[a].repairs + at[a].regens
    BY <1>1 DEF AtQuestion
  <2>3. r \in 0..job.payload.repairs /\ g \in 0..job.payload.regens
    BY <2>1, <2>2
  <2>4. at'[a].turn = 1 + r + g
    BY <1>3, <2>1, <2>2
  <2>5. /\ at'[a].repairs \in 0..job'.payload.repairs
        /\ at'[a].regens \in 0..job'.payload.regens
        /\ at'[a].turn = 1 + at'[a].repairs + at'[a].regens
    BY <1>3, <1>6, <2>3, <2>4
  <2> QED BY <1>1, <1>3, <1>6, <2>5 DEF AtQuestion
<1>8. /\ at[a].turn \in 1..8 /\ Base(a) \in Nat /\ Held(a) \subseteq Nat
      /\ EvidenceSeq(a) \in Nat
  BY <1>1, QuestionNumbers
<1>9. ModelSeq(a)' = TurnSeq(Base(a), at[a].turn + 1, 0)
  BY <1>3 DEF ModelSeq, Base
<1>10. \A s \in Held(a) : s < TurnSeq(Base(a), at[a].turn + 1, 0)
  <2>1. \A s \in Held(a) : s \in Nat /\ s <= TurnSeq(Base(a), at[a].turn, 2)
    BY <1>8, TurnNumbers DEF Below, EvidenceSeq
  <2>2. \A base \in Nat, turn \in 1..8, s \in Nat :
            s <= TurnSeq(base, turn, 2) => s < TurnSeq(base, turn + 1, 0)
    BY NextTurn
  <2> QED BY <1>8, <2>1, <2>2
<1>11. AtTurn(a)'
  BY <1>5, <1>9, <1>10 DEF AtTurn, Below
<1> QED BY <1>1, <1>5, <1>6, <1>7, <1>11 DEF Placed, Looping, Asking

\* A question fails while only a step that is there is finished, or none.
LEMMA NoStepFailsIInv ==
    ASSUME IInv, NEW a \in Attempts, phase[a] \in Asking,
           NEW updated, DOMAIN updated \subseteq Held(a),
           NEW rows, QuestionFails(a, NoSteps, updated, rows), UNCHANGED api
    PROVE  IInv'
<1>1. Fits(a, NoSteps, updated) /\ DOMAIN NoSteps = {}
  BY FitsNone
<1>2. \A s \in DOMAIN NoSteps : s <= DedupeSeq(Base(a))
  BY <1>1
<1> QED BY <1>1, <1>2, QuestionFailsIInv

LEMMA InvalidOutputIInv ==
    ASSUME IInv, NEW a \in Attempts, InvalidOutput(a) \/ ValidationBreaks(a), UNCHANGED api
    PROVE  IInv'
<1>1. phase[a] = "validate" /\ phase[a] \in Asking
  BY DEF InvalidOutput, ValidationBreaks, Asking
<1>2. ASSUME NEW status PROVE DOMAIN Mark(a, ValidationSeq(a), status) \subseteq Held(a)
  BY <1>1, TurnNumbers, MarkHeld
<1>3. ASSUME NEW rows, QuestionFails(a, NoSteps, Mark(a, ValidationSeq(a), "FAILED"), rows)
      PROVE  IInv'
  <2>1. DOMAIN Mark(a, ValidationSeq(a), "FAILED") \subseteq Held(a)
    BY <1>2
  <2> QED BY <1>1, <1>3, <2>1, NoStepFailsIInv
<1>4. ASSUME NEW rows, QuestionFails(a, NoSteps, NoSteps, rows) PROVE IInv'
  BY <1>1, <1>4, MarkNone, NoStepFailsIInv
<1>5. CASE /\ at[a].repairs < job.payload.repairs
           /\ AskAgain(a, Mark(a, ValidationSeq(a), "FAILED"), at[a].repairs + 1, at[a].regens)
  <2>1. DOMAIN Mark(a, ValidationSeq(a), "FAILED") \subseteq Held(a)
    BY <1>2
  <2> QED BY <1>1, <1>5, <2>1, AskAgainIInv
<1>6. ASSUME NEW new \in Torn(EvidenceSeq(a), "evidence"),
             QuestionFails(a, new, Mark(a, ValidationSeq(a), "SUCCEEDED"), {EvidenceSeq(a)})
      PROVE  IInv'
  <2>1. DOMAIN Mark(a, ValidationSeq(a), "SUCCEEDED") \subseteq Held(a)
    BY <1>2
  <2>2. EvidenceSeq(a) \in Nat /\ EvidenceSeq(a) \notin Held(a)
    BY <1>1, QuestionNumbers, TurnNumbers
  <2>3. EvidenceSeq(a) <= DedupeSeq(Base(a))
    <3>1. /\ EvidenceSeq(a) \in Nat /\ DedupeSeq(Base(a)) \in Nat
          /\ EvidenceSeq(a) < DedupeSeq(Base(a))
      BY <1>1, QuestionNumbers
    <3> QED BY <3>1
  <2> QED BY <1>1, <1>6, <2>1, <2>2, <2>3, TornFailsIInv
<1> QED BY <1>3, <1>4, <1>5, <1>6 DEF InvalidOutput, ValidationBreaks

LEMMA InvalidEvidenceIInv ==
    ASSUME IInv, NEW a \in Attempts, InvalidEvidence(a) \/ EvidenceBreaks(a), UNCHANGED api
    PROVE  IInv'
<1>1. phase[a] = "verify" /\ phase[a] \in Asking
  BY DEF InvalidEvidence, EvidenceBreaks, Asking
<1>2. DOMAIN Mark(a, EvidenceSeq(a), "FAILED") \subseteq Held(a)
  BY <1>1, TurnNumbers, MarkHeld
<1>3. CASE QuestionFails(a, NoSteps, Mark(a, EvidenceSeq(a), "FAILED"), {})
  BY <1>1, <1>2, <1>3, NoStepFailsIInv
<1>4. CASE QuestionFails(a, NoSteps, NoSteps, {EvidenceSeq(a)})
  BY <1>1, <1>4, MarkNone, NoStepFailsIInv
<1>5. CASE /\ at[a].regens < job.payload.regens
           /\ AskAgain(a, Mark(a, EvidenceSeq(a), "FAILED"), at[a].repairs, at[a].regens + 1)
  BY <1>1, <1>2, <1>5, AskAgainIInv
<1> QED BY <1>3, <1>4, <1>5 DEF InvalidEvidence, EvidenceBreaks

LEMMA AcceptQuestionIInv ==
    ASSUME IInv, NEW a \in Attempts, AcceptQuestion(a) \/ ArtifactFails(a), UNCHANGED api
    PROVE  IInv'
<1>1. phase[a] \in Asking
  BY DEF AcceptQuestion, ArtifactFails, Asking
<1>2. CASE AcceptQuestion(a)
  <2>1. Advance(a) /\ UNCHANGED <<job, steps, created>>
    BY <1>2 DEF AcceptQuestion
  <2>2. Grows(a, {})
    BY <2>1, KeepGrows
  <2> QED BY <1>1, <2>1, <2>2, AdvanceIInv
<1>3. CASE ArtifactFails(a)
  BY <1>1, <1>3, MarkNone, NoStepFailsIInv DEF ArtifactFails
<1> QED BY <1>2, <1>3

LEMMA RejectDuplicateIInv ==
    ASSUME IInv, NEW a \in Attempts, RejectDuplicate(a), UNCHANGED api
    PROVE  IInv'
<1>1. phase[a] = "dedupe" /\ phase[a] \in Asking
  BY DEF RejectDuplicate, Asking
<1>2. /\ at[a].pack \in 0..4 /\ at[a].question \in 0..4 /\ at[a].dup \in 0..2
      /\ Base(a) = AttemptBase(at[a].pack, at[a].question, at[a].dup)
      /\ DedupeSeq(Base(a)) \in Nat
      /\ GenerationSeq \in Held(a) /\ Held(a) \subseteq Nat /\ Below(a, DedupeSeq(Base(a)))
  BY <1>1, QuestionNumbers
<1> DEFINE rejected == One(DedupeSeq(Base(a)), DuplicateStep)
<1>3. Fits(a, rejected, NoSteps) /\ DOMAIN rejected = {DedupeSeq(Base(a))}
  BY <1>1, <1>2, TurnNumbers, FitsOne, MarkNone
<1>4. \/ QuestionFails(a, rejected, NoSteps, {})
      \/ /\ at[a].dup < MaxDuplicates
         /\ Write(a, rejected, NoSteps)
         /\ at' = [at EXCEPT ![a].dup = at[a].dup + 1, ![a].turn = 1, ![a].repairs = 0,
                             ![a].regens = 0, ![a].retried = at[a].retried \union {at[a].draft}]
         /\ Go(a, "generate") /\ UNCHANGED job
  BY DEF RejectDuplicate
<1> HIDE DEF rejected
<1>5. CASE QuestionFails(a, rejected, NoSteps, {})
  BY <1>1, <1>2, <1>3, <1>5, QuestionFailsIInv
<1>6. CASE /\ at[a].dup < MaxDuplicates
           /\ Write(a, rejected, NoSteps)
           /\ at' = [at EXCEPT ![a].dup = at[a].dup + 1, ![a].turn = 1, ![a].repairs = 0,
                               ![a].regens = 0, ![a].retried = at[a].retried \union {at[a].draft}]
           /\ Go(a, "generate") /\ UNCHANGED job
  <2>1. Shapes /\ AtQuestion(a) /\ Grows(a, {DedupeSeq(Base(a))})
    BY <1>1, <1>3, <1>6, WriteGrows DEF IInv, Placed
  <2>2. /\ DOMAIN at' = Attempts /\ DOMAIN at'[a] = LoopFields
        /\ \A b \in Attempts \ {a} : at'[b] = at[b]
        /\ at'[a].pack = at[a].pack /\ at'[a].question = at[a].question
        /\ at'[a].dup = at[a].dup + 1 /\ at'[a].turn = 1
        /\ at'[a].repairs = 0 /\ at'[a].regens = 0
    BY <1>6, <2>1 DEF Shapes, LoopFields
  <2>3. /\ phase'[a] = "generate" /\ Held(a)' = Held(a) \cup {DedupeSeq(Base(a))}
        /\ Placed(a)' => IInv'
    BY <1>6, <2>1, <2>2, Moves
  <2>4. job'.type = "generate_test" /\ Counts' = Counts /\ ValidPlan'
    BY <1>1, <1>6, PlanKept DEF Looping
  <2>5. AtQuestion(a)'
    <3>1. at'[a].dup \in 0..MaxDuplicates
      BY <1>2, <1>6, <2>2, BoundAssumption
    <3>2. /\ at'[a].pack \in Nat /\ at'[a].pack < Len(Counts')
          /\ at'[a].question \in Nat /\ at'[a].question < Counts'[at'[a].pack + 1]
      BY <2>1, <2>2, <2>4 DEF AtQuestion
    <3> QED BY <1>1, <1>6, <2>2, <3>1, <3>2, FirstTurn DEF Looping
  <2>6. ModelSeq(a)' = TurnSeq(AttemptBase(at[a].pack, at[a].question, at[a].dup + 1), 1, 0)
    BY <2>2 DEF ModelSeq, Base
  <2>7. \A s \in Held(a) \cup {DedupeSeq(Base(a))} :
            s < TurnSeq(AttemptBase(at[a].pack, at[a].question, at[a].dup + 1), 1, 0)
    <3>1. \A s \in Held(a) \cup {DedupeSeq(Base(a))} :
              s \in Nat /\ s <= DedupeSeq(AttemptBase(at[a].pack, at[a].question, at[a].dup))
      BY <1>2 DEF Below
    <3>2. \A p \in Nat, q \in 0..4, d \in 0..2, s \in Nat :
              s <= DedupeSeq(AttemptBase(p, q, d)) =>
                  s < TurnSeq(AttemptBase(p, q, d + 1), 1, 0)
      BY AttemptOrder
    <3>3. at[a].pack \in Nat
      BY <1>2
    <3> QED BY <1>2, <3>1, <3>2, <3>3
  <2>8. AtTurn(a)'
    BY <2>3, <2>6, <2>7 DEF AtTurn, Below
  <2> QED BY <1>2, <2>3, <2>4, <2>5, <2>8 DEF Placed, Looping, Asking
<1> QED BY <1>4, <1>5, <1>6

LEMMA RejectBreaksIInv ==
    ASSUME IInv, NEW a \in Attempts, RejectBreaks(a), UNCHANGED api
    PROVE  IInv'
<1>1. phase[a] = "dedupe" /\ phase[a] \in Asking
  BY DEF RejectBreaks, Asking
<1>2. DedupeSeq(Base(a)) \in Nat /\ DedupeSeq(Base(a)) \notin Held(a)
  BY <1>1, QuestionNumbers, TurnNumbers
<1>3. DedupeSeq(Base(a)) <= DedupeSeq(Base(a))
  BY <1>2
<1> QED BY <1>1, <1>2, <1>3, MarkNone, TornFailsIInv DEF RejectBreaks

-----------------------------------------------------------------------------
(* The insertion, and judging.                                               *)

LEMMA InsertIInv ==
    ASSUME IInv, NEW a \in Attempts, job.type = "generate_test", UNCHANGED api,
           InsertTests(a) \/ InsertFails(a) \/ FinishRun(a) \/ FinishBreaks(a)
    PROVE  IInv'
<1>1. Shapes
  BY DEF IInv
<1>2. PersistSeq \in Held(a)
  BY DEF IInv, Placed, InsertTests, InsertFails, FinishRun, FinishBreaks
<1>3. ASSUME NEW status PROVE Fits(a, NoSteps, Mark(a, PersistSeq, status))
  BY <1>2, MarkHeld, FitsNone
<1>4. CASE InsertTests(a)
  <2>1. UNCHANGED <<job, steps, created, at>> /\ Go(a, "inserted")
    BY <1>4 DEF InsertTests
  <2>2. Grows(a, {})
    BY <2>1, KeepGrows
  <2>3. /\ phase'[a] = "inserted" /\ Held(a)' = Held(a) \cup {}
        /\ Placed(a)' => IInv'
    BY <1>1, <2>1, <2>2, Moves DEF Shapes
  <2>4. PersistSeq \in Held(a)' /\ job'.type = "generate_test"
    BY <1>2, <2>1, <2>3
  <2> QED BY <2>3, <2>4 DEF Placed, Looping, Asking
<1>5. CASE InsertFails(a)
  <2>1. DOMAIN Mark(a, PersistSeq, "FAILED") \subseteq Held(a) /\ Fits(a, NoSteps, NoSteps)
    BY <1>2, MarkHeld, MarkNone, FitsNone
  <2> QED BY <1>5, <2>1, FailIInv DEF InsertFails, genVars
<1>6. CASE FinishRun(a)
  <2>1. Fits(a, NoSteps, Mark(a, PersistSeq, "SUCCEEDED"))
    BY <1>3
  <2>2. /\ Write(a, NoSteps, Mark(a, PersistSeq, "SUCCEEDED"))
        /\ Go(a, "report") /\ UNCHANGED <<job, at>>
    BY <1>6 DEF FinishRun
  <2>3. Grows(a, DOMAIN NoSteps)
    BY <2>1, <2>2, WriteGrows
  <2>4. phase'[a] = "report" /\ (Placed(a)' => IInv')
    BY <1>1, <2>2, <2>3, Moves DEF Shapes
  <2> QED BY <2>4 DEF Placed, Looping, Asking
<1>7. CASE FinishBreaks(a)
  <2>1. Fits(a, NoSteps, NoSteps) /\ Fits(a, NoSteps, Mark(a, PersistSeq, "SUCCEEDED"))
    BY <1>3, MarkNone, FitsNone
  <2> QED BY <1>7, <2>1, LeaveIInv DEF FinishBreaks, genVars
<1> QED BY <1>4, <1>5, <1>6, <1>7

LEMMA StutterIInv ==
    ASSUME IInv, UNCHANGED <<job, phase, steps, created, at, api>>
    PROVE  IInv'
<1>1. \A b \in Attempts : Counted(b)' /\ Placed(b)'
  BY OthersKeep DEF Same
<1> QED BY <1>1 DEF IInv, Shapes, PlanKnown

LEMMA StartJudgingIInv ==
    ASSUME IInv, NEW a \in Attempts, job.type = "judge_answer", StartJudging(a), UNCHANGED at
    PROVE  IInv'
<1>1. Shapes /\ Held(a) = {} /\ JudgeSeq \in Nat /\ JudgeSeq \notin Held(a)
  BY DEF IInv, Placed, StartJudging, JudgeSeq
<1>2. /\ Fits(a, One(JudgeSeq, NewJudgeStep), NoSteps)
      /\ DOMAIN One(JudgeSeq, NewJudgeStep) = {JudgeSeq}
  BY <1>1, FitsOne, MarkNone
<1>3. Go(a, "judge") /\ UNCHANGED <<job, api>>
  BY DEF StartJudging, judgeVars
<1>4. Grows(a, {JudgeSeq})
  BY <1>2, WriteGrows DEF StartJudging
<1>5. /\ phase'[a] = "judge" /\ Held(a)' = Held(a) \cup {JudgeSeq}
      /\ Placed(a)' => IInv'
  BY <1>1, <1>3, <1>4, Moves DEF Shapes
<1>6. Held(a)' = {JudgeSeq} /\ job'.type = "judge_answer"
  BY <1>1, <1>3, <1>5
<1> QED BY <1>5, <1>6 DEF Placed, Looping, Asking

LEMMA StartJudgingBreaksIInv ==
    ASSUME IInv, NEW a \in Attempts, StartJudgingBreaks(a), UNCHANGED at
    PROVE  IInv'
<1>1. JudgeSeq \in Nat /\ JudgeSeq \notin Held(a) /\ UNCHANGED api
  BY DEF IInv, Placed, StartJudgingBreaks, JudgeSeq, judgeVars
<1>2. CASE LeaveRunning(a, NoSteps, NoSteps, {})
  BY <1>1, <1>2, FitsNone, MarkNone, LeaveIInv
<1>3. ASSUME NEW new \in Torn(JudgeSeq, "judge"),
             EndInFailure(a, new, NoSteps, NoSteps, {JudgeSeq})
      PROVE  IInv'
  <2>1. Fits(a, new, NoSteps)
    BY <1>1, FitsTorn, MarkNone
  <2> QED BY <1>1, <1>3, <2>1, MarkNone, FailIInv
<1> QED BY <1>2, <1>3 DEF StartJudgingBreaks

\* The handler of a judging closes a step that is there.
LEMMA JudgingFailsIInv ==
    ASSUME IInv, NEW a \in Attempts, UNCHANGED at, NEW x \in Held(a), NEW rows,
           JudgingFails(a, Mark(a, x, "FAILED"), rows)
    PROVE  IInv'
<1>1. DOMAIN Mark(a, x, "FAILED") \subseteq Held(a) /\ Fits(a, NoSteps, NoSteps)
  BY MarkHeld, MarkNone, FitsNone
<1> QED BY <1>1, FailIInv DEF JudgingFails, judgeVars

LEMMA JudgementIInv ==
    ASSUME IInv, NEW a \in Attempts, UNCHANGED at,
           JudgingBreaks(a) \/ InvalidJudgement(a) \/ ValidJudgement(a) \/ SaveStepBreaks(a)
    PROVE  IInv'
<1>1. phase[a] = "judge"
  BY DEF JudgingBreaks, InvalidJudgement, ValidJudgement, SaveStepBreaks
<1>2. /\ Shapes /\ Held(a) = {JudgeSeq} /\ JudgeSeq \in Held(a) /\ job.type = "judge_answer"
      /\ SaveSeq \in Nat /\ SaveSeq \notin Held(a)
  BY <1>1 DEF IInv, Placed, JudgeSeq, SaveSeq
<1>3. ASSUME NEW status PROVE DOMAIN Mark(a, JudgeSeq, status) \subseteq Held(a)
  BY <1>2, MarkHeld
<1>4. CASE JudgingFails(a, Mark(a, JudgeSeq, "FAILED"), {})
  BY <1>2, <1>4, JudgingFailsIInv
<1>5. CASE UNCHANGED <<jobVars, api>>
  BY <1>5, StutterIInv DEF jobVars
<1>6. CASE ValidJudgement(a)
  <2>1. DOMAIN Mark(a, JudgeSeq, "SUCCEEDED") \subseteq Held(a)
    BY <1>3
  <2>2. /\ Fits(a, One(SaveSeq, NewSaveStep), Mark(a, JudgeSeq, "SUCCEEDED"))
        /\ DOMAIN One(SaveSeq, NewSaveStep) = {SaveSeq}
    BY <1>2, <2>1, FitsOne
  <2>3. Go(a, "judged") /\ UNCHANGED <<job, api>>
    BY <1>6 DEF ValidJudgement
  <2>4. Grows(a, {SaveSeq})
    BY <1>6, <2>2, WriteGrows DEF ValidJudgement
  <2>5. /\ phase'[a] = "judged" /\ Held(a)' = Held(a) \cup {SaveSeq}
        /\ Placed(a)' => IInv'
    BY <1>2, <2>3, <2>4, Moves DEF Shapes
  <2>6. SaveSeq \in Held(a)' /\ job'.type = "judge_answer"
    BY <1>2, <2>3, <2>5
  <2> QED BY <2>5, <2>6 DEF Placed, Looping, Asking
<1>7. ASSUME NEW new \in Torn(SaveSeq, "persist"), UNCHANGED judgeVars,
             EndInFailure(a, new, Mark(a, JudgeSeq, "SUCCEEDED"), NoSteps, {SaveSeq})
      PROVE  IInv'
  <2>1. DOMAIN Mark(a, JudgeSeq, "SUCCEEDED") \subseteq Held(a)
    BY <1>3
  <2>2. Fits(a, new, Mark(a, JudgeSeq, "SUCCEEDED"))
    BY <1>2, <2>1, FitsTorn
  <2> QED BY <1>7, <2>2, MarkNone, FailIInv DEF judgeVars
<1> QED BY <1>4, <1>5, <1>6, <1>7 DEF JudgingBreaks, InvalidJudgement, SaveStepBreaks

LEMMA ResultIInv ==
    ASSUME IInv, NEW a \in Attempts, job.type = "judge_answer", UNCHANGED at,
           \/ InsertResult(a) \/ ResultFails(a) \/ SaveLearning(a) \/ LearningFails(a)
           \/ FinishSaving(a) \/ SavingBreaks(a)
    PROVE  IInv'
<1>1. Shapes /\ SaveSeq \in Held(a)
  BY DEF IInv, Placed, InsertResult, ResultFails, SaveLearning, LearningFails,
         FinishSaving, SavingBreaks
<1>2. ASSUME NEW status PROVE Fits(a, NoSteps, Mark(a, SaveSeq, status))
  BY <1>1, MarkHeld, FitsNone
<1>3. CASE InsertResult(a)
  <2>1. UNCHANGED <<job, steps, created, api>> /\ Go(a, "inserted")
    BY <1>3 DEF InsertResult
  <2>2. Grows(a, {})
    BY <2>1, KeepGrows
  <2>3. /\ phase'[a] = "inserted" /\ Held(a)' = Held(a) \cup {}
        /\ Placed(a)' => IInv'
    BY <1>1, <2>1, <2>2, Moves DEF Shapes
  <2>4. SaveSeq \in Held(a)' /\ job'.type = "judge_answer"
    BY <1>1, <2>1, <2>3
  <2> QED BY <2>3, <2>4 DEF Placed, Looping, Asking
<1>4. CASE ResultFails(a) \/ LearningFails(a) \/ SavingBreaks(a)
  BY <1>1, <1>4, JudgingFailsIInv DEF ResultFails, LearningFails, SavingBreaks
<1>5. CASE SaveLearning(a)
  <2>1. UNCHANGED <<job, steps, created, api>> /\ Go(a, "learned")
    BY <1>5 DEF SaveLearning
  <2>2. Grows(a, {})
    BY <2>1, KeepGrows
  <2>3. /\ phase'[a] = "learned" /\ Held(a)' = Held(a) \cup {}
        /\ Placed(a)' => IInv'
    BY <1>1, <2>1, <2>2, Moves DEF Shapes
  <2>4. SaveSeq \in Held(a)' /\ job'.type = "judge_answer"
    BY <1>1, <2>1, <2>3
  <2> QED BY <2>3, <2>4 DEF Placed, Looping, Asking
<1>6. CASE FinishSaving(a)
  <2>1. Fits(a, NoSteps, Mark(a, SaveSeq, "SUCCEEDED"))
    BY <1>2
  <2>2. /\ Write(a, NoSteps, Mark(a, SaveSeq, "SUCCEEDED"))
        /\ Go(a, "saved") /\ UNCHANGED <<job, api>>
    BY <1>6 DEF FinishSaving, judgeVars
  <2>3. Grows(a, DOMAIN NoSteps)
    BY <2>1, <2>2, WriteGrows
  <2>4. phase'[a] = "saved" /\ (Placed(a)' => IInv')
    BY <1>1, <2>2, <2>3, Moves DEF Shapes
  <2> QED BY <2>4 DEF Placed, Looping, Asking
<1> QED BY <1>3, <1>4, <1>5, <1>6

LEMMA FinishJudgingIInv ==
    ASSUME IInv, NEW a \in Attempts, FinishJudging(a), UNCHANGED at
    PROVE  IInv'
<1>1. Shapes /\ UNCHANGED <<job, steps, created, api>> /\ Go(a, "report")
  BY DEF IInv, FinishJudging, judgeVars
<1>2. Grows(a, {})
  BY <1>1, KeepGrows
<1>3. phase'[a] = "report" /\ (Placed(a)' => IInv')
  BY <1>1, <1>2, Moves DEF Shapes
<1> QED BY <1>3 DEF Placed, Looping, Asking

LEMMA FinishJudgingBreaksIInv ==
    ASSUME IInv, NEW a \in Attempts, FinishJudgingBreaks(a), UNCHANGED at
    PROVE  IInv'
    BY FitsNone, MarkNone, LeaveIInv DEF FinishJudgingBreaks, judgeVars

-----------------------------------------------------------------------------
(* The invariant.                                                            *)

LEMMA InitIInv == Init => IInv
<1> SUFFICES ASSUME Init PROVE IInv
  OBVIOUS
<1>1. /\ phase = [a \in Attempts |-> "idle"] /\ steps = [a \in Attempts |-> NoSteps]
      /\ created = [a \in Attempts |-> 0] /\ at = [a \in Attempts |-> Fresh] /\ api = "idle"
  BY DEF Init, GenInit, JudgeInit, JobInit, NoJudging, NoGeneration
<1>2. /\ DOMAIN job = JobFields
      /\ job.type = "generate_test" => job.payload \in Plans
  BY DEF Init, GenInit, JudgeInit, JobInit, JobFields
<1>3. DOMAIN Fresh = LoopFields /\ Fresh.pack = 0
  BY DEF Fresh, LoopFields
<1>4. Shapes /\ PlanKnown
  BY <1>1, <1>2, <1>3 DEF Shapes, PlanKnown
<1>5. ASSUME NEW a \in Attempts PROVE Counted(a) /\ Placed(a)
  <2>1. Held(a) = {}
    BY <1>1 DEF Held, NoSteps
  <2>2. Cardinality({}) = 0 /\ IsFiniteSet({})
    BY FS_EmptySet
  <2>3. Counted(a)
    BY <1>1, <2>1, <2>2 DEF Counted
  <2>4. phase[a] = "idle" /\ at[a].pack = 0
    BY <1>1, <1>3
  <2> QED BY <2>1, <2>3, <2>4 DEF Placed, Looping, Asking
<1> QED BY <1>4, <1>5 DEF IInv

LEMMA GenStepIInv ==
    ASSUME IInv, NEW a \in Attempts, job.type = "generate_test", GenStep(a), UNCHANGED judgeVars
    PROVE  IInv'
<1>1. UNCHANGED api
  BY DEF judgeVars
<1>2. CASE StartRun(a) \/ StartBreaks(a)
  BY <1>1, <1>2, StartRunIInv, StartBreaksIInv
<1>3. CASE PackUnreadable(a) \/ NothingGenerated(a) \/ PlanBreaks(a) \/ BeginPack(a)
  BY <1>1, <1>3, PackFailsIInv, BeginPackIInv
<1>4. CASE InspectModel(a) \/ InspectBreaks(a) \/ InspectLate(a) \/ ToolBreaks(a)
  BY <1>1, <1>4, InspectionFailsIInv
<1>5. CASE RequestTools(a) \/ CallTool(a) \/ FinishInspection(a)
  BY <1>1, <1>5, RequestToolsIInv, CallToolIInv, FinishInspectionIInv
<1>6. CASE AskFails(a) \/ AskLate(a) \/ AskBreaks(a) \/ AskModel(a)
  BY <1>1, <1>6, AskFailsIInv, AskBreaksIInv, AskModelIInv
<1>7. CASE ValidOutput(a) \/ InvalidOutput(a) \/ ValidationBreaks(a)
  BY <1>1, <1>7, ValidOutputIInv, InvalidOutputIInv
<1>8. CASE ValidEvidence(a) \/ InvalidEvidence(a) \/ EvidenceBreaks(a)
  BY <1>1, <1>8, ValidEvidenceIInv, InvalidEvidenceIInv
<1>9. CASE AcceptQuestion(a) \/ ArtifactFails(a) \/ RejectDuplicate(a) \/ RejectBreaks(a)
  BY <1>1, <1>9, AcceptQuestionIInv, RejectDuplicateIInv, RejectBreaksIInv
<1>10. CASE BeginPersist(a) \/ PersistBreaks(a)
  BY <1>1, <1>10, BeginPersistIInv, PersistBreaksIInv
<1>11. CASE InsertTests(a) \/ InsertFails(a) \/ FinishRun(a) \/ FinishBreaks(a)
  BY <1>1, <1>11, InsertIInv
<1> QED
  BY <1>2, <1>3, <1>4, <1>5, <1>6, <1>7, <1>8, <1>9, <1>10, <1>11 DEF GenStep

LEMMA JudgeStepIInv ==
    ASSUME IInv, NEW a \in Attempts, job.type = "judge_answer", JudgeStep(a), UNCHANGED genVars
    PROVE  IInv'
<1>1. UNCHANGED at
  BY DEF genVars
<1>2. CASE StartJudging(a) \/ StartJudgingBreaks(a)
  BY <1>1, <1>2, StartJudgingIInv, StartJudgingBreaksIInv
<1>3. CASE JudgingBreaks(a) \/ InvalidJudgement(a) \/ ValidJudgement(a) \/ SaveStepBreaks(a)
  BY <1>1, <1>3, JudgementIInv
<1>4. CASE \/ InsertResult(a) \/ ResultFails(a) \/ SaveLearning(a) \/ LearningFails(a)
           \/ FinishSaving(a) \/ SavingBreaks(a)
  BY <1>1, <1>4, ResultIInv
<1>5. CASE FinishJudging(a) \/ FinishJudgingBreaks(a)
  BY <1>1, <1>5, FinishJudgingIInv, FinishJudgingBreaksIInv
<1> QED BY <1>2, <1>3, <1>4, <1>5 DEF JudgeStep

LEMMA NextIInv == IInv /\ [Next]_vars => IInv'
<1> SUFFICES ASSUME IInv, [Next]_vars PROVE IInv'
  OBVIOUS
<1>1. CASE UNCHANGED vars
  BY <1>1, StutterIInv DEF vars, jobVars, genVars, judgeVars
<1>2. CASE Submit
  BY <1>2, SubmitIInv
<1>3. CASE Lapse
  BY <1>3, LapseIInv
<1>4. ASSUME NEW a \in Attempts, ClaimJob(a) \/ Work(a) \/ Die(a) PROVE IInv'
  <2>1. CASE ClaimJob(a) \/ Die(a)
    BY <2>1, QueueIInv DEF ClaimJob, Die
  <2>2. CASE Work(a)
    <3>1. CASE (RefuseJob(a) \/ ReportFailure(a)) /\ UNCHANGED <<genVars, judgeVars>>
      BY <3>1, QueueIInv
    <3>2. CASE /\ job.type = "generate_test" /\ UNCHANGED judgeVars
               /\ GenStep(a) \/ (ReportSuccess(a, GenResult(a)) /\ UNCHANGED genVars)
      BY <3>2, GenStepIInv, QueueIInv
    <3>3. CASE /\ job.type = "judge_answer" /\ UNCHANGED genVars
               /\ JudgeStep(a) \/ (ReportSuccess(a, JudgeResult(a)) /\ UNCHANGED judgeVars)
      BY <3>3, JudgeStepIInv, QueueIInv
    <3> QED BY <2>2, <3>1, <3>2, <3>3 DEF Work
  <2> QED BY <1>4, <2>1, <2>2
<1> QED BY <1>1, <1>2, <1>3, <1>4 DEF Next

\* Numbers that are counted once are not reused.
LEMMA NumbersFromIInv == IInv => NoSequenceReused
    BY DEF IInv, Counted, Held, NoSequenceReused

\* No two steps of a run get the same number, whatever the plan, the answers of
\* the model and the interleaving of the attempts: test_generation_runner and
\* repository_inspection number their steps by position.
THEOREM SequencesAreUnique == Spec => []NoSequenceReused
<1>1. Init => IInv
  BY InitIInv
<1>2. IInv /\ [Next]_vars => IInv'
  BY NextIInv
<1>3. IInv => NoSequenceReused
  BY NumbersFromIInv
<1> QED BY <1>1, <1>2, <1>3, PTL DEF Spec
=============================================================================
