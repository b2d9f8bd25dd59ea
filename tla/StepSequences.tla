---------------------------- MODULE StepSequences ----------------------------
(* The sequence numbers of the steps of a generation run.  agent_steps has   *)
(* a unique (agent_run_id, sequence); the runner does not ask the database   *)
(* for the next number but computes each one from the position of the step:  *)
(* pack, question, duplicate attempt, turn.  The loops number what they do   *)
(* inside the range that position leaves them.                               *)
EXTENDS Integers

PlanStepBase == 10
InspectionBase == 100
PackStride == 1000000
QuestionStride == 150000
DuplicateStride == 50000
GenerationBase == 100000
\* Mutant: no room for the evidence step of a turn.
TurnStrideOfTwo == 2
TurnStride == 10
DedupeOffset == 100090

GenerationSeq == 1
PersistSeq == 20000000

\* The n-th (from 0) model or tool call of the inspection of a pack.
PlanSeq(pack) == pack * PackStride + PlanStepBase
InspectionSeq(pack, n) == pack * PackStride + InspectionBase + n

\* Pack, question and duplicate attempt count from 0, turns from 1.
AttemptBase(pack, question, dup) ==
    pack * PackStride + question * QuestionStride + dup * DuplicateStride

\* The model call of a turn (offset 0), its validation (1), its evidence (2).
TurnSeq(base, turn, offset) == base + GenerationBase + turn * TurnStride + offset
DedupeSeq(base) == base + DedupeOffset
=============================================================================
