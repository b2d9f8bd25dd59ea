----------------------------- MODULE MCAgentJobs -----------------------------
(* Instances of AgentJobs for TLC.                                           *)
EXTENDS AgentJobs

CONSTANTS q1, q2, q3

\* q1 and q2 are near-duplicates, q3 is like neither.
MCQuestions == {q1, q2, q3}
MCSimilar == {{q1, q2}}

\* A job that may be retried while its first attempt goes on; the whole loop of
\* one question; a pack of two; an inspection of two turns; two packs, the second
\* of which may fail; a plan over the limit of questions per category.
MCPlan(counts, indexed, attempts, r, g, calls) ==
    [counts |-> counts, indexed |-> indexed, attempts |-> attempts,
     repairs |-> r, regens |-> g, calls |-> calls]

MCPlans == {MCPlan(<<1>>, FALSE, 2, 0, 0, 0),
            MCPlan(<<1>>, FALSE, 1, 1, 1, 0),
            MCPlan(<<2>>, FALSE, 1, 0, 0, 0),
            MCPlan(<<1>>, TRUE, 1, 0, 0, 5),
            MCPlan(<<1, 1>>, TRUE, 1, 0, 0, 0),
            MCPlan(<<6>>, FALSE, 2, 0, 0, 0)}

\* An answer that holds the reference answer among other words, and the same where
\* only the answer is asked for, which the policy leaves to the model.
MCSubmission(short, text, atomic, answerOnly) ==
    [short |-> short, text |-> text, atomic |-> atomic, answerOnly |-> answerOnly]

MCSubmissions == {MCSubmission(TRUE, "contains", TRUE, FALSE),
                  MCSubmission(TRUE, "contains", TRUE, TRUE)}

\* Scores of each grade, one just under its threshold, some with the wrong status.
MCJudgement(score, status, learning) ==
    [score |-> score, status |-> status, learning |-> learning]

MCJudgements == {MCJudgement(20000, "needs_review", TRUE),
                 MCJudgement(15999, "passing", FALSE),
                 MCJudgement(6000, "needs_review", TRUE)}
=============================================================================
