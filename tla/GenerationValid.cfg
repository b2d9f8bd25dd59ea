SPECIFICATION Spec
CONSTANTS
    q1 = q1
    q2 = q2
    q3 = q3
    Questions <- MCQuestions
    Similar <- MCSimilar
    Plans <- MCPlans
    Signatures = {"search", "read"}
    MaxDuplicates = 1
    PriorLimit = 5
    NoQuestion = NoQuestion
    Submissions <- MCSubmissions
    Judgements <- MCJudgements
    MaxSubmissions = 2
    JudgeAttempts = 2
    MaxRepairs = 1
CHECK_DEADLOCK FALSE
INVARIANT ValidQuestionSucceeds
