SPECIFICATION Spec
CONSTANTS
    Writers = {w1, w2}
    Jobs <- MCTokenJobs
    Nothing = Nothing
INVARIANT
    SecretNeverAnswersPrompt
