SPECIFICATION Spec
CONSTANTS
    Words <- MCWords
    Answers <- MCAnswers
    RetryAttempts = 2
    MaxFrames = 3
    MaxRewrites = 1
INVARIANTS TypeOK AnswerDelivered NothingTwice CutIndependent StreamShape
CHECK_DEADLOCK FALSE
