SPECIFICATION Spec
CONSTANTS
    Words <- MCWords
    Answers <- MCAnswers
    RetryAttempts = 1
    MaxFrames = 3
    MaxRewrites = 0
INVARIANT StreamEqualsText
CHECK_DEADLOCK FALSE
