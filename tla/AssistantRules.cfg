SPECIFICATION Spec
CONSTANTS
    max_history = 4
    Titles = {"relay"}
    MaxTurns = 4
INVARIANT
    AnswersAsTheTests
CHECK_DEADLOCK FALSE
