SPECIFICATION LiveSpec
CONSTANTS
    r1 = r1
    r2 = r2
    k1 = k1
    Null = Null
    Request = {r1, r2}
    Key = {k1}
    KeyOf <- MCKeyOf
    MaxBody = 1
    MaxChunk = 1
    MaxTotal = 2
INVARIANTS AnswerTellsCommit RetryIsSafe
PROPERTIES EveryRequestAnswered
CHECK_DEADLOCK FALSE
