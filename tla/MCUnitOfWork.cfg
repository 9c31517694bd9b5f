SPECIFICATION FairSpec
CONSTANTS
    Caller = {u1, u2, u3}
    MaxRuns = 4
INVARIANTS OneRunAtATime ResultMatchesScope
PROPERTY FlagComesDown
CHECK_DEADLOCK FALSE
