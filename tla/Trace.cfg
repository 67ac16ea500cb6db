\* Three traces, room for two.
CONSTANTS
    Calls = {c1, c2, c3}
    Judgings <- MCJudgings
    MaxTraces = 2
    TTL = 1
SPECIFICATION Spec
SYMMETRY MCCalls
INVARIANTS LatestKept CrossedIsTrue StoppedIsTrue
PROPERTY LeavesForCause
