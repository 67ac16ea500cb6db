\* Two requests that name the same Agent: the shared limit, the sweeps of one
\* request that find the other's entries, a second send.
CONSTANTS
    Requests = {r1, r2}
    Targets = {t1}
    Limit = 1
    TTL = 1
SPECIFICATION Spec
INVARIANT DailyLimitHolds
PROPERTIES FreshCrossing AnswerStands BoundaryKept
