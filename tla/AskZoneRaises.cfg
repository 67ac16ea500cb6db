CONSTANTS
    Requests = {r1}
    Targets = {t1}
    Limit = 2
    TTL = 1
SPECIFICATION Spec
INVARIANT AnswerInZoneAnswers
