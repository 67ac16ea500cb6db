\* One question to three others, one of them on another node.
CONSTANTS
    Requests = {r1}
    Agents = {me, a, b, z}
    Me = me
    Remote = {z}
    Limit = 2
    MaxTargets = 2
    MaxRelevant = 3
SPECIFICATION FairSpec
INVARIANTS AskBudget EscalationsTold FailureIsOneAgents DigestTrue ContextsReturned
PROPERTY ConsultEnds
