\* One question to two Agents: every outcome of each call, the other call's
\* progress in between, time-outs and expiry.
CONSTANTS
    Requests = {r1}
    Targets = {t1, t2}
    Limit = 2
    TTL = 1
SPECIFICATION FairSpec
INVARIANTS SecretStaysHome StoresAgree MappingHygiene NothingBeforeApproval
PROPERTIES EscalationExact PrepareEnds SendEnds
