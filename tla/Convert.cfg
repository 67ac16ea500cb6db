SPECIFICATION Spec
CONSTANTS
    Pieces <- MCPieces
    Numerals <- MCNumerals
    Targets <- MCTargets
    Technical = {}
    MaxPieces = 4
    MaxSpans = 2
    Evidence <- MCEvidence
    Roles <- MCRoles
    FixedSlots <- MCFixedSlots
    BatchSize = 1
    MaxAttempts = 2
    Labels = {"x", "y", "v", "w", "c", "Bad"}
    WellFormed = {"x", "y", "v", "w", "c"}
    Banned = {"c"}
    Refused = {"facts"}
    FormatKeys = {"conclusion"}
    Proposals <- MCProposals
    MaxSlots = 2
    Texts <- MCTexts
    Spans <- MCSpans
    Words = {"a", "b", "c", "PROJ"}
INVARIANTS FactsClosed OwnFacts ChecksAgree RoundTrip
