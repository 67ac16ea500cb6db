SPECIFICATION Spec
CONSTANTS
  People = {1, 2, 3}
  NumPeers = 2
  Loads = {1, 2}
  AtStart = {1}
  PeersAtStart <- MCPeers
  Purposes <- MCPurposes
  Folder = {2}
  Profiles <- MCProfiles
  Full <- MCFull
  RawAnswers <- MCRawAnswers
  MaxRelevant = 1
  MaxMoves = 1
INVARIANTS
  CardsRoute
  TriageKeepsBest
