SPECIFICATION FairSpec
CONSTANTS
  None = None
  Lost = Lost
  Versions = {1, 2}
  Tools = {"build", "manual"}
  RowBatch = 2
  HybridCandidates = 2
  RerankCandidates = 2
  MaxFaults = 1
  Content <- MCContent
  Worlds <- MCWorlds
  Questions <- MCQuestions
  Forged <- MCForged
  Struck <- MCStruck
INVARIANTS AnswersPinned KeywordsWhole TopStable
PROPERTY SearchEnds
CHECK_DEADLOCK FALSE
