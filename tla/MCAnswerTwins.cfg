SPECIFICATION SpecServer
CONSTANTS
  None = None
  Unreadable = Unreadable
  ChunkSize = 4
  ChunkStep = 3
  MinChunkLen = 1
  BatchLen = 2
  MaxChanges = 1
  ContextBudget = 6
  Budgets = {3, 6, 9}
  MaxHits = 2
  Twins = TRUE
  Malformed = {0}
  Corpora <- MCCorpora
  PagesOf <- MCPagesOf
  StorageKey <- MCStorageKey
  LinkedName <- MCLinkedName
  Answers <- MCAnswers
INVARIANT ReaderAccepts
CHECK_DEADLOCK FALSE
