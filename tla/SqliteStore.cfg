SPECIFICATION SqlFairSpec
CONSTANTS
  w1 = w1
  w2 = w2
  Workers = {w1, w2}
  None = None
  Tasks = {1, 3}
  BookOf <- Owner
  Priorities = {0, 1}
  Limits = {2}
  Created = {1}
  Times = {1, 2}
  Entries = {1, 2, 3}
  EntryBook <- Owner
  EntryIndex <- Index
  Stamps = {1, 2}
  Sizes = {1, 2}
  Unlimited = Unlimited
  Counts = {0, 1, 3}
  IndexMax = 3
  Books = {1, 2}
  NewEntries <- OneEntry
  SourceOf <- Source
  IdOf <- Id
  Chapters = {0, 1}
  Moments = {1, 2}
  Texts = {"g"}
  Trim <- Trimmed
  Blank = ""
  NoGroup = NoGroup
  Ranks = {0}
  MaxSaves = 2
  Kinds = {"source", "book", "text", "dict", "record", "rule"}
  Named = {"source", "book", "text", "dict", "record"}
  Checked = {"dict", "record"}
  Deletable = {"dict", "record", "rule"}
  Ids = {"x"}
  Backups <- OneBackup
  Menus <- Families
  LegacySource = "legacy"
INVARIANTS
  TypeOK
  InProgressIsHeld
  OneWorkerPerTask
  PruneKeepsNewest
  PrefetchIsExact
  ProgressIsNewest
PROPERTIES
  InMemorySpec
  TasksSettle
CHECK_DEADLOCK FALSE
