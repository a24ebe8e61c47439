SPECIFICATION ClaimsSpec
CONSTANTS
  Blank = Blank
  IndexText <- Indexes
  TocEntries <- OddChapters
  MaxToc = 4
  TtsTexts <- TwoLines
  TtsChapters = {1, 2}
INVARIANTS
  SomeClaimHolds
CHECK_DEADLOCK FALSE
