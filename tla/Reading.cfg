SPECIFICATION ReadingSpec
CONSTANTS
  u1 = u1
  u2 = u2
  u3 = u3
  u4 = u4
  u5 = u5
  None = None
  Urls = {u1, u2, u3, u4, u5}
  MaxNextPages = 3
  Blank = Blank
  IndexText <- Numerals
  TocEntries <- MixedChapters
  MaxToc = 3
  Feeds = {f1, f2}
  EntryIds = {e1, e2}
  Contents = {1, 2}
  MaxFeed = 2
  Counters = {1}
  Snapshots <- SomeLibraries
  MaxText = 5
  TtsTexts <- Texts
  TtsChapters = {1}
SYMMETRY Symmetry
INVARIANTS
  TypeOK
  FetchesBounded
  NextPageOnce
  NoPageLost
  PlaceSurvives
  LibraryIsConsistent
  SpeaksOnlyCurrent
  SlicesSayTheText
CHECK_DEADLOCK FALSE
