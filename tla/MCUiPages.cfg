SPECIFICATION MCSpec
CONSTANTS
  MaxGeneration = 3
  MaxReloads = 1
  MaxFiles = 2
  HistoryLimit = 2
  MaxRecords = 3
  DockRecords = 2
  MaxToasts = 1
  MaxProgress = 1
  RecentLimit = 1
  FlashHistoryLimit = 1
  MaxEdits = 4
  Xml = {"x"}
  Bin = {"b"}
  MaxClock = 2
  MaxCalls = 2
  Registers = {"a", "m"}
  Manual = {"m"}
  Writable = {"a"}
  MaxValue = 1
  MaxMounts = 2
  Budget = 3
  Manuals = {"a", "b"}
  Broken = {"x"}
  Pages = 1
  Terms = {"", "p", "q"}
  ByteBits = 2
  DigitBase = 4
  RowHeight = 3
  Overscan = 0
  PageBytes = 4
  Small = 2
INVARIANTS AdaptersAreCurrent MessagesAreConsistent EditorsWriteWhatIsShown RegisterPageIsSafe SourcesAreKept AlgorithmsAgree
PROPERTIES AnnouncementsArrive PagesSettle UnreadUntilSeen WritesOverWhatWasSeen
CHECK_DEADLOCK FALSE
