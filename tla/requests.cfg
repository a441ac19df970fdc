SPECIFICATION MCSpec
CONSTANTS
  Callers = {1, 2}
  Names = {1, 2}
  Dir = 1
  MaxLogs = 2
  MaxSaves = 3
  Walkers = {1, 2}
  Newest = 3
  AllVersions = 9
  Readers = {1, 2}
  Keys = {1, 2}
  Linked = 1
  Room = 1
  MaxEdits = 2
  MaxText = 5
  NameMaxLength = 4
  Threads <- MCThreads
  Own = 1
  Users = {1, 2}
  MaxBegun = 3
  Titles = {1, 2}
  MaxColumns = 2
INVARIANTS CachedHeadIsNewest HistoryReadBack StatsOfBody ProfilesKept NamesKept ComparedFairly RequestsAnswered
CHECK_DEADLOCK FALSE
