SPECIFICATION FairSpec
CONSTANTS
  d = d
  e = e
  x = x
  Names <- MCNames
  Entries <- MCEntries
  Dirs <- MCDirs
  Unreadable <- MCUnreadable
  Matching <- MCMatching
  MaxResults = 2
  MaxSearches = 2
  MaxFaults = 1
INVARIANTS TypeOK CompleteBelowCap TruncatedMeansMore
PROPERTIES PollingStops AloneShown
CHECK_DEADLOCK FALSE
