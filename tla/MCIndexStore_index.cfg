SPECIFICATION FairSpec
CONSTANTS
  File = {"main", "lib"}
  Imports <- MainImportsLib
  Text = {1, 2, 3}
  Host = {"mcp", "desktop"}
  Indexing = {"mcp"}
  Searching = {"desktop"}
  Watcher = "mcp"
  GitChanges <- OnlyMain
  MaxRequests = 1
  MaxSaves = 1
  MaxFaults = 1
INVARIANTS CacheIsCurrent IncrementalIsFull
PROPERTIES RunEnds JobEnds SavedIsIndexed
CHECK_DEADLOCK FALSE
