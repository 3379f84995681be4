\* Short paths only: those that go back beyond the root are among them.
SPECIFICATION TextSpec
CONSTANTS
  Names = {"a"}
  MaxPath = 4
  MaxLen = 5
  MaxQuery = 2
  MaxFields = 1
  Paths <- MCPaths
  Queries <- MCQueries
  Files <- MCFiles
  PathBuffer = 8
  Urls <- MCUrls
  Root <- MCRoot
  Defaults <- MCDefaults
\* The function returns.
CHECK_DEADLOCK FALSE
INVARIANTS
  ReturnsPathOrNull
