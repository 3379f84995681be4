SPECIFICATION TextSpec
CONSTANTS
  Names = {"a"}
  MaxPath = 7
  MaxLen = 9
  MaxQuery = 7
  MaxFields = 9
  Paths <- MCPaths
  Queries <- MCQueries
  Files <- MCFiles
  PathBuffer = 11
  Urls <- MCUrls
  Root <- MCRoot
  Defaults <- MCDefaults
\* The function returns.
CHECK_DEADLOCK FALSE
INVARIANTS
  TypeOK
  NoEmptySegment
  OnlyLongIsRefused
  IndexStaysInBuffer
  AgreesWithReference
  ParamsAgree
  SlotsSuffice
  HeaderWhole
  MimeByName
  DefaultsInDirectory
