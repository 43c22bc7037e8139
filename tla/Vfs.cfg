SPECIFICATION FsSpec
CONSTANTS
  Name <- MCName
  NoName = ""
  LongName = {"long"}
  Reads <- MCReads
  FileContent = {"", "A"}
  Empty = ""
  HeaderPath <- MCHeaders
  InitrdPath <- MCInitrd
  WantedPath <- MCWanted
  EntriesFit = 3
  MaxInodes = 5
PROPERTY ImplementsTree
CHECK_DEADLOCK FALSE
