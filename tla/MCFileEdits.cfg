\* A file of at most four bytes, downloaded two sections at a time.
CONSTANTS
  Bytes = {1}
  Pieces <- MCPieces
  MaxLength = 4
  MaxEdits = 3
  SectionSize = 1
  ChunkSize = 2
  HistorySize = 2
  f1 = f1
  f2 = f2
  f3 = f3
  f4 = f4
  StoredFiles = {f1, f2, f3, f4}
  Rowless = {f4}
  FilePath <- MCFilePath
  Below = {"below"}
  FileSize <- MCFileSize
  LastNumber = 3
  MaxInt = 2
  MaxExports = 3
SPECIFICATION MCSpec
INVARIANTS StorageInv ReplaceExact
CHECK_DEADLOCK FALSE
