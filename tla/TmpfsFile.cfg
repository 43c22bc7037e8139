SPECIFICATION FileSpec
CONSTANTS
  Byte <- MCByte
  ChunkSize <- MCChunkSize
  Memory <- MCMemory
  MaxCount <- MCMaxCount
PROPERTIES ImplementsFile
