\* Downloads and uploads over the asynchronous file layer.
SPECIFICATION FairSpec
CONSTANTS
  BlockSize = 2
  BufferSize = 4
  MaxSize = 9
  MaxChunk = 5
  Troubles <- OneTrouble
INVARIANTS TypeOK BuffersApart SentInOrder DiskInOrder HealthyUploadComplete
PROPERTIES StreamSpec CallsReturn
