\* The last chunk of a file is sent in parts.
SPECIFICATION Spec
CONSTANTS
  BlockSize = 2
  BufferSize = 4
  MaxSize = 6
  MaxChunk = 4
  Troubles <- ShortEnd
INVARIANT SentInOrder
