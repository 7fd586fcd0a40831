SPECIFICATION MCSpec
CONSTANTS
  v1 = v1
  v2 = v2
  Item <- MCValue
  size = 3
  Nil = Nil
  Stanza <- MCValue
  QueueSize = 2
  MaxPush = 5
  Byte <- MCByte
  Chunk <- MCChunk
  alen = 3
  NoValue = NoValue
  Base64Bytes <- MCBase64Bytes
  Utf8Bytes <- MCUtf8Bytes
  BitBytes <- MCBitBytes
  MaxInput = 4
  MaxInteger = 7
  Entry <- MCEntry
  MaxEntries = 3
INVARIANTS
  ResumeIsLossless
  ViewsMatchContent
  Base64Inverse
  Utf8Exact
  LoopsExact
  AllOrNothing
  ReadsAgree
  ReleasedOnce
  OneDetachedServer
  PrivilegesDropTogether
PROPERTIES
  ImplementsFifo
  AckReturnsAcked
  ImplementsStream
CHECK_DEADLOCK FALSE
