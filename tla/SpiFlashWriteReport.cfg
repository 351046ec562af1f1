\* A write-protected address: what a True result of write_spi means.
SPECIFICATION Spec
CONSTANTS
  FlashSize = 4
  Bits = {"b0"}
  DefDBC = 2
  MaxDBC = 3
  JedecDBC = 1
  EraseBlock = 2
  PollLimit = 1
  RDenied = {}
  WDenied = {0}
  JedecId <- MCJedecId
  Lengths = {3}
  Buffers <- MCBuffers
INVARIANT CompletedWriteIsWritten
