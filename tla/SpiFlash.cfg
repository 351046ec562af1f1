\* Timeouts and late cycles; one address is write-protected.
SPECIFICATION Spec
CONSTANTS
  FlashSize = 4
  Bits = {"b0"}
  DefDBC = 2
  MaxDBC = 3
  JedecDBC = 1
  EraseBlock = 2
  PollLimit = 1
  RDenied = {}
  WDenied = {0}
  JedecId <- MCJedecId
  Lengths = {0, 4}
  Buffers <- MCOneBuffer
INVARIANTS
  TypeOK
  WriteOkIsExact
  FullReadIsExact
  EraseOkIsErased
PROPERTIES
  OperationsReturn
