CONSTANTS
  EcOffsets = {0, 1}
  EcBytes = {0, 1}
  EcPolls = 1
  TpmSizes = {0, 2, 3}
  TpmHeader = 2
  TpmData = 2
  TpmBurst = 2
  PspBuffers = {b1, b2}
  PspCalls = 3
  PortHalf = 2
  PortValues = {0, 1}
  SmbDevices = {"dimm0", "dimm1"}
  SmbPresent = {"dimm0"}
  SmbOffsets = {1, 2}
  SmbTypeOffset = 2
  SmbBytes = {0, 255}
  SmbFF = 255
  SmbPollCount = 2
  SmbPlans <- MCPlans
SPECIFICATION Spec
INVARIANTS TypeOK EcReadYourWrites TpmCommandsExact PspCommandsExact PortsExact
  ReadIsGenuine WriteIsDone
PROPERTY CallsReturn
CHECK_DEADLOCK FALSE
