\* One call of read_phys_mem and one of another method; two kinds of answer tell their order apart.
SPECIFICATION Spec
CONSTANTS
  Keys = {"read_pci_reg", "read_phys_mem"}
  MemKeys = {"read_phys_mem"}
  Kinds = {"bytes", "helper error"}
  Payloads = {"a"}
  MaxCalls = 2
INVARIANTS
  TypeOK
  RecordingExtendsFile
PROPERTIES
  ImplementsCallLog
