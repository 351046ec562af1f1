\* A single module, without and with -rc.
SPECIFICATION Spec
CONSTANTS
  CommonModules = {1}
  PlatformModules = {2}
  Results = {"PASSED", "FAILED", "WARNING"}
  Switches <- MCExitStatus
INVARIANT StatusZeroMeansPassed
