SPECIFICATION Spec
CONSTANTS
  CommonModules = {1, 3}
  PlatformModules = {2}
  Results = {"PASSED", "FAILED", "WARNING"}
  Switches <- MCReturnCodes
INVARIANT ExceptionsMasked
