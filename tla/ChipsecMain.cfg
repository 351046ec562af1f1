\* Two common modules and one of the platform, over several runs.
SPECIFICATION Spec
CONSTANTS
  CommonModules = {1, 3}
  PlatformModules = {2}
  Results = {"PASSED", "FAILED", "WARNING", "NOTAPPLICABLE", "DEPRECATED", "True", "None", "list"}
  Switches <- MCSwitches
INVARIANTS
  TypeOK
  FreshDriver
  DriverReleased
  ZeroMeansPassed
  OneModuleNeverStopsTheRun
