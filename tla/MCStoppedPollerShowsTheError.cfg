\* Shows that StoppedPollerShowsTheError does not hold: one task, strict live mode.
SPECIFICATION Spec
CONSTANTS
  t1 = t1
  readme = readme
  architecture = architecture
  code = code
  debugReport = debugReport
  Tasks <- MCOneTask
  Paths <- MCPaths
  CodePaths <- MCCodePaths
  HealthPaths <- MCHealthPaths
  ReportPath = debugReport
  AutoInitPath = readme
  Configs <- MCStrictOnly
  RecursionLimit = 25
INVARIANT
  StoppedPollerShowsTheError
CHECK_DEADLOCK FALSE
