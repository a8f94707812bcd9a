\* One task under each configuration: mock, strict live, partial allowed.
SPECIFICATION FairSpec
CONSTANTS
  t1 = t1
  readme = readme
  architecture = architecture
  code = code
  debugReport = debugReport
  Tasks <- MCOneTask
  Paths <- MCPaths
  CodePaths <- MCCodePaths
  HealthPaths <- MCHealthPaths
  ReportPath = debugReport
  AutoInitPath = readme
  Configs <- MCAllConfigs
  RecursionLimit = 25
INVARIANTS
  TypeOK
  CompletedMeansDelivered
  InspectedVersionWins
  ShownStepsAreTheTrace
  ReportBlamesTheCulprit
  CompletedTimelineIsFull
  RunFitsRecursionLimit
PROPERTIES
  FailedTaskLeavesGitHubAlone
  ImplementsLifecycle
  EveryTaskEnds
  MockRunsComplete
  PollerLearnsOutcome
\* A task that has ended and a page that has stopped polling do nothing more.
CHECK_DEADLOCK FALSE
