\* One task, a run of three snapshots, two replacements of the store.
SPECIFICATION Spec
CONSTANTS
  t1 = t1
  requirements = requirements
  architectures = architectures
  Tasks <- MCTasks
  Steps = 3
  Tables <- MCTables
  FirstStep <- MCFirstStep
  LogSteps <- MCLogSteps
  MaxStores = 3
INVARIANTS
  LogsAreTheTrace
  CleanCopyHeals
  RowsNotAheadOfSession
PROPERTY
  PageIsTold
CHECK_DEADLOCK FALSE
