\* Every category of idea, every setting, every combination of the batches.
SPECIFICATION Spec
CONSTANTS
  Tasks <- MCTasks
  Replies <- MCReplies
INVARIANTS
  LiveMeansEveryStageLive
  StrictDegradesOnlyOnEmptyReplies
  SoundLiveFilesSurvive
  RepairedImportsResolve
  OnlyBareRootImportersAreDeleted
  WebScaffoldPasses
CHECK_DEADLOCK FALSE
