\* Says of the stages what the tests say of GenerationStages.
SPECIFICATION Spec
CONSTANTS
  Tasks <- MCTasks
  Replies <- MCReplies
INVARIANT PlannedCodeIsAskedFor
CHECK_DEADLOCK FALSE
