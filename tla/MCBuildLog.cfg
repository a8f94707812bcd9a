\* Two appenders, one retry as in the code, one other commit.
SPECIFICATION Spec
CONSTANTS
  a1 = a1
  a2 = a2
  Appenders <- MCAppenders
  RetryLimit = 1
  MaxOthers = 1
INVARIANTS
  SuccessWasCommitted
  EntriesBounded
  LostOnlyUnread
PROPERTY
  EveryAppendEnds
CHECK_DEADLOCK FALSE
