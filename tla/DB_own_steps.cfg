SPECIFICATION FairSpec
CONSTANTS
  Machine = {a, b}
  Author = {a}
  Pusher = {a, b}
  Row = {r1, r2}
  RowsPerChunk = 2
  NoMachine = none
  Prune = FALSE
PROPERTIES OwnStepsKept
CHECK_DEADLOCK FALSE
