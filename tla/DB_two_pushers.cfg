SPECIFICATION Spec
CONSTANTS
  Machine = {a, b}
  Author = {a, b}
  Pusher = {a, b}
  Row = {r1, r2}
  RowsPerChunk = 1
  NoMachine = none
  Prune = TRUE
INVARIANTS TypeOK WholeImages QuietRestorable
CHECK_DEADLOCK FALSE
