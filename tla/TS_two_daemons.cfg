SPECIFICATION SpecLossy
CONSTANTS
  a = a
  b = b
  c = c
  da = da
  db = db
  cc = cc
  Machine = {a, b, c}
  Proc = {da, db, cc}
  Host <- DaemonsAndCommand
  Origin = a
  Author = {a}
  Pusher = {da, db}
  Cli = {cc}
  NoMachine = NoMachine
  MaxIndex = 1
INVARIANTS TypeOK NoDuplicateSteps
PROPERTIES ImplementsSharedLog
CHECK_DEADLOCK FALSE
