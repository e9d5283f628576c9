SPECIFICATION WorkSpec
CONSTANTS
  a = a
  b = b
  c = c
  da = da
  db = db
  cc = cc
  Machine = {a, b}
  Proc = {da, db}
  Host <- DaemonHost
  Origin = a
  Author = {a}
  Pusher = {da}
  Cli = {}
  NoMachine = NoMachine
  MaxIndex = 1
INVARIANTS NoGaps
CHECK_DEADLOCK FALSE
