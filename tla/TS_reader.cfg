SPECIFICATION ClearSpec
CONSTANTS
  a = a
  b = b
  da = da
  cb = cb
  Machine = {a, b}
  Proc = {da, cb}
  Host <- DaemonAndCommandHost
  Origin = a
  Author = {a}
  Pusher = {da}
  Cli = {cb}
  NoMachine = NoMachine
  MaxIndex = 1
  MaxClears = 2
INVARIANTS ClearTypeOK CoveredUnlessRaced StatusTruthful
PROPERTIES WatermarkMonotone SweptClean
CHECK_DEADLOCK FALSE
