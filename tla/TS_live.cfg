SPECIFICATION FairSpec
CONSTANTS
  a = a
  b = b
  c = c
  da = da
  db = db
  cc = cc
  Machine = {a, b}
  Proc = {da, db}
  Host <- DaemonHost
  Origin = a
  Author = {a}
  Pusher = {da, db}
  Cli = {}
  NoMachine = NoMachine
  MaxIndex = 2
INVARIANTS WatermarkStored
PROPERTIES EventuallyStored 
CHECK_DEADLOCK FALSE
