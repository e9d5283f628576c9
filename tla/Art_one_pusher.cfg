SPECIFICATION FairSpec
CONSTANTS
  Machine = {a, b}
  Author = {a}
  Pusher = {a}
  File = {f1, f2, f3}
  Workers = 2
  MaxVersion = 3
  MaxRestarts = 1
  NoMachine = none
INVARIANTS TypeOK RemoteMirrors
PROPERTIES  ArtifactsDelivered
CHECK_DEADLOCK FALSE
