SPECIFICATION FairSpec
CONSTANTS
  Machine = {a, b}
  Author = {a}
  Pusher = {a, b}
  File = {f1}
  Workers = 1
  MaxVersion = 1
  MaxRestarts = 0
  NoMachine = none
PROPERTIES ComesToRest
CHECK_DEADLOCK FALSE
