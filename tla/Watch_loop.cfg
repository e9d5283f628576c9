SPECIFICATION FairSpec
CONSTANTS
  conversation = conversation
  logs = logs
  artifact = artifact
  transcript = transcript
  Dir = {conversation, logs}
  Root = brain
  Parent <- Tree
  File = {artifact, transcript}
  DirOf <- Places
  Overflow = Overflow
  KernelQueue = 1
  Capacity = 1
  ErrCapacity = 1
  MaxWrites = 2
  MaxMishaps = 1
INVARIANTS TypeOK NothingForgotten
PROPERTIES EventuallyPushed
CHECK_DEADLOCK FALSE
