SPECIFICATION FairSpec
CONSTANTS
  conversation = conversation
  logs = logs
  artifact = artifact
  transcript = transcript
  Dir = {conversation, logs}
  Root = brain
  Parent <- Tree
  File = {artifact, transcript}
  DirOf <- Places
  Overflow = Overflow
  KernelQueue = 3
  Capacity = 1
  ErrCapacity = 1
  MaxWrites = 1
  MaxMishaps = 0
PROPERTIES EveryChangePushed
CHECK_DEADLOCK FALSE
