SPECIFICATION WorkSpec
CONSTANTS
  Command = {c1, c2}
  Pid = {p1, p2, p3}
  NoFile = NoFile
  Empty = Empty
  Overlap = FALSE
  europe = europe
  us = us
  Operator = {c1, c2}
  Location = {europe, us}
  Nowhere = Nowhere
  Options <- SetupFlags
  AtFirst <- Everything
  OwnerBound = 1
  Conversation = {k}
  ArtifactPath <- Paths
  Content = {x, y}
  RepoMachine = {a}
  TopStep = 1
  SummaryMachine = {a, b}
  Writer = a
  StepBound = 2
  Items = 5
  Overhead = 2
  Heights = {0, 1, 4, 5}
  Keys = {"j", "G", "Up", "Left", "Home", "PageDown", "Escape", "CtrlF"}
  ReadSize = 5
  KeyBound = 2
  Recorder = {c1, c2}
  Events <- Recorded
  Listings <- UserListings
  PageLimit = 1
  DefaultLimit = 2
  ClockBound = 4
  RowBound = 3
INVARIANTS
  TypeOK SingleDaemon DaemonNamed
  SetupTypeOK  CreationTruthful
  RepoTypeOK SameAnswers
  SummaryTypeOK NothingInvented
  PagerTypeOK SelectionShown KeysObeyed
  PagesMissNothing
PROPERTIES StopStops RowsNeverSetBack FirstPageLatest TypesRespected
SYMMETRY Interchangeable
CHECK_DEADLOCK FALSE
