CONSTANTS
  Clients = {c1, c2}
  NoClient = NoClient
  NumTasks = 2
  ManagementMode = {TRUE, FALSE}
SPECIFICATION PoliteSpec
INVARIANTS
  LifecycleTypeOK
  QuietAfterStop
  CommandOnWholeNode
  TaskOnLiveCapability
PROPERTY StopReturns
