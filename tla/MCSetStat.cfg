SPECIFICATION Spec
CONSTANTS
  Tasks <- MCTasks
  Clients <- MCClients
  Requests <- MCRequests
  NotSent <- MCNotSent
  Other = "other"
  Changing <- MCChanging
INVARIANTS
  OneClientLosesNothing
PROPERTY ChangesOnlyWhatItMust
CHECK_DEADLOCK FALSE
