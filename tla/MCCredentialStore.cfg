SPECIFICATION FairSpec
CONSTANTS
  t1 = t1  t2 = t2  t3 = t3  p1 = p1  p2 = p2
  Processes <- MCProcesses
  Tasks <- MCTasks
  Home <- MCHome
  Nothing = Nothing
  Unreadable = Unreadable
  NoTask = NoTask
PROPERTIES KeepsRegister OperationsEnd
CHECK_DEADLOCK FALSE
