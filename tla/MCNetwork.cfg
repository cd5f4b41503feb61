SPECIFICATION Spec
CONSTANTS
  c1 = c1  c2 = c2  c3 = c3  c4 = c4  c5 = c5
  n1 = n1  n2 = n2  s1 = s1  app = app
  Command <- Commands
  Item <- Items
  Kind <- NetworkKind
  ArgNode <- NetworkNode
  Callback <- OwnCallback
  ResetCommand = {}
  Node = {n1, n2}  InitialNodes = {n1}  Sleeper = {}
  Joining = {n2}  Leaving = {n1}
  Primary = TRUE  SUC = FALSE
  Cancellers = {app}
  MaxBegun = 2  MaxFrames = 3  MaxSleeps = 0
  Null = Null  Broadcast = Broadcast
INVARIANTS TypeOK DoneIsSignalled
PROPERTIES ReportsOnce
CHECK_DEADLOCK FALSE
