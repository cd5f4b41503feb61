SPECIFICATION FairSpec
CONSTANTS
  c1 = c1  c2 = c2  c3 = c3  c4 = c4  c5 = c5
  n1 = n1  n2 = n2  s1 = s1  app = app
  Command <- FailedCommands
  Item <- Items
  Kind <- FailedKind
  ArgNode <- FailedNode
  Callback <- FailedCallback
  ResetCommand = {c3}
  Node = {n1, s1}  InitialNodes = {n1, s1}  Sleeper = {s1}
  Joining = {n1}  Leaving = {}
  Primary = TRUE  SUC = FALSE
  Cancellers = {}
  MaxBegun = 2  MaxFrames = 2  MaxSleeps = 1
  Null = Null  Broadcast = Broadcast
INVARIANTS OneOwner
PROPERTIES CommandsEnd
CHECK_DEADLOCK FALSE
