SPECIFICATION FairSpec
CONSTANTS
  n1 = n1  n2 = n2  s1 = s1  s2 = s2  ctl = ctl
  m1 = m1  m2 = m2  m3 = m3  m4 = m4  m5 = m5
  app = app  timer = timer  main = main
  Node = {n1, n2}
  Sleeper = {}
  ImmediateSleep = {}
  NonceNode = {}
  Controller = ctl
  Msg <- ListeningMsgs
  Target <- ListeningTarget
  Kind <- ListeningKind
  Content <- ListeningContent
  QueueOf <- ListeningQueue
  Caller <- ListeningCaller
  Encrypted = {}
  Thread = {app, timer}
  TimerThread = timer
  DriverThread = main
  NoMsg = NoMsg  NoNode = NoNode
  MAX_TRIES = 1
  MAX_MAX_TRIES = 3
  ErrorLimit = 2
  InitialCallbackId = 254
  MaxWakeUps = 0
  MaxNonceReports = 0
  Failures = {"CAN", "NAK", "LostACK", "NoAck", "Fail", "Port"}
INVARIANTS TypeOK EventsMatchQueues
PROPERTIES BlamesOwnNode Settles
CHECK_DEADLOCK FALSE
