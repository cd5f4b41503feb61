SPECIFICATION FairSpec
CONSTANTS
  n1 = n1  n2 = n2  s1 = s1  s2 = s2  ctl = ctl
  m1 = m1  m2 = m2  m3 = m3  m4 = m4  m5 = m5
  app = app  timer = timer  main = main
  Node = {s1, s2}
  Sleeper = {s1, s2}
  ImmediateSleep = {s1}
  NonceNode = {}
  Controller = ctl
  Msg <- SleepingMsgs
  Target <- SleepingTarget
  Kind <- SleepingKind
  Content <- SleepingContent
  QueueOf <- SleepingQueue
  Caller <- SleepingCaller
  Encrypted = {}
  Thread = {app, timer}
  TimerThread = timer
  DriverThread = main
  NoMsg = NoMsg  NoNode = NoNode
  MAX_TRIES = 1
  MAX_MAX_TRIES = 2
  ErrorLimit = 2
  InitialCallbackId = 11
  MaxWakeUps = 1
  MaxNonceReports = 0
  Failures = {"NoAck", "Fail", "LostACK"}
INVARIANTS ParkedDistinct ExactlyOnePlace
PROPERTIES ImplementsDelivery Settles
CHECK_DEADLOCK FALSE
