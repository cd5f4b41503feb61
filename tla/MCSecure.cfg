SPECIFICATION Spec
CONSTANTS
  n1 = n1  n2 = n2  s1 = s1  s2 = s2  ctl = ctl
  m1 = m1  m2 = m2  m3 = m3  m4 = m4  m5 = m5
  app = app  timer = timer  main = main
  Node = {n1, n2}
  Sleeper = {}
  ImmediateSleep = {}
  NonceNode = {n1}
  Controller = ctl
  Msg <- SecureMsgs
  Target <- SecureTarget
  Kind <- SecureKind
  Content <- SecureContent
  QueueOf <- SecureQueue
  Caller <- SecureCaller
  Encrypted = {m1}
  Thread = {app, timer}
  TimerThread = timer
  DriverThread = main
  NoMsg = NoMsg  NoNode = NoNode
  MAX_TRIES = 1
  MAX_MAX_TRIES = 2
  ErrorLimit = 2
  InitialCallbackId = 11
  MaxWakeUps = 0
  MaxNonceReports = 1
  Failures = {"BadEncap"}
INVARIANTS NoMsgLost ExpectationsOfCurrent AttemptsBounded
CHECK_DEADLOCK FALSE
