SPECIFICATION FairSpec
CONSTANTS
  n1 = n1  s1 = s1
  Node = {n1, s1}  Sleeper = {s1}  Cached = {n1}
  Controller = Null  Null = Null
  Work <- ListenerAndSleeper
  Driver = Driver  App = App
  ErrorLimit = 2
  MaxUpsets = 2
INVARIANTS TypeOK AlwaysResumes MarkersLast
PROPERTIES InterviewEnds AllQueriedAnnounced
CHECK_DEADLOCK FALSE
