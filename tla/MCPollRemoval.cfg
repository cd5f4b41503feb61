SPECIFICATION Spec
CONSTANTS
  n1 = n1  s1 = s1  v1 = v1  v2 = v2  w1 = w1  a1 = a1  a2 = a2
  Node = {n1, s1}
  Value = {v1, w1}
  NodeOf <- Owner
  Sleeper = {}
  App = {a1, a2}
  Driver = Driver  PollThread = PollThread
  NoThread = NoThread  NoValue = NoValue  NoNode = NoNode
  Restored <- RestoredOne
  CounterMod = 4
  Intensities = {1}
  AppOps = {"EnablePoll", "DisablePoll", "isPolled", "SetPollIntensity"}
  Pinned = {}
  Traffic = TRUE
  MaxDeletes = 1
  MaxRemovals = 1
INVARIANTS TypeOK OneEntryEach NoOrphanEntry
PROPERTIES EntriesKept
CHECK_DEADLOCK FALSE
