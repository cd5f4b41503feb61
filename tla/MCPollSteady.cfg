SPECIFICATION FairSpec
CONSTANTS
  n1 = n1  s1 = s1  v1 = v1  v2 = v2  w1 = w1  a1 = a1  a2 = a2
  Node = {n1, s1}
  Value = {v1, w1}
  NodeOf <- Owner
  Sleeper = {s1}
  App = {a1}
  Driver = Driver  PollThread = PollThread
  NoThread = NoThread  NoValue = NoValue  NoNode = NoNode
  Restored <- RestoredBoth
  CounterMod = 3
  Intensities = {0, 2}
  AppOps = {"EnablePoll", "DisablePoll", "SetPollIntensity"}
  Pinned = {v1}
  Traffic = FALSE
  MaxDeletes = 0
  MaxRemovals = 0
INVARIANTS StaysDefined
PROPERTIES ServedForEver MarkedIsPolled
