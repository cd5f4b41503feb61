SPECIFICATION FairSpec
CONSTANTS
  v1 = v1  v2 = v2  a1 = a1  a2 = a2
  Timer = {v1, v2}  Verified = {v1}  Targeted = {v2}  RefreshAfterSet = {v2}
  Address = {a1, a2}  Null = Null
  LevelOf <- Levels  Default = 0  Restored = {v1}  None = None
  MaxEvents = 2  MaxReports = 2  MaxSets = 1
INVARIANTS TypeOK CallbacksLive RefreshFollows
PROPERTIES ChangeConfirmed EventsHappen
CHECK_DEADLOCK FALSE
