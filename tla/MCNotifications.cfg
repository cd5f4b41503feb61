SPECIFICATION FairSpec
CONSTANTS
  app = app  w1 = w1  w2 = w2
  App = {app}  Remover = Remover  Driver = Driver
  Setter <- Setters
  Watcher = {w1, w2}  Initial <- BothWatchers  End = End  Null = Null
  LastObject = 2
  MaxNotes = 2  MaxActs = 2
INVARIANTS TypeOK AwakeWhenSignalled ToldOnce
PROPERTIES OwnDelivered
CHECK_DEADLOCK FALSE
