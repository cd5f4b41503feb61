SPECIFICATION FairSpec
CONSTANTS
  d1 = d1  d2 = d2  w1 = w1  w2 = w2  n1 = n1
  config = config  picture = picture
  Driver = {d1, d2}  Worker = {w1, w2}  Node = {n1}
  Config = {config}  Mfs = Mfs  Null = Null
  Products <- ProductFiles  ConfigOf <- NodeFiles  Picture <- Pictures
  Unwritable = {picture}
  Setups <- StartUps
INVARIANTS TypeOK DownloadsKnown
PROPERTIES ReadyEventually
CHECK_DEADLOCK FALSE
