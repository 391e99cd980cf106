SPECIFICATION FairSpec
CONSTANTS
  p1 = p1 p2 = p2 k1 = k1
  Absent = Absent Failed = Failed None = None
  Client <- TwoClients
  Asks <- Roles
  Key <- OneKey
  Value <- Values
  Usable = 24
  MaxOps = 2
INVARIANTS TypeOK NumbersAreOwn ReadsNeverGoBack BytesSurvive
 
CHECK_DEADLOCK FALSE
