SPECIFICATION FairSpec
CONSTANTS
  b1 = b1 b2 = b2 b3 = b3 s1 = s1 s2 = s2 k1 = k1 k2 = k2 v1 = v1 v2 = v2
  Null = Null Wild = Wild Absent = Absent Scrap = Scrap
  Block <- ThreeBlocks
  Str <- OneString
  Key <- OneKey
  Value <- OneValue
  List <- OneList
  ListOf <- InOneList
  Residue <- Zeroed
  Command <- Puts
  MaxOps = 4
PROPERTY EveryWriteApplied
CHECK_DEADLOCK FALSE
