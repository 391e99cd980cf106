SPECIFICATION Spec
CONSTANTS
  b1 = b1 b2 = b2 b3 = b3 s1 = s1 s2 = s2 k1 = k1 k2 = k2 v1 = v1 v2 = v2
  Null = Null Wild = Wild Absent = Absent Scrap = Scrap
  Block <- TwoBlocks
  Str <- TwoStrings
  Key <- TwoKeys
  Value <- TwoValues
  List <- OneList
  ListOf <- InOneList
  Residue <- Zeroed
  Command <- WritesAndReads
  MaxOps = 5
SYMMETRY KeysAndAddresses
CONSTRAINT WritesInARow
INVARIANTS TypeOK SizeCounts
PROPERTIES ImplementsWriteBehind GetIsCurrent
