SPECIFICATION Spec
CONSTANTS
  n1 = n1 n2 = n2 n3 = n3 ka = ka kb = kb kc = kc kodd = kodd kneg = kneg
  v1 = v1
  Null = Null Absent = Absent
  Node <- ThreeNodes
  Key <- SameList
  Value <- OneValue
  CodeSum <- Sums
  countLists = 2
INVARIANT AddsAtEnd
CHECK_DEADLOCK FALSE
