SPECIFICATION FairSpec
CONSTANTS
  c1 = c1 c2 = c2 c3 = c3
  Null = Null Self = Self
  Client <- TwoClients
  Fd <- ThreeFds
  NFDESC = 5
  Kind <- GoodKind
  Leaving <- OneLeaves
PROPERTY AnswersRequests
CHECK_DEADLOCK FALSE
