SPECIFICATION Spec
CONSTANTS
  NetworkStart <- MCNetworkStart
  NumHosts = 32
  BlockSize = 8
  Reserved <- MCReserved
INVARIANTS
  TypeOK
  ReturnsLowestFree
PROPERTY
  ScanEnds
CHECK_DEADLOCK FALSE
