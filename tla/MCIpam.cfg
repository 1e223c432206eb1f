SPECIFICATION Spec
CONSTANTS
  NetworkStart = 0
  NumHosts = 9
  BlockSize = 3
  Reserved <- MCReserved
  Procs = {p1, p2, p3}
  Users = {u1, u2, u3}
  Resources = {r1, r2, r3}
  Types = {vm}
  MaxIps = 2
  Ips <- MCIps
  NoProc = NoProc
  AnyUser = AnyUser
SYMMETRY Symmetry
INVARIANTS
  TypeOK
  BlocksExclusive
  LeasesExclusive
  LeasesInOwnBlock
  WithinQuota
  AnswerRecorded
  DecisionsStand
PROPERTIES
  NoLineLost
  RefinesPool
