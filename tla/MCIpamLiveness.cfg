SPECIFICATION Spec
CONSTANTS
  NetworkStart = 0
  NumHosts = 6
  BlockSize = 2
  Reserved = {1, 3}
  Procs = {p1, p2}
  Users = {u1, u2}
  Resources = {r1, r2}
  Types = {vm}
  MaxIps = 2
  Ips = {2, 4}
  NoProc = NoProc
  AnyUser = AnyUser
PROPERTIES
  EveryCallReturns
  LockComesFree
