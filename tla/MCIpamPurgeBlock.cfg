SPECIFICATION SpecWithAdmins
CONSTANTS
  NetworkStart = 0
  NumHosts = 6
  BlockSize = 2
  Reserved = {5}
  u1 = u1
  u2 = u2
  r1 = r1
  Users <- MCUsers
  Resources <- MCResources
  Types = {vm}
  MaxIps = 2
  Ips = {2, 4}
  NoProc = NoProc
  AnyUser = AnyUser
  NoFile = NoFile
  Procs = {p1}
  Admins = {a1}
PROPERTY
  OnlyOwnBlockFreed
