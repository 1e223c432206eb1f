SPECIFICATION SpecWithAdmins
CONSTANTS
  NetworkStart = 0
  NumHosts = 4
  BlockSize = 2
  Reserved = {3}
  u1 = u1
  u2 = u2
  r1 = r1
  Users <- MCUsers
  Resources = {u2}
  Types = {vm}
  MaxIps = 1
  Ips = {2}
  NoProc = NoProc
  AnyUser = AnyUser
  NoFile = NoFile
  Procs = {p1}
  Admins = {a1, a2}
SYMMETRY Symmetry
INVARIANT
  PurgeTypeOK
PROPERTY
  BlocksGrantedWhole
