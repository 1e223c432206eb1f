SPECIFICATION Spec
CONSTANTS
  NetworkStart = 0
  NumHosts = 8
  BlockSize = 4
  Reserved = {4}
  Handlers = {h1, h2}
  Names <- MCNames
  MaxIps = 2
  MaxCalls = 3
  NoIp = NoIp
  NoDir = NoDir
  Bare = Bare
  VmNames <- MCVmNames
  VmRequests <- MCVmRequests
  MaxCount = 2
  MaxVms = 3
  Clusters = {"c"}
  Nodes <- MCNodes
  MaxClusters = 1
SYMMETRY Symmetry
INVARIANTS
  PurgeRemovesEverything
