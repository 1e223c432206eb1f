SPECIFICATION Spec
CONSTANTS
  Usernames = {u1, u2}
  Emails = {e1, e2}
  Handlers = {h1, h2}
  Shells = {}
  MaxRequests = 2
  NoFile = NoFile
  Empty = Empty
  Nobody = Nobody
INVARIANT
  DecisionIsFinal
