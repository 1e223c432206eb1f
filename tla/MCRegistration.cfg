SPECIFICATION Spec
CONSTANTS
  Usernames = {u1}
  Emails = {e1}
  Handlers = {h1, h2}
  Shells = {a1}
  MaxRequests = 2
  NoFile = NoFile
  Empty = Empty
  Nobody = Nobody
SYMMETRY Symmetry
INVARIANTS
  TypeOK
  OnePendingPerUser
  NeverReopened
  ApiApprovalHasAccount
