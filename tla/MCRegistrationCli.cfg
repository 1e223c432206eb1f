SPECIFICATION Spec
CONSTANTS
  Usernames = {u1, u2}
  Emails = {e1, e2}
  Handlers = {h1}
  Shells = {a1}
  MaxRequests = 2
  NoFile = NoFile
  Empty = Empty
  Nobody = Nobody
INVARIANT
  ApprovalHasAccount
