SPECIFICATION Spec
CONSTANTS
  e = e
  p = p
  q = q
  Emails = {e}
  Passwords = {p, q}
  NoRow = none
  Asks <- Rivals
  Conns = {k1, k2}
  MaxBatch = 1
  MaxAsked = 2
  MaxTotal = 3
  MaxTime = 1
  FdSetSize = 64
SYMMETRY Symmetry
INVARIANTS TypeOK LoginSound OneWinner AnswersFollowRequests
PROPERTIES ImplementsBook MembersKept
