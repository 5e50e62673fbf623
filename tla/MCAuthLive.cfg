SPECIFICATION FairSpec
CONSTANTS
  e = e
  p = p
  q = q
  Emails = {e}
  Passwords = {p, q}
  NoRow = none
  Asks <- Logins
  Conns = {k1, k2, k3}
  MaxBatch = 2
  MaxAsked = 2
  MaxTotal = 2
  MaxTime = 0
  FdSetSize = 3
PROPERTY RequestsServed
