SPECIFICATION FairSpec
CONSTANTS
  Calls = {c1, c2}
  NoCall = noCall
  Connections = {k1, k2}
  Users = {u1, u2}
  NoUser = noUser
  MaxSessions = 2
INVARIANTS
  TypeOK
  NoConnectionLeaks
  NobodyWaitsInCircles
  CookieOpensOwnSession
PROPERTY
  EveryRequestEnds
