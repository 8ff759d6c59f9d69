SPECIFICATION AccountSpec
CONSTANTS
  c1 = c1
  c2 = c2
  guest = guest
  member = member
  token = token
  Conns <- MCConns
  OpenIds <- MCOpenIds
  Guests <- MCGuests
  Tokens <- MCTokens
  MaxUid = 3
  MaxRequests = 3
  MaxMishaps = 1
  Nil = Nil
  Missing = Missing
  Failed = Failed
INVARIANTS TypeOK NoSharedAccount  DeadEntryIsExcused
 
CHECK_DEADLOCK FALSE
