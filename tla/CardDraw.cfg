SPECIFICATION DrawSpec
CONSTANTS
  p1 = p1
  p2 = p2
  u1 = u1
  u2 = u2
  Players <- MCPlayers
  Uids <- MCUids
  Guarantee = 2
  MaxBatch = 2
  MaxCards = 5
  MaxDraws = 2
  MaxMishaps = 1
  Nil = Nil
  Missing = Missing
  Failed = Failed
SYMMETRY Symmetry
INVARIANTS TypeOK CardIdsUnique  ShownCardsAreSaved
CHECK_DEADLOCK FALSE
