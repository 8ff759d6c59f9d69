CONSTANTS
  PlayerIds = {p1, p2, p3}
  Positions = {x1, x2}
  Default = Default
  Unknown = Unknown
  CmdCap = 2
  MaxMoves = 2
SPECIFICATION PositionsSpec
SYMMETRY Symmetry
INVARIANTS PositionsTypeOK ViewsAgree
CHECK_DEADLOCK FALSE
