CONSTANTS
  Players = {p1, p2}
  MaxRequests = 4
  MaxRestarts = 1
  Nil = Nil
SPECIFICATION Spec
SYMMETRY Symmetry
INVARIANTS TypeOK PlacesAgree 
CHECK_DEADLOCK FALSE
