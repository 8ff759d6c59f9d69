CONSTANTS
  Players = {p1, p2}
  Rooms = {o1, o2}
  Threads = {t1, t2, t3}
  Serial = FALSE
  Nil = Nil
SPECIFICATION Spec
SYMMETRY Symmetry
INVARIANTS TypeOK ListedRoomHasMembers
