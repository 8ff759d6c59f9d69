CONSTANTS
  Players = {p1, p2}
  Rooms = {o1, o2}
  Threads = {t1, t2}
  Serial = TRUE
  Nil = Nil
SPECIFICATION FairSpec
INVARIANTS ListedMemberIsMapped
PROPERTIES CreatorHasLeftReplacedRoom EveryCallReturns
