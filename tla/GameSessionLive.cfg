CONSTANTS
  Conns = {c1}
  Players = {p1}
  Notifiers = {n1}
  RecvCap = 2
  SendCap = 4
  MaxMsgs = 3
  MaxNotes = 1
  Upsets = {"reauth", "redis", "battle"}
  Nil = Nil
SPECIFICATION FairSpec
PROPERTIES StrangerIsDropped CancelStopsAll
CHECK_DEADLOCK FALSE
