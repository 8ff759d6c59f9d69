CONSTANTS
  Conns = {c1, c2}
  Players = {p1, p2}
  Notifiers = {n1}
  RecvCap = 1
  SendCap = 1
  MaxMsgs = 3
  MaxNotes = 0
  Upsets = {}
  Nil = Nil
SPECIFICATION Spec
SYMMETRY Symmetry
INVARIANTS TypeOK RecvChanClosedLast  ServedIsReachable
CHECK_DEADLOCK FALSE
