CONSTANTS
  HeaderSize = 2
  ReadSize = 4
  Lengths = {1, 3}
  RecvCap = 1
  SendCap = 2
  MaxRequests = 4
SPECIFICATION Spec
INVARIANTS TypeOK AnswersInOrder
PROPERTIES RequestsArrive AnswersArrive 
CHECK_DEADLOCK FALSE
