CONSTANTS
  adj = adj
  name = name
  verb = verb
  Players = {p1, p2}
  Cards = {adj, name, verb}
  PosOf <- MCPosOf
  Copies = 1
  HandSize = 2
  CmdCap = 2
  MaxGames = 2
  NoPlayer = NoPlayer
SPECIFICATION FairSpec
INVARIANTS TypeOK SentenceIsGrammatical CanInsertIsExact
  
CHECK_DEADLOCK FALSE
