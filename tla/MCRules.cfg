\* All logs and match indexes up to MaxIndex; all lines up to MaxPieces.
CONSTANTS
  m1 = m1
  m2 = m2
  m3 = m3
  m4 = m4
  NoNode = NoNode
  Node = {m1, m2, m3, m4}
  Value = {a}
  connections <- FourMachines
  MaxTerm = 2
  MaxIndex = 4
  Upper <- OneUpper
  Plain = {"x"}
  MaxPieces = 6
SPECIFICATION FunctionsSpec
INVARIANTS
  VotesAsPaper
  AcceptsAsPaper
  MergesAsPaperAtEnd
  PicksGreatestReached
  ParsesAsWritten
CHECK_DEADLOCK FALSE
