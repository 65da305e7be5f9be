\* Two nodes contend over two terms, the third may crash; one rare event.
CONSTANTS
  m1 = m1
  m2 = m2
  m3 = m3
  NoNode = NoNode
  Node = {m1, m2, m3}
  Value = {a}
  connections <- ThreeMachines
  Contenders = {m1, m3}
  Fallible = {m2}
  RareKinds = {"refuse", "slow", "crash"}
  MaxRare = 1
  MaxTerm = 2
  MaxLog = 2
SPECIFICATION HistorySpec
INVARIANTS
  TypeOK
  LeaderHasQuorum
  LeaderIndexBounds
  RequestSpeaksForSender
  DeliveredOnce
  OneLeaderUnlessLapse
PROPERTIES
  LeaderAppendOnly
CHECK_DEADLOCK FALSE
