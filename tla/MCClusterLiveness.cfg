\* Two machines, one contender, one client, two writes, under the fairness of both.
CONSTANTS
  m1 = m1
  m2 = m2
  m3 = m3
  k1 = k1
  a = a
  b = b
  NoNode = NoNode
  Node = {m1, m2}
  Value <- OneSet
  connections <- TwoMachines
  Contenders = {m1}
  Fallible = {}
  RareKinds = {}
  MaxRare = 0
  MaxTerm = 1
  MaxLog = 2
  Client = {c1}
  Key = {k1}
  Text = {a}
  Command <- AnyCommand
  MaxQueued = 2
SPECIFICATION FairClusterSpec
PROPERTIES
  AcknowledgedIsApplied
