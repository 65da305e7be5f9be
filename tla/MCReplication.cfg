\* One node contends under the fairness of the runtime; connections may fail.
CONSTANTS
  m1 = m1
  m2 = m2
  m3 = m3
  NoNode = NoNode
  Node = {m1, m2, m3}
  Value = {a, b}
  connections <- ThreeMachines
  Contenders = {m1}
  Fallible = {}
  RareKinds = {"refuse"}
  MaxRare = 2
  MaxTerm = 3
  MaxLog = 2
SPECIFICATION FairSpec
INVARIANTS
  AckMeansStored
  CommittedOnQuorum
PROPERTIES
  ImplementsReplicatedLog
  LeaderElected
  AppendedIsDelivered
