\* Two machines, one contender, one client; the follower may crash and restart.
CONSTANTS
  m1 = m1
  m2 = m2
  m3 = m3
  k1 = k1
  a = a
  b = b
  NoNode = NoNode
  Node = {m1, m2}
  Value <- SetOrDelete
  connections <- TwoMachines
  Contenders = {m1}
  Fallible = {m2}
  RareKinds = {"refuse", "crash"}
  MaxRare = 1
  MaxTerm = 1
  MaxLog = 2
  Client = {c1}
  Key = {k1}
  Text = {a}
  Command <- Commands
  MaxQueued = 2
SPECIFICATION ClusterSpec
INVARIANTS
  AcknowledgedIsLogged
PROPERTIES
  StoreAssumptionMet
  ImplementsReplicatedStore
