\* One node contends; the others crash and restart from what is left of their files.
CONSTANTS
  m1 = m1
  m2 = m2
  m3 = m3
  NoNode = NoNode
  Node = {m1, m2, m3}
  Value = {a, b}
  connections <- ThreeMachines
  Contenders = {m1}
  Fallible = {m2, m3}
  RareKinds = {"refuse", "crash", "persist", "disk"}
  MaxRare = 2
  MaxTerm = 2
  MaxLog = 2
SPECIFICATION Spec
INVARIANTS
  DiskIsCommitted
  DeliveredOnce
PROPERTIES
  ImplementsReplicatedLog
CHECK_DEADLOCK FALSE
