\* Does the code keep DeliveriesAgree?
CONSTANTS
  m1 = m1
  m2 = m2
  m3 = m3
  NoNode = NoNode
  Node = {m1, m2, m3}
  Value = {a}
  connections <- ThreeMachines
  Contenders = {m1, m2}
  Fallible = {}
  RareKinds = {"refuse"}
  MaxRare = 1
  MaxTerm = 2
  MaxLog = 2
SPECIFICATION Spec
INVARIANTS
  DeliveriesAgree
CHECK_DEADLOCK FALSE
