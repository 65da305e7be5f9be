\* Two nodes contend for one term; an answer is lost or a campaign runs late.
CONSTANTS
  m1 = m1
  m2 = m2
  m3 = m3
  NoNode = NoNode
  Node = {m1, m2, m3}
  Value = {a}
  connections <- ThreeMachines
  Contenders = {m1, m2}
  Fallible = {}
  RareKinds = {"break", "slow"}
  MaxRare = 1
  MaxTerm = 1
  MaxLog = 0
SPECIFICATION FifoSpec
INVARIANTS
  SomeoneCanAnswer
PROPERTIES
  CallEndsUnlessStuck
CHECK_DEADLOCK FALSE
