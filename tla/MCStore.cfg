\* One node, two clients, reads, writes and bad lines; raft does what it likes.
CONSTANTS
  NoNode = NoNode
  k1 = k1
  a = a
  Node = {n1}
  Client = {c1, c2}
  Key = {k1}
  Text = {a}
  Command <- Commands
  Entry <- Entries
  MaxQueued = 2
  MaxDelivered = 2
SPECIFICATION FairSpec
INVARIANTS
  TypeOK
  StorageIsLastWrite
  AcksInOrder
  AnswerStillTrue
PROPERTIES
  DeliveredIsApplied
  AskedIsAnswered
