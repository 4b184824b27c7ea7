SPECIFICATION Spec
CONSTANTS
  Srcs = {1, 2}
  Tags = {1, 2}
  Kinds <- LongKinds
  RecvArgs <- WildArgs
  SendTypes = {}
  MSGREQ_SEND_SZ = 2
  MSGREQ_RECV_SZ = 6
  MaxMsg = 2
  MaxRecv = 2
  MaxSend = 0
INVARIANTS NoMissedMatch Delivered NothingLost RndzReleased InOrder
CHECK_DEADLOCK FALSE
CONSTRAINT ThreeSent
