SPECIFICATION FairSpec
CONSTANTS
  Srcs = {1}
  Tags = {1, 2}
  Kinds <- AllKinds
  RecvArgs <- ExactArgs
  SendTypes = {"SND_BUFFERED_EAGER", "SND_INPLACE_EAGER"}
  MSGREQ_SEND_SZ = 2
  MSGREQ_RECV_SZ = 3
  MaxMsg = 2
  MaxRecv = 2
  MaxSend = 1
INVARIANTS PoolSound
PROPERTIES RecvCompletes
CHECK_DEADLOCK FALSE
