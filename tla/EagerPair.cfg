SPECIFICATION FairSpec
CONSTANTS
  NPROCS = 2
  Dests <- PairDests
  Types = {"PIGBACK", "INPLACE", "RENDEZOUS"}
  InplacePkts = 3
  COM_RBUF_SIZE = 2
  COM_SCNTR_MINF_SZ = 2
  SND_CNTRL_MAX = 1
  RCV_CNTRL_INIT = 1
  ToqBusy = FALSE
  MaxMsg = 3
INVARIANTS TypeOK PipeInv OneEvent MinfWindow
PROPERTIES FifoLive EventuallyRetired
