SPECIFICATION Spec
CONSTANTS
  NPROCS = 3
  Dests <- CrowdDests
  Types = {"PIGBACK", "INPLACE"}
  InplacePkts = 2
  COM_RBUF_SIZE = 1
  COM_SCNTR_MINF_SZ = 2
  SND_CNTRL_MAX = 1
  RCV_CNTRL_INIT = 2
  ToqBusy = TRUE
  MaxMsg = 1
INVARIANTS RoomExclusive NoAbort
PROPERTIES FifoSafe
