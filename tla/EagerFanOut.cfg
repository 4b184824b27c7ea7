SPECIFICATION Spec
CONSTANTS
  NPROCS = 3
  Dests <- FanOutDests
  Types = {"PIGBACK"}
  InplacePkts = 2
  COM_RBUF_SIZE = 1
  COM_SCNTR_MINF_SZ = 2
  SND_CNTRL_MAX = 2
  RCV_CNTRL_INIT = 1
  ToqBusy = FALSE
  MaxMsg = 2
INVARIANTS ResetAddressed
