SPECIFICATION Spec
CONSTANTS
  Procs <- SixProcs
  Jobs <- AllJobs
  Rounds = 2
  Synced = TRUE
INVARIANTS GatesOwned NoSignalAstray SameBuffer
PROPERTIES BarrierCorrect AllDone
CHECK_DEADLOCK FALSE
