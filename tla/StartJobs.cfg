SPECIFICATION Spec
CONSTANTS
  Procs <- ThreeProcs
  Places <- PlacesOf
  Programs <- TwoPrograms
  CqPages = 2
  UsrPages = {1, 2}
  Words = {3}
  MaxJobs = 2
INVARIANTS PeersReady SameSegment LeaderWaits NoAbort FenceExact
PROPERTIES AllEnd
CHECK_DEADLOCK FALSE
