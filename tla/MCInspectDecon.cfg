SPECIFICATION InspectSpec
CONSTANTS
  Objects = {o1}
  NoObject = NoObject
  Ids = {i1}
  Threads = {t1}
  NumLayers = 1
  GuestLayers = {1}
  Backend = "hyperv"
  Faults = {"layer", "clean_vm"}
  Answers = {"true", "false", "raised"}
  NumChecks = 2
  MaxInFlight = 1
  Crashes = FALSE
INVARIANTS SuccessIsClean
