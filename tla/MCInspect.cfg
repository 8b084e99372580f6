SPECIFICATION InspectFairSpec
CONSTANTS
  Objects = {o1}
  NoObject = NoObject
  Ids = {i1}
  Threads = {t1, t2}
  NumLayers = 1
  GuestLayers = {1}
  Backend = "hyperv"
  Faults = {"deadline", "sample", "create_vm", "raise", "layer", "guest", "telemetry", "vm_status", "decon_disk", "decon_switch", "decon_vm"}
  Answers = {"true", "false", "raised"}
  NumChecks = 2
  MaxInFlight = 1
  Crashes = TRUE
INVARIANTS InspectTypeOK SlotsBalance AlwaysDecontaminated SuccessIsClean InterruptedIsTraceable
PROPERTIES VerdictIsEarned AnalysisEnds

