SPECIFICATION ReaperSpec
CONSTANTS
  Objects = {o1, o2}
  NoObject = NoObject
  Ids = {i1}
  Threads = {t1}
  NumLayers = 1
  GuestLayers = {1}
  Backend = "hyperv"
  Faults = {"create_vm", "raise", "layer", "vm_status", "decon_disk", "decon_vm", "reap"}
  Answers = {"true", "false", "raised"}
  Commands = {"create", "start", "stop", "activate", "get"}
  Crashes = TRUE
  Reapers = {r1}
  AgeGate = TRUE
INVARIANTS ReaperTypeOK RegistryAgrees NothingLost RunningHasVm
PROPERTIES ReaperSparesLive
