SPECIFICATION ServiceSpec
CONSTANTS
  Objects = {o1, o2}
  NoObject = NoObject
  Ids = {i1}
  Threads = {t1}
  NumLayers = 1
  GuestLayers = {1}
  Backend = "hyperv"
  Faults = {"check_available", "create_switch", "create_vm", "late_vm", "persist", "clean_vm", "clean_switch", "raise", "layer", "thread", "vm_status", "decon_disk", "decon_switch", "decon_vm", "verify_host"}
  Answers = {"true", "false", "raised"}
  Commands = {"create", "start", "stop", "activate", "get", "cli_start", "cli_stop"}
  Crashes = TRUE
INVARIANTS Traceable DestroyedIsClean
