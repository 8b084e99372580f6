SPECIFICATION ServiceSpec
CONSTANTS
  Objects = {o1, o2}
  NoObject = NoObject
  Ids = {i1}
  Threads = {t1}
  NumLayers = 1
  GuestLayers = {1}
  Backend = "hyperv"
  Faults = {}
  Answers = {"true", "false", "raised"}
  Commands = {"cli_start", "cli_stop"}
  Crashes = FALSE
INVARIANTS StopDestroys
