SPECIFICATION ReaperSpec
CONSTANTS
  Objects = {o1, o2}
  NoObject = NoObject
  Ids = {i1}
  Threads = {t1}
  NumLayers = 1
  GuestLayers = {1}
  Backend = "hyperv"
  Faults = {"create_vm"}
  Answers = {"true", "false", "raised"}
  Commands = {"cli_start"}
  Crashes = FALSE
  Reapers = {r1}
  AgeGate = TRUE
PROPERTIES ReaperSparesLive
