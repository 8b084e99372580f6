SPECIFICATION ServiceSpec
CONSTANTS
  Objects = {o1, o2}
  NoObject = NoObject
  Ids = {i1}
  Threads = {t1, t2}
  NumLayers = 1
  GuestLayers = {1}
  Backend = "hyperv"
  Faults = {"create_vm"}
  Answers = {"true", "false", "raised"}
  Commands = {"create"}
  Crashes = FALSE
INVARIANTS Traceable
