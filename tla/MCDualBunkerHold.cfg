SPECIFICATION ManagerSpec
CONSTANTS
  B1 = b1
  B2 = b2
  Objects = {b1, b2}
  NoObject = NoObject
  NoThread = NoThread
  Ids = {i1, i2}
  Threads = {t1, t2}
  NumLayers = 1
  GuestLayers = {1}
  Backend = "hyperv"
  Faults = {"raise", "layer", "vm_status"}
  Answers = {"true", "false", "raised"}
PROPERTIES ForensicHold
