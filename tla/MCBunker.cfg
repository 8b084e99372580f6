SPECIFICATION FairSpec
CONSTANTS
  Objects = {o1}
  NoObject = NoObject
  Ids = {i1}
  Threads = {t1, t2}
  NumLayers = 2
  GuestLayers = {1, 2}
  Backend = "hyperv"
  Faults = {"raise", "deadline", "layer", "thread", "vm_status"}
  Answers = {}
INVARIANTS TypeOK TransientOwned ActiveIsLayered
PROPERTIES StateMachine TransientEnds
