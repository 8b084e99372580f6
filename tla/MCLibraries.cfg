SPECIFICATION LibrariesSpec
CONSTANTS
  Vms = {v1, v2, v3}
  Hosts = {h1, h2}
  NoHost = NoHost
  MaxVms = 2
  ReAdd = FALSE
  Memories = {1, 2}
  Cores = {0, 1}
  Gpus = {0, 1}
  Profiles = {512, 2048}
  Usages = {0, 256, 410, 600, 4000}
  MaxGpus = 2
  Negative = 1
  MaxFree = 3
  Devices = {d1, d2}
  NoDevice = NoDevice
  Host = Host
  Disabled = Disabled
  Dismounted = Dismounted
  TimesOut = FALSE
  ImageNames = {n1, n2}
  MaxImages = 3
  Contents = {c1, c2}
  MaxDeploys = 2
  Users = {u1, u2}
  MaxKeys = 2
  Callers = {t1, t2}
  MaxLoops = 4
  ManyThreats = FALSE
  StateDb = db
  Reports = {r1}
  Snapshots = {s1}
  Versions = {1, 2}
  Workers = {w1, w2, w3}
CONSTRAINTS KeyIsNotLost FewVms
INVARIANTS Located PlacementFits PlanBalances MemoryInBounds
  GpusAreBooked ReadyIsOnDisk ValidIsSealed StoppedHasItsReport
  SigningKeysSurvive ActiveIsWatched  ChainIsWhole StartTellsTheDevice
  SettledIsProbed
PROPERTIES OthersPromiseNoMore LoopsEnd
