----------------------------- MODULE Libraries -----------------------------
(***************************************************************************)
(* The libraries of lumenos_sandbox beside the life of a bunker: objects   *)
(* that share no state and do not call each other.  Interleaving them says *)
(* nothing, so a behaviour works with one of them and leaves the others as *)
(* they are made.                                                          *)
(***************************************************************************)
EXTENDS ClusterProperties, Resources, Passthrough, Images, Packages, Agent,
        Secrets, Monitoring, GuestChecks, Forensics, Phone, Factory

VARIABLE library    \* the one the behaviour works with

libraryVars == <<library, clusterVars, resourceVars, gpuVars, imageVars,
                 packageVars, agentVars, secretVars, monitorVars,
                 guestCheckVars, evidenceVars, phoneVars, factoryVars>>

\* the others start from one of their initial states
LibrariesInit ==
  /\ library \in {"cluster", "resources", "gpu", "images", "packages", "agent",
                   "secrets", "monitoring", "checks", "forensics", "phone", "factory"}
  /\ IF library = "packages" THEN TRUE ELSE source = CHOOSE c \in Contents : TRUE
  /\ IF library = "checks" THEN TRUE ELSE asker = "monitor"
  /\ IF library = "forensics" THEN TRUE ELSE onDisk = [f \in Files |-> 0]
  /\ IF library = "phone" THEN TRUE ELSE hypervisor = "none"
  /\ IF library = "factory" THEN TRUE ELSE override = "mock" /\ system = "linux"
  /\ ClusterInit /\ ResourcesInit /\ GpuInit
  /\ ImagesInit /\ PackagesInit /\ AgentInit
  /\ SecretsInit /\ MonitoringInit /\ GuestChecksInit /\ ForensicsInit /\ PhoneInit
  /\ FactoryInit

LibrariesNext ==
  /\ UNCHANGED library
  /\ IF library = "cluster" THEN ClusterNext ELSE UNCHANGED clusterVars
  /\ IF library = "resources" THEN ResourcesNext ELSE UNCHANGED resourceVars
  /\ IF library = "gpu" THEN GpuNext ELSE UNCHANGED gpuVars
  /\ IF library = "images" THEN ImagesNext ELSE UNCHANGED imageVars
  /\ IF library = "packages" THEN PackagesNext ELSE UNCHANGED packageVars
  /\ IF library = "agent" THEN AgentNext ELSE UNCHANGED agentVars
  /\ IF library = "secrets" THEN SecretsNext ELSE UNCHANGED secretVars
  /\ IF library = "monitoring" THEN MonitoringNext ELSE UNCHANGED monitorVars
  /\ IF library = "checks" THEN GuestChecksNext ELSE UNCHANGED guestCheckVars
  /\ IF library = "forensics" THEN ForensicsNext ELSE UNCHANGED evidenceVars
  /\ IF library = "phone" THEN PhoneNext ELSE UNCHANGED phoneVars
  /\ IF library = "factory" THEN FactoryNext ELSE UNCHANGED factoryVars

\* the threads of the monitor run on; of the rest nothing need ever happen
LibrariesSpec == LibrariesInit /\ [][LibrariesNext]_libraryVars /\ LoopFairness
=============================================================================
