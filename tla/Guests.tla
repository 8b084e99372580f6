------------------------------- MODULE Guests -------------------------------
(* The virtual machines the resource libraries know by name.  Cluster,      *)
(* Resources, Passthrough and Agent each keep books of their own on them.   *)
CONSTANT Vms
=============================================================================
