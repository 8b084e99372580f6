----------------------------- MODULE MCService -----------------------------
(* The API and the command line over one store: bunkers with one identifier. *)
EXTENDS ServiceProperties
=============================================================================
