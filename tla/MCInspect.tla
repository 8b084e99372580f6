----------------------------- MODULE MCInspect -----------------------------
(* Analyses, their monitors, their deadlines and their callers.             *)
EXTENDS InspectProperties
=============================================================================
