------------------------------ MODULE MCReaper ------------------------------
(* The API, whose process may die, beside the reaper of an operator.         *)
EXTENDS ReaperProperties
=============================================================================
