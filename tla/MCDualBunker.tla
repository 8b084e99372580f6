---------------------------- MODULE MCDualBunker ----------------------------
(* Two bunkers under one manager, called by two threads.                    *)
EXTENDS DualBunkerProperties
=============================================================================
