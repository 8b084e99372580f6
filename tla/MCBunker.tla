------------------------------ MODULE MCBunker ------------------------------
(* One bunker, two threads calling any of its methods, every failure.       *)
EXTENDS BunkerProperties
=============================================================================
