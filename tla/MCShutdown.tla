----------------------------- MODULE MCShutdown -----------------------------
(* Instances of start and shutdown for TLC.                                *)
EXTENDS Shutdown
=============================================================================
