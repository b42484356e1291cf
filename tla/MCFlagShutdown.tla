--------------------------- MODULE MCFlagShutdown ---------------------------
(* Instance of test1 for TLC.                                              *)
EXTENDS FlagShutdown
=============================================================================
