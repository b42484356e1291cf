--------------------------- MODULE MCApplication ---------------------------
(* Instance of the application framework for TLC.  The array starts with   *)
(* one element, so that it grows.                                          *)
EXTENDS Application
=============================================================================
