--------------------------- MODULE MCRgbdPipeline ---------------------------
(* Instances of the frame pipeline for TLC; the bounds are in the .cfg     *)
(* files.                                                                  *)
EXTENDS RgbdPipeline
=============================================================================
